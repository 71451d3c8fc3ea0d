# Verification of Open Carrier Data

Open Carrier Data (OCD) publishes carrier profiles, and what is generated from them for Android phones, from one repository. A private sanitizer writes the profiles; the tools under `src/tools` give them lasting IDs, read their emergency lines, resolve, generate and check them; GitHub workflows run the tools on every pull request, keep pull requests up to date and land them through a merge queue. Nothing in the repository is a server, but much of it is concurrent: several pull requests are under way at once, each built on a `main` that has moved since, and several workflow runs act on one of them. And much of it is one long computation in many steps, where a step that is right by itself can undo what an earlier one ensured.

This project models the parts where the order of steps decides whether a promise to readers of `main` is kept, from the profile IDs to the row a phone stores and the values a SIM is served. Each module states which code it follows; `PROJECT.json` maps every definition to its lines.

## 1. Inventory

| Part | Code | State | Operations | What makes it correct |
|---|---|---|---|---|
| Profile ID registry | `tools/profile_ids.py` | `carriers/open/*` (ID → match set), `aliases/ids.json` (retired IDs, continued IDs), the private list of accepted continuity entries | load, plan, assign, withdrawn_id, finish, check | An ID is issued once, never reused, and stays with its SIMs; retired IDs point on; the writer never builds what the checker refuses |
| Match sets | `tools/profile_ids.py`, `tools/resolve_carrier_profiles.py` | none | same_sims_key, rule_implies, rules_overlap, profile_matches | The relations say of rules what the matcher does to SIMs |
| F5 read chain | `tools/f5_read.py` | `generated/ocd-dataset/f5-reads.json`, the rows of `apns-conf.xml` | read, publish, check, chain, backfill | Every emergency-line change on `main` has its read, and a phone on any older commit can walk to the newest one |
| Refresh bot | `.github/workflows/refresh-generated.yml`, `tools/digest_chain.py` | runs, jobs, branch heads, one comment per pull request | plan, refresh, push, approve, comment | Branches get the newest `main` and are never taken back to an older one; a stop is told |
| Check-run context | `tools/guard_context.py`, `.github/workflows/validate.yml` | accept lines of pull request bodies, runs, the queue | resolve, run_guard | A check runs against the base its event means, under lines its author still stands by |
| Phone guard | `tools/check_phone_guard.py`, `sim_groups.py`, `plan_families.py` | none | compare two APN files per scope, report, trip | No role is lost and no lead changes unseen |
| Phone APN model | `tools/android_phone_model.py` | the provider's table | insert, absorb, leads | It gives what Android's provider gives |
| Android generator | `tools/generate_android_outputs.py`, `carrier_config_types.py` | the rows of a scope, step by step | apn_xml_rows, write_scope | Each step moves only the leads it is there to move; no APN and no emergency set is lost |
| Carrier resolution | `tools/resolve_carrier_profiles.py`, `order_vectors.py` | none | match, order, explain, synthetic SIMs, dry run | The lookup gives a SIM what the phone's reader gives it |
| OCD dataset | `tools/ocd_dataset.py` | sources, group A reads, `generated/ocd-dataset/*` | generate, validate, reads, explain | Profile IDs decide nothing; no emergency value reaches a SIM unread |
| Two answers | `tools/two_answers.py` | statements, the identity table, the maps in profile files | derive, apply, check | A brand speaks for none but its own SIMs |
| Observed reports | `tools/observed_reports.py`, `.github/workflows/ocd-check-report.yml` | report issues, `observed/`, the bot's pull request, source reviews | check_issue, statuses, rebuild, propose, review_plan | A count is a count of accounts; `main` follows the issues; what the counts show is put to a maintainer |
| Freshness alarm | `.github/workflows/validate.yml`, `tools/validate_public_carrier_data.py` | issues labelled `stale-data`, the snooze variable | validate strictly, list, open, close | Whatever overlaps, an issue comes to be open exactly when `main` is stale or its pipeline stopped |
| Validators | `tools/validate_*.py` | none | validate | Stateless |
| Importers, diffs | `aosp_carrier_list.py`, `lineageos_apns.py`, `diff_*.py`, `credential_fill_ins.py` | none | print | Stateless |

How they meet: the sanitizer calls the registry (plan, assign, withdraw, finish), derives the two answers and commits its tree to a pull request. The Android generator turns the profiles into APN rows, which the phone APN model reads as a phone would; the publisher runs `f5_read.py publish` on them, with an agent's read where the rules hold a line, and `ocd_dataset.py generate` on profiles, Google's rules and group A reads. The refresh bot merges `main` into labelled pull requests, regenerates and publishes the read again. `validate.yml` runs every check on the pull request and again in the merge queue, which lands one squash at a time (`CONTRIBUTING.md:50`), so a check there compares the tree that lands with the very `main` it lands on; the phone guard is one of these checks. Consumers (the ROM's pin step, the OCD app) read `main`, walk the F5 chain from what they have installed, and resolve their SIM in the dataset. What users find wrong comes back as report issues.

What is hard here: pull requests built on a `main` that has moved; files that merge without a conflict although their meaning clashes; continuity entries applied builds after they were proposed; IDs that retire and come back; rows that return to an earlier state; accept lines that outlive the commit they were written for; reads and answers made for a match set that was revised since; runs that overtake or cancel each other between two API calls; generator steps that undo one another; the same order written twice in two tools; and rules (hash collisions, letter case, wildcards) whose corner cases no test combines. `PROJECT.json` lists these as hazards, each at its line.

## 2. Plan

1. **Registry** (done): `MatchRules` → `ProfileTree` → `MatchMeaning`; `ProfileTree`, `IdLedger` → `RegistryGate` → `ProfileIds`, which extends the gate by its writers.
2. **F5 chain** (done): `F5Reads` → `F5Gate` → `F5Publish`.
3. **Refresh bot** (done): `RefreshBot`, one module, because its jobs meet only in the branch, the comment and the concurrency group.
4. **Observed reports** (done but for the text checks): `ReportFilters` → `ObservedReports` → `SourceReviews`.
5. **Phone APN model and Android generator** (done for `apns-conf.xml`): `ApnRows` → `PhoneApns` → `ScopeSteps` → `RoleGaps` → `AndroidGenerator`.
6. **Phone guard and check-run context** (done): `PhoneApns` → `PhoneGuard`; `GuardedMain`; both meet in `GuardedReports`, run by `MCGuardedMain`.
7. **Freshness alarm** (done): `FreshnessAlarm`, the other job of the same workflow, checked in the same run.
8. **Carrier resolution, dataset, two answers** (done but for the registry of keys, the withheld list and reach lines): `OcdStacks` → `OcdTies` → `GroupAReads`, `OrderVectors`; `MatchRules` → `CarrierResolver` → `TwoAnswers`; all meet in `OcdDataset`.
9. Left to model: the withheld list and the reach lines of the dataset, `digest_chain.py`, the expiry windows of profiles that the generator copies into `lookup.json`.
10. Proofs (done for the registry, the F5 chain, the bot, reports, the guarded `main` and the guard's report, the dataset but for brands, and what the Android generator keeps of APNs and emergency rows). Still worth making: the generator's leads (`RolesKept`, `InternetUnmoved`).

## 3. The modules and the code

### Registry

- **`MatchRules`** is the pure half of `profile_ids.py`: `same_sims_key`, `rule_implies`, `rules_overlap` and `profile_matches`, on rules of short strings over a small alphabet with one letter case (`Fold`) and the IMSI wildcard `x`. A SIM is a record of the keys a rule can ask for.
- **`ProfileTree`** is a checkout of the registry: `live` (the profile files under `carriers/open`, ID → match set), `aliases` (`aliases/ids.json`: kind, targets, match set and date of each retired ID) and `continued` (its `continued` list). `TreeValid` is the tree check (`tree_problems` with `alias_document_problems`), `BaseValid` is `base_problems`, the comparison with the merge base that `profile_ids.py check --base` makes. Match sets are model values; the relations between them are tables computed from `MatchRules`. `hash_id(match, counter)` is the constant `Hash`, any function at all, so collisions are in scope.
- **`IdLedger`** is the abstract promise: an ID is unissued, live or retired, in that order and never back; the SIMs of a live ID change only where an accepted continuity entry carries it; two IDs never have the same SIMs one after the other while the first is live.
- **`RegistryGate`** lets *any* tree land that passes both checks. That it implements `IdLedger` shows the checks alone keep the promise, whoever wrote the tree.
- **`MatchMeaning`** says what the relations and the alias targets mean for SIMs. Its state is three match sets, one retired and two of a new tree, of which the retired one may be replaced by any other (`Retire`, not code); `IsMatchSet` is what the validator of profiles accepts as a match set, `IsSim` what the matcher can be asked about. Texts may be of any length, empty ones too, and an IMSI need not begin with the digits of its network.
- **`ProfileIds`** is the writer. `Plan`, `Assign`, `Withdraw` and `Finish` are `Registry.load` with `plan`, `assign`, `withdrawn_id` and `finish`; `Accept` puts a proposed continuity entry on the private list, where a later build's `Plan` finds it; `Land` is the merge queue: the file-by-file merge of the pull request with whatever `main` is by then, gated by both checks on the result. It extends `RegistryGate`, whose `main` it lands on. Its state is the tree on `main`, the number of landings (which dates the builds), the accepted entries, and one build per builder with the fields of `Registry`.

### F5 chain

- **`F5Reads`** has the documents: a read is its base and head rows, the lines that differ, the held ones, a verdict, a method (`deterministic` or `agent`) and the rules version. `ReadFiles`, `AppendRead`, `Bridged`, `FileValid`, `ChainPath`, `Takes` and `Check` follow `read_files`, `append_read`, `bridged`, `file_problems`, `chain_path`, `path_verdict` and the command `check`. Which emergency lines differ between two files of rows, and which lines a checkout's rules hold, are the tables `Lines` and `Held`. A context is everything else in a checkout that the verdict depends on: carrier list, stated rows, rules.
- **`F5Gate`** lets any tree land that passes `check` against the tree it lands on, and records `main`'s history.
- **`F5Publish`** adds the pull requests: edits, `publish` with and without an agent's read, the refresh bot's merge and publish, `backfill --onto`, a maintainer's merge, and the merge queue. It extends `F5Gate`; what it lands is what the gate lets through, so the theorems on the gate hold of it.

### Refresh bot

**`RefreshBot`** follows `refresh-generated.yml`. Each push to `main` starts a run; `Plan` is its plan job. A refresh job goes through `Start` (it enters the branch's concurrency group, cancels the job at work there and checks out), `Merge`, `ReadPullRequest`, `Push`, `Dispatch` and `Poll`: one action for everything between two points where the job reads or writes something others change. `ReadComments` and `WriteComment` are the comment job, one loop over the outcomes of its run in any order, which looks for the bot's comment in one call and writes in another before it comes to the next outcome. Any of its calls can fail or its runner be lost; under `set -e` that ends the loop (`CommentsFail`), and the run is then in `untold`. `PlanFails` and `LoseOutcome` are the plan job that fails and the runner lost before its outcome is kept; `TimeOut` ends a refresh job anywhere. The authors push, take a commit back, or toggle what makes the pull request eligible; `CreateCheck` is GitHub making the required `pull_request` run, started or waiting for approval. A branch is a sequence of commits, each with the newest `main` it contains.

### Observed reports

- **`ReportFilters`** is `report_issues` and `statuses` on issues as a function on numbers. The code goes through the issues once and keeps tables (`newest`, `hashes`, `monthly`, `first`); the module says of each issue what those tables hold when the loop reaches it. What a report says is given by tables: `Cell` and `Place` are `cell_of` and `tree_place`, `Suspect` the texts with flags, and a text is known by its hash.
- **`ObservedReports`** is the `observed` job. `Submit`, `Edit`, `Withdraw`, `Delete` and `Release` change issues, and all but `Delete` are events that queue a run. `Rebuild` is the checkout of `main` with the reading of all issues; `Propose` opens, replaces or closes the pull request. Between the two, and between `Propose` and `Merge`, issues, days and `main` change. A merge closes the issues it adds (`Closes #n` in `pr_body`), which is an event again.
- **`SourceReviews`** is the `source-review` job on top of it. `ReviewPlan` is `review_plan`: clean failures of counted reports, grouped by profile and failed entry, against the entries of the same kind that passed. `ReviewCheckout`, `PlanReviews` and each `WriteReview` are separate steps, between which maintainers close, reopen or open issues by hand, reports change and `main` moves; `ReviewFails` ends the job at any of them. `PublishReports` stands for rebuild, proposal and merge in one step, since `ObservedReports` has those apart. A review body is known by its key and the reports behind it; maintainers do not edit the bot's text.

### Android generator and phone

- **`ApnRows`** has the row of the generator: types, attributes, per type the sources and current vendors behind it, the marks later steps read, its key on the phone and its rank. A user name stands for user and password; ports, the IPv6 MTU and the carrier ID are left out, because the code treats each like an attribute that is kept.
- **`PhoneApns`** is `android_phone_model.py`: how `TelephonyProvider` stores the file's rows (insert, or merge into a stored row with an equal key), how `ApnSetting` reads them, which similar ones `DataProfileManager` merges, and which profile leads each type on each network type.
- **`ScopeSteps`** and **`RoleGaps`** are the steps of `write_scope`, each an operator from rows to rows: ranking, vendor attach rows, emergency and IMS types, MMS on its own APN, the legacy copy that may only fill gaps, and what is absorbed.
- **`AndroidGenerator`** runs them on one scope, one action per step (thirteen), then `LoadRow` lets the phone read the written rows one by one. `prior` keeps the rows before the last step, so that a property can say what a step may do to the leads.

### Phone guard and check-run context

- **`PhoneGuard`** is `check_phone_guard.py` on two files of scopes (a network, an MVNO of it): what each row is believed on, which roles a file serves, the trips that hold a change (internet, attach or working MMS lost, MMS moved off a current vendor's setting) and the lines that report one. It uses `PhoneApns` for what a phone makes of each file.
- **`GuardedMain`** is how a file gets to `main` past the guard. Variables are `main` (its commits, each with file, accept lines and bodies its pull request held), `pr`, `passed`, `runs` and `queue`. `Push`, `UpdateBranch`, `EditBody`, `Open` and `Close` are authors'; `ShowHead` is the GitHub API catching up with a push; `Dispatch` and `Finish` a dispatched run, which looks its pull request up by branch and head; a `pull_request` run is atomic at its event. `Enqueue`, `QueueRun`, `Evict` and `Land` are the merge queue: a group is built on the one before it, a group that leaves takes the later ones along, and an accept line that is withdrawn after the queue's run has read it still lands. What the guard reads of two files is the table `TripsOf`.
- **`GuardedReports`** puts the two together: a file is given by the rows of its scopes (`RowsIn`), from which `PhoneGuard` reads the roles and the lines of each pair of files; it states what these lines tell of what phones lose. `MCGuardedMain` gives the rows, and the tables of `GuardedMain` from the readings.

### Freshness alarm

- **`FreshnessAlarm`** is the other job of `validate.yml`, with the freshness window and the liveness limits of `validate_public_carrier_data.py` (`Fresh`, `Live`, `Strict`). A snapshot is what a commit says of time: per lane the day of its source's last check and the day its values were last confirmed, and the day of the last publish. A run goes through `StartAlarm` (checkout and the snooze variable), `ValidateStrictly`, `ListIssues` (which looks up the open issue) and `SettleIssue` (which opens or closes one). `NextDay` and `PublishData` move the date and `main`; maintainers dispatch a run on any branch and for any date (`DispatchAlarm`), close or reopen issues (`TurnIssue`) and snooze the alarm (`SetSnooze`); `LoseAlarm` is a job that is cancelled or whose call fails. That the publish title is looked for among a hundred commits only, and that the API call may fail, is a last publish that is not given.

### Resolution, dataset and two answers

- **`CarrierResolver`** is `resolve_carrier_profiles.py` beyond its matcher: the order of a SIM's profiles, why the last one serves, and what `--explain` says the SIM gets.
- **`OcdStacks`**, **`OcdTies`**, **`GroupAReads`** are `ocd_dataset.py`: its own matcher and order (the ones the phone's reader copies) and the Google fill of a profile; the stack every SIM of a profile has, the tie check and the profiles built for Google's rules; which emergency (group A) values wait for a read, which reads cover them and what a read acts on.
- **`OrderVectors`** is `order_vectors.py`: the SIM it builds to match given profiles, what the dataset serves a SIM, and the pairs whose order changed.
- **`TwoAnswers`** is `two_answers.py`: `depends_on` from device records and conflicts, `for_you` from statements, the identity table and the regulator rows, and the checks of the tree and against its base.
- **`OcdDataset`** composes them. `Generate` is `generate` and `validate` (ties, fill entries the lane lacks, reads of flagged values) with the check of two answers; `WriteAnswers` is `derive` and `apply`; `Insert` is a phone that resolves its SIM in what was last published. Around them profiles are revised, values flagged, statements lapse and a reader reads what waits (`Revise`, `Flag`, `Lapse`, `ReadValue`, `ReadKey`). Rules and fill items are functions from their positions in Google's file, of which a profile has some. Texts are sequences of characters; in an IMSI the network's digits, the same in every SIM of it, are left out. One reader target stands for `GROUP_A_READ_TARGETS`.

### Definitions for checking

`MCRegistryGate`, `MCProfileIds`, `MCIdScenarios`, `MCF5Publish`, `MCRefreshBot`, `MCObservedReports`, `MCAndroidGenerator`, `MCGuardedMain` and `MCOcdDataset` give the constants values. Several have a variable, chosen at the start and never changed (`scenario`, `scope`, `input`), so that one run covers many small instances that would together be too large. Definitions marked *Mutant* are wrong variants of the definition that follows; each breaks the property it is paired with in `PROJECT.json` and none is used by a specification.

## 4. What the runs show

| Run | Instance | Shows |
|---|---|---|
| `registry_gate` | every SIM of a small world against every triple of seventeen match sets with prefixes, wildcards, spellings and carrier IDs; and every valid tree of three IDs and three match sets, two of them one set of SIMs, with colliding hashes, to any other | `RelationsMeanSims`: `rule_implies` is sound, equal keys cover equal SIMs, `rules_overlap` misses nothing among text rules. `AliasesHoldSims`: alias targets share SIMs with, and hold the SIMs of, the retired rule. `KeepsLedger`: the two checks allow only ledger steps |
| `ids` | splits and merges; spellings; two racing builders; a hash collision and two spellings in one build; a profile that narrows to SIMs the build writes twice | `WriterMeetsChecks`: what `finish` writes passes both checks against its base, for builds without two spellings of one set of SIMs and without hash collisions (the exceptions are named below). `ProposalsApply`: a proposal that is accepted is carried out by the next build of the same match sets, if the build has no twins and publishes all. `PublishedMergeNeverCarries`: in such a build, no merge carries an ID. `IdsStayApart`: no two match sets of a build share an ID, and withdrawn entries name IDs of their own. `FreshAliasesNameLive`: a build on the newest `main` never lands an alias to a retired ID. `KeepsLedger`: builds that race, collide and bring IDs back change `main` only as the ledger allows |
| `f5_chain` | one pull request at a time over three landings with new rules and a bridge; two racing over two landings while the carrier list changes; two racing over three, so rows come back | `NeverStranded`: the rows of every commit `main` ever had can walk to the newest, and may take them. `ChangesWereRead`: each change has a read of exactly its lines, by an agent where rules held one. `ChainIsHistory`: the chain's own reads are the changes of the rows, one for one. `RulesStay`: no read of other rules lands |
| `refresh_bot` | one pull request, two overlapping runs; two pull requests, one run; two moves of the author, or one, anywhere | `PushesBringMain`: a push of the bot gives a branch a newer `main` than it has, whatever its author or another run pushes between the bot's look and its push. `OutcomesAreTrue`: what a job reports is true of the `main` that started its run, and a stop changed nothing, and a branch that is called refreshed has its check; and, under fairness, `StopIsTold`: a stop is told whatever becomes of the run's other refresh jobs, unless its own outcome is lost or the run's comment job fails; and `QuietRunRefreshes` |
| `observed` | two accounts with two issues; one account with three reports that share a cell, a place or nothing; one account whose issues are edited, withdrawn, deleted or released, or whose job fails, twice; two accounts with findings while maintainers close, reopen and open reviews | `OneCounts`: no text counts twice on `main`, no account twice in a cell or place. `CapHolds`: the monthly cap, whatever is edited or released while a rebuild waits. `TimeOnlyAdvances`: a report that counts is never held again. Under fairness `MainCatchesUp`: when nothing changes any more, `main` comes to hold what the issues give; and `FindingsAreReviewed`: every finding on `main` comes to stand in an open review or to have been closed with it in view |
| `android` | every choice of one to five rows of seven pools, each pool about one matter (MMS, IMS and XCAP, emergency, credentials, gaps of the legacy copy, attach rows, rows that merge), on a network that keeps its APNs and one that does not: 6,682 scopes | `PhoneModelsAgree`: what the generator reads as stored is what `android_phone_model.py` stores, and a row that is left out as absorbed is merged there, or every earlier row similar to it was. `RolesKept`, `InternetUnmoved`: which leads a step may take or move. `EmergencyCovered`: a file that serves emergency calls serves them in every APN set a phone may prefer. `EveryApnStays`: every APN that a source gives for a type of its own is in the file. `CopyFillsGapsOnly`: LineageOS's legacy list moves no lead but the gaps it fills |
| `guard` | two pull requests, one of which may dispatch runs, over the 33 files of a network (absent or of ten contents) and an MVNO (absent or of two), to three commits of `main`; and the alarm with a lane that is late after a day and one after two, over three days, with two acts of maintainers or lost jobs | `LossesWereAccepted`: what a phone loses between any two commits of `main`, however far apart, was lost in a commit whose lines accept it. `LandedLinesStood`: by a body the pull request had since its group was built. `PassedOnItsOwnBody`: no run passes a commit on the lines of another head. `ReportTellsAll`: the lines tell of every loss, and no line means that no internet or attach APN and no MMS setting moved but to a vendor's, no credentials or proxy changed, and the IMS APN and the emergency lead, but for its proxy, stayed. Under fairness `AlarmSettles`: when publishes, days and hands rest, an issue is open if and only if `main` fails the strict validation |
| `ocd_dataset` | any three of thirteen profiles; one profile and two of eight Google rules; pairs of profiles that tie up to the ID; a group A value with reads, revisions and flags; two brands' profiles with a rider, lapsing statements and revisions | `ResolversAgree`: lookup and phone give a SIM the same stack, reason, values and rows. `TiesServeAlike`: no profile ID decides values or fill. `ProfilesKnowTheirSims`: the certain stack and the fill computed from a profile's match are what each of its SIMs gets from the profiles and rules themselves. `DryRunReaches`: synthetic SIMs match what they were built for, and a SIM whose order changed is in a pair the dry run counts. `EveryDifferenceIsRead`: an emergency value that differs from Google's reaches no SIM unread. `BrandsSpeakForTheirOwn`: no SIM is told the own state of a brand while another brand's rule holds for it that is not wider, but for the five cases named below, each of which the instance has |
| `twins_load`, `bot_overtaken`, `observed_twice`, `ocd_ties` | the smallest instance each needs | a statement of the repository that the code does not keep, see below |

**Bounds.** The registry's decisions compare at most two IDs with each other and one match set with two (an ID that retires, the one that takes its SIMs, another that shares them), so three match sets per scenario reach every branch (of two that are alike only one stands beside the one that holds both); three landings allow an ID to be issued, retire and come back, or an entry to be proposed, accepted and applied. Two builders are the least that race. Two counters are the first one and one past a collision. The F5 chain needs a change, one after it and a return to earlier rows, hence three files of rows, and one older than the chain for the bridge. Two runs are the least that overlap; two moves let an author act in both, or undo one. Three reports let one be superseded by cell and another by place, and one more than the cap count. A hold of one day, an expiry after one, a cap of one and months of two days, over the three days 0 to 2, put every boundary inside the days of the run. Generator steps compare a row with one other, or a type's lead with the rows behind it; five rows let a row be led, merged, retyped and absorbed by different ones. Three commits of `main` let a loss happen against a commit that is no longer the tip. A date, one before it and one after it put every limit of the alarm on both of its sides; two acts let two runs open an issue each, or one lose what another did. Three profiles let two orders disagree and a third stand between. `MaxLandings`, `MaxHistory`, `MaxMain`, `MaxMoves`, `MaxCounter`, `MaxIssues`, `MaxDay`, `MaxCommits`, `MaxRuns`, `MaxDate`, `MaxHands` and the `reads` of an input are the bounds; each is a guard or a constant set, and the theorems of section 5 hold for any value of them. `CHECK_DEADLOCK FALSE` stands in the runs whose system may come to rest: no more landings or pushes within the bound, the rows all read.

**Fairness.** `refresh_bot`, `bot_overtaken`, `observed` and `guard` state liveness. The bot's plan job and each step of a job are weakly fair: GitHub gives every job a runner and a job that has one goes on, or is cancelled or times out after thirty minutes, which is the unfair action `TimeOut`. A plan job or a comment job that fails and an outcome that is lost are unfair too (`PlanFails`, `CommentsFail`, `LoseOutcome`). `PushMain`, `CreateCheck` and everything authors do are unfair. For reports, the daily schedule, the queued job's start and its end are weakly fair, and so is `Merge`: a maintainer merges a pull request that stays open and mergeable, without which nothing ever reaches `main`. The review job has the same: its schedule, start and steps, and `PublishReports`. What accounts and maintainers do to issues, days, and a job that fails are not fair, and failures are bounded. The alarm's daily run is weakly fair as a whole (its start and each of its steps), since the schedule comes back every day and GitHub runs a job to its end, and so are the steps of a dispatched run; publishes, days, hands and lost jobs are not. GitHub stops the schedules of a public repository after sixty days without a commit, after which nothing here holds. The other components are commands that somebody may or may not run; nothing in the repository makes them happen, so they have safety properties only.

### What the properties leave out, and why

- `InternetUnmoved` does not hold the step that puts vendors' attach rows first to the internet lead when Android's merge is on: a row it moves ahead can take a similar internet row with it.
- `RolesKept` starts after the legacy copy's gaps: leaving the copy out can cost a role that only the copy gave, by design; and MMS servers are compared only once the scope is ranked, since ranking can put a row without a server first. MMS on CDMA network types is left by design. It holds rule D8 to a role only where the rule leaves out one row of a stored group, and the attach step only where a usable internet row is left; section 4 says what happens otherwise.
- `EmergencyCovered` is about scopes where at most one row of each stored group has its emergency type from superseded Google copies alone, for the same reason.
- `EveryApnStays` owes no row to an APN that only the legacy copy or an emergency type gives, nor to one given for nothing but attach on a row that also serves emergency calls.
- `CopyFillsGapsOnly` speaks of copy rows that are stored alone. One that Android stores with another row widens that row's network types, and can so move a lead that was no gap.
- `PhoneModelsAgree` is about networks that do not keep their APNs, and about scopes the two models can read alike (`Comparable`): no row writes a bitmask of network types as 0, which `android_phone_model.py` reads as every type and the generator as one more type of the list, and no two rows state the MTU in different attributes. It does not say that every row left out as absorbed is merged: when every earlier row similar to it was merged itself, it is not (see below).
- `ResolversAgree` leaves out texts with a character that Python's `casefold` and Java's upper and lower case compare differently, such as a dotless i. Characters that fold to several are left out of the model.
- `TiesServeAlike` leaves the coupling to profiles with one value per selector; `ocd_ties` shows why. `BrandsSpeakForTheirOwn` speaks of no rival where one of the two profiles has several values for a selector, where the rival's IMSI pattern is longer by wildcards alone, where the two have different carrier IDs, or where a text is one that `casefold` and Java compare differently; and of riders only where the profile has one carrier ID at most. Each exception is needed: without it the run fails. The reasons are below.
- `StopIsTold` says nothing of a run whose comment job fails: one failed call leaves out every outcome behind it. `ReportTellsAll` holds the emergency lead to everything but its proxy, since no line of the guard's report reads it (below).
- `FindingsAreReviewed` counts a finding as reviewed that the job wrote into an issue which was closed after the job had looked at it.

### Where the code and its documents part

Shown by a violation run each:

1. `twins_load`: two *new* spellings of the same SIMs in one build pass every check and land, and `Registry.__init__` then refuses to load `main`; the docstring of `plan` says the second one just gets a new ID.
2. `bot_overtaken`: when the older run's push lands between the newer run's plan and its job, the newer job skips the branch as "moved", says nothing, and the branch stays behind `main` until the next push.
3. `observed_twice`: an account that sends its only report of a cell in two issues has none that counts: the first is superseded by the second, which is a duplicate of the first. `community/README.md:115` promises one counted report per account and cell.
4. `ocd_ties`: two profiles with SPN lists {x, y} and {x, z} tie up to the ID; a SIM of x couples with the APN rows of one and not with those of the other, and `tie_problems` says nothing, because `served_difference` takes a row anywhere for a row of this SIM.

Seen while modelling, without a run of their own:

- "A split or merge never carries an ID over" holds only of what `plan` sees. `plan` runs before match sets are withdrawn, `finish` after, and a carried ID can be the target of a merge alias.
- Two pull requests on one `main` can land aliases whose targets the other one retired.
- A hash collision inside one build: the checker recomputes the first free counter from the base alone (`profile_ids.py:714`, `:735`), the writer also avoids IDs of its own build, so the writer's tree would be refused.
- Two spellings of one set of SIMs in a build (twins): `plan` keeps a live ID for one and counts the other as nothing, `finish` counts the other as a new profile. So `finish` can propose, after a narrowing, what `plan` will never carry out, and when the profile with the live ID is withdrawn, its twin is published under a new ID. `ProposalsApply` and `PublishedMergeNeverCarries` are false of such builds, and are stated for builds without (`NoTwins`).
- A bridge is known by rows and reads alone. `bridged` (`f5_read.py:547`) compares the rows it ends at with those the chain begins at, so `backfill` can put it in front twice when the older commits begin and end at the same rows; and `bridge_problems` (`:559`) asks that the base's reads stand at the end, which those of a bridge in front of an older, shorter chain can do by themselves when the older commits had the chain's first rows before. Consumers can still walk such a chain, but it tells a change twice, or takes one of the older commits for one of `main`. The theorem on the chain therefore assumes `OlderMeetsOnce`; the run's older commits meet it.
- A new spelling beside a live profile's: `base_problems` (`:719`) refuses the tree that `plan`'s docstring (`:378-381`) describes.
- When an ID's match set goes back to the one it was issued for, `finish` still writes a `continued` entry for that change (`profile_ids.py:505-509`), though `docs/data-model.md:196` says one entry per live ID whose match set is *not* the one it was issued for.
- `f5_read.py check` does not recompute the reads of older changes that a bridge adds, and takes a read of a change that only the pull request's own branch made; `docs/ocd-dataset.md:230` speaks of every read.
- Once a deterministic read is on `main`, no pull request with another `RULES_VERSION` can pass `check`, because reads on `main` are never rewritten and must be of the tool's version. `RulesStay` states it, and it is proved.
- A merge conflict in `generated/devices/carrier-variants.json` takes `main`'s side (`refresh-generated.yml:151`), and none of the tools the job runs writes those records again, though the comment there says the side stands "until the regeneration below rewrites the file".
- The comment job says one comment per stopped branch, but is one loop under `set -euo pipefail` (`refresh-generated.yml:300-330`): a failed `gh api` call for one pull request leaves the stops of those behind it untold, and nothing repeats it until the next push to `main`.
- An emergency lead that changes its proxy or port and nothing else changes no line of the guard's report: `emergency_key` (`check_phone_guard.py:616-624`) reads neither, though `lead_key` reads the proxy of the internet and attach leads.
- The `source-review` job reads the open reviews and edits one later. A maintainer who closes it in between closes the new finding with it: the edit writes the new signature into the closed issue, and later runs take the finding for covered (`observed_reports.py:1464-1471`). It is the one way `FindingsAreReviewed` allows a finding to stay unseen.
- The comment jobs of two runs can both find no comment and write one each, and an older run's comment can replace a newer one's; the workflow says one comment "which later runs update" (`refresh-generated.yml:33-36`). An older run whose job starts later cancels the newer run's. A plain push also lands when the author took commits back, not "only on the commit the bot merged onto" (`:234`), and puts them back.
- The generator's similarity test takes rows that state the MTU in different attributes for similar (`generate_android_outputs.py:1910`) and leaves one out as absorbed (`:2170`); `android_phone_model.py:368-370` and `:425` keep them apart.
- "Android never keeps such a row as a profile of its own" (`generate_android_outputs.py:2170`) is true of a row whose earlier similar row is still a profile when its turn comes. Of three rows of one APN with the types default and MMS (and an MMSC), attach, and MMS (with another MMSC), the third is similar to the second alone, which Android merges into the first; so the third would stay a profile, and `leave_out_absorbed_mms` leaves it out all the same. The vendor rows serve every network it served, as the docstring also says, so no phone loses MMS.
- `brand_alone` lets a brand speak although another brand's rule overlaps, when that rule is narrower, "whose SIMs get that narrower profile" (`two_answers.py:252-262`). With several values that is not so: GID1 {1, 21, 22} is narrower than {1, 2}, but the order finds equal shortest prefixes, counts fewer values in {1, 2} and serves that one, so a SIM of GID1 21 is told the other brand's state. Likewise, a profile whose carrier IDs have the network's rule for one of them only is not `plain_like`; no published profile is of that kind. Two more ways, both with one value per selector. With IMSI patterns `0x` of one brand and `0` of another, `rule_implies` takes the first for narrower, but trailing wildcards count for nothing in the resolution key (`resolve_carrier_profiles.py`, the fixed length), so the profile IDs decide and the wider one may serve. And two brands' profiles with carrier IDs {8} and {9} do not overlap for `rules_overlap`, since the sets are disjoint, though `ocd_dataset.py` reckons with SIMs that have several carrier IDs; a SIM with both is told the state of whichever profile has the lower ID. The run's instance has all of these; they are the exceptions of `BrandsSpeakForTheirOwn`.
- Two alarm runs at once, a scheduled and a dispatched one, can both find no open issue and open one each, though `docs/how-it-is-built.md:181` says the alarm opens no second one while one is open; the next passing runs close them one by one, the newest first.
- A dispatch of the alarm without `simulate_today` on another branch closes or opens `main`'s issue by that branch's data; and the open issue of a rehearsal keeps a real failure from opening its own, until a run passes and closes it.
- A report that is held only by the monthly cap loses that reason once it expires, since the cap is applied to unexpired reports only (`observed_reports.py:1030-1043`); `in_tree` (`:1129-1132`) then lets it into `results.json`, although only a report that passed every filter is to stay there (`:1003-1005`).
- Rule D8 leaves out a credential row only if the stored row keeps its types and network types without it (docstring, `generate_android_outputs.py:2075-2077`), but judges each row with the others of its group still there (`:2115`). Two such rows can answer for each other and both go. Of four rows of one APN stored together (internet from Google; MMS with a user, and MMS with an MTU, both from frozen Pixel copies; MMS on one network type from Google) MMS on the other network types is lost. Likewise two frozen emergency rows of APN set 0 can both go while set 1 keeps one, which `leave_out_emergency` had seen to (`:1067`).
- A row for attach and emergency alone loses attach as a stale copy's (`:928`), whose docstring says that the row stays with its other types, and then emergency (`:1067`), so its APN leaves the file. And where every internet row is of another APN set than the default, the attach step can take the only attach role.
- Profiles flagged as superseded leave `lookup.json`, `apns-conf.xml` and the dataset (`generate_android_outputs.py:3056-3065`), but `two_answers.py` derives from every profile file, so `brand_alone` takes the SIMs of a superseded narrower rival as served by that one.
- A `proceed` read whose value the evidence index flags later makes `validate` refuse every further release until the read is changed (`ocd_dataset.py:1402-1412`).

## 5. What is proved

The proofs hold for every value of the constants: any match sets, hash function, rows, lines, contexts, files, number of builders and of pull requests.

- **`ProfileIdsProofs`**, the gate. The invariant is `Valid`: `main` is a registry tree and passes the tree check. Tree and base check together give what the ledger asks of each ID (`StatusMonotone`, `SimsAndIdsStay`), so every landing maps to a step of `IdLedger` or a stutter (`GateKeepsLedger`).
- **`ProfileIdsProofs`**, the writers. `NoIdShared` is not inductive: that a new ID differs from those already assigned needs that kept IDs are live, carried IDs retire, issued ones were free, and all are recorded in `issued`. `IInv` says this of every build (`Sound`) beside `TypeOK`; one lemma per action keeps it. `IdsApart` follows. `BuildsKeepLedger`: builds that race through the queue change `main` only as `IdLedger` allows, since what lands passed both checks on the merged tree. What a build writes needs more than unique IDs: why each was given. The second invariant `Drafts` says so of every build: a live ID stays with its match set wherever it can, an ID is carried to one match set and only by an entry that applied, each other one is the first free counter of its hash, and an open build's head is what `finish` makes of all this. Given that no match set has a twin and no hashes collide, each check of the tree follows from a part of it (`WriterAlwaysMeets`). For `ProposalsAlwaysApply` and `MergesNeverCarry` what `plan` sees and what `finish` sees are shown to be the same sets; `AliasesStayLive` needs only that the targets of `finish` are live in its tree and that the merge onto the same `main` is that tree.
- **`MatchMeaningProofs`**. `RelationsMean` and `AliasesHold`, for rules and SIMs of texts of any length. Each relation is taken apart into one statement per key and kind of value (a prefix, a pattern, an equal text, a number), where it is a fact about two sequences; together they give what `ProfileMatches` says of a SIM. That `TargetsShareSims` holds needs a SIM that two overlapping rules share: `MeetingSim` builds it key by key, the longer prefix, the pattern's digits with the wildcards filled from the other, a common name, two carrier IDs. So the theorem is about a world that has every SIM (`EverySim`), where the run has a small one. That a most specific target exists, when overlapping targets are all there is, rests on the bound six for `SpecificityOf`.
- **`F5Proofs`**, the gate. The inductive invariant `IndInv`: `main`'s chain is valid for its rows and holds nothing, history ends at `main`, the chain *knows* the rows of every commit of history (they are its newest rows or the base of a read), and every change was read. The landing step has two cases, a chain that grows at its end and one that a bridge extends in front; in both the old reads stay, behind each other (`ReadsStay`), and a read of the newest change is last (`LastReadIsTheChange`). From known rows the walk succeeds (`KnownIsTaken`): `NeverStrandedHolds`, `ChangesWereReadHolds`, `RulesStayHolds`.
- **`F5Proofs`**, the pull requests. Types; what the queue lands is what the gate lets through (`PublishByGate`), so `PublishNeverStrands` and `PublishReadsChanges` hold among any number of pull requests. `ChainTellsHistory`: the chain is the history of the rows. `ChainInv` says that the chain begins at the first rows or where a bridge begins (`Begins`), that its own reads are those of the changes of history, one for one (`ReadsAll`), and of every branch that its chain begins so too and has no more reads of its own than `main`'s, or one more and other rows (`TracksMain`). What the gate lets through is then `main`'s chain, with one read of the change at its end or with a bridge in front. It assumes of the older commits `OlderMeetsOnce`, that the rows the chain began at come up once among them, for the reason given above.
- **`RefreshBotProofs`**. Types, `OutcomesStayTrue` and `PushesAlwaysBringMain`, for any number of runs and pull requests. A job that was cancelled, overtaken or timed out leaves a record, so the invariant `Inv` says of every job what it may know: the `main` it checked out is as new as its run's push and what it pushes is a merge of the planned commit (`JobsOK`), the comment it will edit is there (`ReadsOK`), its run was planned (`PlansOK`), a refreshed branch has its check, and no branch and no checkout holds a merge that its job has not pushed (`UnpushedUnseen`). With the last, the branch at the push is a beginning of the commits the job looked at. A second invariant, `MainsOK`, says that branches and checkouts never contain a newer `main` in an earlier commit than in a later one, and that a job with a merge to push checked out a newer `main` than its planned commit has; from both follows `PushesAlwaysBringMain`.
- **`ObservedProofs`**. What is merged was rebuilt earlier, from issues that have changed since, so the invariant says of the records of the job, of its pull request and of `main` alike that no text and no account counts twice in them and that the cap holds (`CountsOnce`, `Capped`). A rebuild makes it true: of two reports that would count twice one is a duplicate or superseded (`RebuildCountsOnce`), and the last one that counts in a month was not over the cap (`RebuildCapped`). It stays true when issues change, since authors and days of issues stay and a release is not taken back (`IssuesStay`, `RecordsStay`). `OneCountsHolds` and `CapAlwaysHolds` follow; `TimeOnlyAdvancesHolds` rests on `FiltersLetGo`.
- **`GuardedMainProofs`**. That losses between *any* two commits of `main` were accepted is not inductive by itself: the guard compares a tree with its base only, so the invariant `Inv` also says that each group of the queue is built on the one before it and the first on the tip (`QueueChained`), that a group which passed holds nothing its accept lines do not cover, under a body its pull request had since the group was built (`GroupsOK`), and the same of every commit that landed (`LandingsOK`). With the assumption `LossesTrip`, that a role lost between two files is a trip of the guard, the role a phone had at one commit and has no more at a later one was lost at a commit in between (`LandLosses`), whose lines accept it: `LandedLinesStand`, `LossesAreAccepted`. `PassesAreOwn` has an invariant of its own, `OwnInv`: every commit of a pull request holds the body of the time it is the head (`BodiesHeld`), a dispatched run still at work has the tree and the base of its commit (`RunsOK`), and for a commit that passed there is a commit of `main`, at its merge base or later, with which it was compared under a body it holds (`PassesOK`); it stays so as `main` grows, bodies are added and the branch moves. What `LossesTrip` assumes of the table is proved of the guard's own readings, of any two files (`LossesAlwaysTrip`).
- **`GuardedMainProofs`**, the report. `ReportsTellAll`, for any rows in any scopes. A role that a phone loses in a scope of both files is lost on a 3GPP type, which is a trip, or on the others alone, which has its own line (`LossIsTold`); a lost IMS lead is a line of the watch (`ImsLossIsTold`); an MVNO whose scope is gone falls back to its network, and a role it led and does not find there differs between the two (`GoneRoleIsTold`), for MMS because an MMSC stays one when its capitals and trailing slash go (`MmscAssumption`). Conversely, each part of an empty report says what stayed (`QuietRole`, `QuietMms`, `QuietIms`, `QuietEmergency`).
- **Order of a stack** (the first part of `OcdDatasetProofs`). The resolution key is ten numbers of which the last is the ID, so it orders any finite set of profiles with different IDs: each has a rank of its own, and what `Sorted` gives is the one list of them that ascends (`SortedUnique`). The rank is a bijection from the profiles to 1..n, found from the least profile that would break it, which stands in for an induction.
- **`OcdDatasetProofs`**. The properties speak of what a phone got from a dataset that may be many revisions, flags and reads old by then, so none is inductive. `Inv` says what survives: the source is a tree of profiles, rules and lane under the IDs and rules the run began with (`SourceInv`); what is published was generated from such a tree and from reads that are still on `main`, and passed `validate` (`DatasetInv`); a read of a value saw the match set of each profile it names (`ReadsInv`); what a phone has is what the dataset serves its SIM (`ServedInv`). From it:
  - `NoValueUnread`: a key that the stack carries and that differs from the SIM's Google bundle is a candidate of the serving profile, since its certain stack is the SIM's stack and the entry the SIM picks is one of the profile's variants; a candidate is pending, unrecorded or covered per family by reads of this very match set; and where a read acts, `Reach` shows the bundle.
  - `ResolversAgreeAlways`: the two comparisons of texts agree character by character where both foldings separate the same characters, hence the matchers, the two keys (equal number by number), and the two sorted stacks, the reason, the overlay and the rows.
  - `ProfilesAlwaysKnow`: what `value_implies` and `values_overlap` say of two texts is a fact about any SIM's text, position by position. So a profile whose match implies another's holds for no SIM without it; `compute_fill` drops no rule a SIM of the profile meets and stops at none it does not, so the first item that holds is of the first rule that holds. `FillsInLane`, which `validate` checks of what it publishes, is why the item is never passed over for an entry the lane lacks.
  - `DryRunAlwaysReaches`: the synthetic SIM is built text by text, so that it extends every selector value it was built from, and overlapping matches are the ones that leave a choice for each. Two sorted lists of one set that differ have neighbours in one that the other has the other way round, and these are a flipped pair (`UnflippedAlike`).
  - `TiesAlwaysServeAlike`: the stack under exchanged IDs is the stack with two neighbours exchanged (`ExchangedSorts`, from `SortedUnique`), so of any set of profiles that hold a key the highest changes only where it was one of the two (`TopExchanged`), and likewise the owner of the APN rows. What is left is what `tie_problems` compares. `shared_effect` says what the two fill lists do for a SIM of both, item by item (`UnderPicks`, `ListedPicks`, `SharedIs`), so equal effects are equal fills. The coupling can change only where one of the two owns the APN rows and both have some (`ApnExchanged`); `served_difference` then let them pass because each has a row of its own, and with one value per selector a SIM of both selects these rows (`OwnRowsSelected`), so it is a mismatch whichever serves (`CoupledAlike`). `OneValued` is needed for that step and `ocd_ties` shows it cannot go.

- **`AndroidGeneratorProofs`**, for any rows, evidence, network and phone types. The rows of the file are those of the profile after thirteen steps, so `RowsInv` says of each step what it finds and the next relies on. Throughout, every row is a row of the profile with no emergency source it did not have (`FromGiven`), and rows are apart by ID. An APN is *owed* a row (`Owed`) where a type of it is left without the copy's and without emergency. Before ranking, steps only take types off: the copy's loss leaves an owed APN a row that survives losing `ia` and `emergency` both (`OwedFirmly`), the attach step one that survives losing `emergency` (`OwedBearing`); taking IMS off a row that served every type of `*` leaves the row of its group that serves the internet. Emergency types then go all at once or leave every preferred APN set covered (`EmergencyThins`). From ranking to grouping the steps move rows and take MMS, IMS and XCAP off; one relation, `Loosened`, covers all of them: the same rows with the same internet and emergency types, newly marked only where they serve neither, and a row left unmarked under every key that had one. A marked row is stored with the internet row, which stays, so grouping drops no APN and no emergency row (`GroupsLeave`). Rule D8 never takes the last row of a stored row (`CredentialsKeepKeys`), and takes an emergency row only if the stored row keeps its types without it, hence another emergency row of the key, which stays unless it too is from superseded copies alone (`CredentialsKeepEmergency`). An absorbed row is similar to a stored row before it, so the first stored row of an APN is never absorbed (`AbsorbedKeepsApns`). The folds over rows (`Only`, `Ascending`, `AndroidStoredRows`) are recursive functions; what they do is shown by the least place at which a fold would go wrong (`NoFirstBad`), which stands in for an induction. `OwedApnsStay` and `EmergencyStaysCovered` follow.
- **`AndroidGeneratorProofs`**, the phone. `PhonesAgree` relates two programs that were written apart: the generator's own reading of what Android stores, and the provider and profile manager of `android_phone_model.py`. That the phone's table is what the generator reads is an invariant of the loading (`PhoneInv`): after each row the two lists are read alike, row by row (`AllAlike`), since equal keys put a row in the same place and both merge it to the same values (`StepAlike`, `MergeAlike`). For a row left out as absorbed, the merging loop is followed turn by turn (`Track`): each setting left is one of the first ones, in their order, and after a setting's turn no later one that stays is similar to it (`TurnTracks`). So no two profiles a phone keeps come from stored rows that are similar (`ProfilesApart`), and either the row left out or every earlier row similar to it has no profile of its own.

Assumptions on constants, each checked by TLC in every run that extends its module: `HashAssumption` (`hash_id` is a function on a finite range of counters), `StartsAssumption` (the model starts on a valid tree), `BoundsAssumption`, `FoldAssumption` (letter case folds once, and not the wildcard), `MeaningAssumption` (rules are match sets, SIMs are SIMs), `LinesAssumption` (no line differs between equal rows), `PublishAssumption` (the chain starts valid and empty, and older commits each changed the rows), `RefreshAssumption`, `ReportAssumption` (days and limits are natural numbers), `ObservedAssumption`, `NetworkTypesApart` (the network types the generator names are different), `ScopesAssumption` (the rows of a scope are a list, each with a place of its own in the fallback order and with a type, `validate_public_carrier_data.py:902`), `HostAssumption` (a network hosts itself), `FilesAssumption` (the tables of trips and roles cover the files, each a function of all scopes), `LossesTrip`, `MmscAssumption` (an MMSC keeps a host without its trailing slash, `validate_public_carrier_data.py:558`), `TextAssumption` and `InputsAssumption`. `TextAssumption` and `InputsAssumption` say what the dataset's inputs are: letter case is a function on the characters, no other character folds to the wildcard; profiles passed `validate_public_carrier_data.py`, which lets an ICCID prefix be 5 to 13 digits and an IMSI pattern 5 to 10 digits or wildcards (`:373`, `:806-815`), so both leave room in the number; IDs are natural numbers that name one profile each; Google's rules have at most one selector; a SIM has one network and at most one of each text. Type correctness is a theorem for `RegistryGate`, `ProfileIds`, `F5Gate`, `F5Publish`, `RefreshBot`, `ObservedReports` and `GuardedMain`; for `OcdDataset` it is part of `Inv`, for `AndroidGenerator` of `RowsInv`. Two theorems have a hypothesis beside these: `ChainTellsHistory` (`OlderMeetsOnce`) and `AliasesHold` (`EverySim`).

Only model-checked: the freshness alarm; of the Android generator `RolesKept`, `InternetUnmoved` and `CopyFillsGapsOnly`, which compare the leads a phone finds before and after a step, so that the proofs would need to know for every order of rows which profile of a merged list comes first; and of the dataset `BrandsSpeakForTheirOwn`. That one needs what the order of a stack makes of two rules of which one implies the other, key by key, and is checked on the run's instance only. Of a build with twins or colliding hashes only what `IdsApart`, `AliasesStayLive` and `BuildsKeepLedger` say is proved. Liveness under fairness and `ENABLED` are out of the prover's reach altogether.

## 6. What is left out

- **Registry**: the texts of errors and reports; `write_records`, which moves the IDs of records as `finish` moves those of profiles; the layout of files. Git may refuse a merge of neighbouring lines that `MergeTree` makes; that only lands less.
- **F5**: what a line is and which rules hold it (tables), and the narrow gate that lets some lines pass on named networks. The code compares the whole text of a read's findings, the model its held lines: the code is stricter.
- **Refresh bot**: what the tools make of a merged tree (they succeed or stop; `F5Publish` follows the F5 read among them), runs started by hand, the text of comments, and `digest_chain.py`.
- **Observed reports**: when a text is a valid report (`check_issue`), the offers a plan is checked against, the totals in `summary.json` and `results.json`, the `check` job with its labels and comment, and the approval of the pull request's checks. A maintainer who takes a `report:hold-released` label off again is left out. A pull request built on an older `observed/` is taken to conflict in `summary.json` and to wait for the next rebuild.
- **Android generator**: CarrierConfig output, `lookup.json` but for the two answers, the writing of XML and reports, the marks only `--explain` reads.
- **Phone guard**: counts of copy rows and of stored rows, the line on networks that persist APNs, files of a network that the other side does not align with, and the text, order and length limits of lines.
- **Carrier resolution and dataset**: rows and SIMs of a carrier ID in APN selection, case folds to several characters, the types and limits of the registry of keys, evidence text, the withheld list, reach lines, the writing of tables, the command lines.
- **Two answers**: brands are named by their keys; the counts `derive` prints.
- **Freshness alarm**: the strict validation of devices, variants and operators, which the job runs beside that of the profiles and which is taken to agree with it; the text of issues and warnings.
- **Not to be modelled**: validators and importers (stateless checks and readers of one file at a time), and what is outside the repository (the sanitizer, the OCD app, the relay), whose effects on the modelled code are definitions marked external.
