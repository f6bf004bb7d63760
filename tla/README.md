# Zähl-O-Mat in TLA+

Zähl-O-Mat is a self-hosted application for utility meters: users photograph a meter, an
OCR service or a vision model proposes the value, and the reading is stored with its
photo as evidence. A FastAPI backend keeps everything in PostgreSQL and an upload
directory, a Vue single-page application talks to it, and identities come from an OpenID
Connect provider.

This directory models the parts of it in which several requests, the nightly job, the
browser or an outside service can get into each other's way. TLC checks the models on
small instances, TLAPS proves the most important results for every value of the
constants.

## 1. Inventory

All paths are relative to the repository, which is `src/` here; `app/` is
`src/backend/app/`.

| Component | State | Operations | Hard because | Correct when |
|---|---|---|---|---|
| Photos, ownership registry, readings (`app/routers/ocr.py`, `readings.py`, `upload_registry.py`, `jobs/retention.py`) | upload directory, `upload_files`, `readings` | scan, create, delete, nightly clean-up, cascades | three stores and no common transaction; check-then-act; OCR failures; restarts | only owned photos are attached; an image once per meter; removal never hits a photo already referenced; nothing is left over for ever |
| Accounts, roles, sessions (`app/auth.py`, `routers/admin.py`, `routers/auth.py`) | `users` with role and `token_version`, signed tokens | role change, deletion, sign-in, logout, break-glass login | rows read before they are written; two commits; lost inserts | one account per identity; revoked tokens stay dead; a live session carries the present role |
| Single sign-on (`app/routers/auth.py`) | `oidc_pkce_states`, `login_codes`, binder cookie | login, callback, exchange | repeated and concurrent callbacks, expiry, restarts | an attempt ends in at most one session, in the browser that began it |
| OIDC discovery cache (`app/routers/auth.py:73`) | cached document, times of success and failure, a lock | `_oidc_config` | single flight, negative caching, stale answers | one request at a time; a failure is not repeated within its pause |
| Properties and members (`app/routers/properties.py`, `permissions.py`) | `properties`, `property_users` | create, delete, add, change, remove | the count of administrators is read before the change | no request that saw the members unchanged takes the last administrator |
| Meters (`app/routers/meters.py`) | `meters` with `replaced_at`, `replaced_by_id` | create, update, replace, delete | successor checked before it is written | successors in the same property; replaced meters stay replaced |
| Bulk import (`frontend/src/components/BulkImport.vue`, `utils/buildBatches.ts`, `app/routers/ocr.py:587`) | batches, review list, one streaming generator per request | scan, review, commit | streams break, models fail, the user edits while requests are under way | every file is accounted for; the summary is true; it ends |
| Down-sampling (`app/jobs/retention.py:76`) | readings by age, source and evidence; one transaction a night | averages per tier, deletes, inserts | each statement reads what requests commit meanwhile | evidence is untouched; a bucket keeps one row; counters still rise |
| OCR pipeline and engine choice (`app/services/ocr_pipeline.py`, `llm_client.py`, `app/routers/ocr.py`) | none kept; per photo: value, serial, engine, pass | scan, re-scan, bulk, hint; fallbacks, second passes, serial matching | long chains of passes that replace each other's values | the answer names its engine and fits its meter; a meter is assigned only by a serial that resembles its own |
| Crop and hint re-scan of the review (`BulkImport.vue:455`) | rows, the dialog, cuts being made, positions of running re-scans | open, cut, crop, re-scan, choose a meter, remove | cuts and late answers find whatever the dialog is about, and rows by position | an answer lands in the row it was asked for |
| Single photo (`OcrCapture.vue`) | stage, photo, cut, image, value, awaited cuts, scans and POST | choose, cut, scan, cancel, save | cuts, scans and saving can be left while they are awaited, and go on with what they find | the stored photo is the one the value was read from |
| Month and year views (`app/services/consumption_stats.py`, `stats_loader.py`, `routers/dashboard.py`) | none; computed from readings and prices | distribute over months, year to date, costs | two computations over windows of different length | the views agree; a complete month stays as it was, within the tolerance that calls it complete |
| Oil tanks (`app/routers/oil_deliveries.py`, `services/oil_consumption.py`, `oil_loader.py`, `schemas/oil_deliveries.py`) | `oil_deliveries`, `oil_delivery_dismissals`, the tanks' readings | record, change, delete, dismiss; the consumption itself is computed at every load | deliveries belong to the property and must find their tank; concurrent dismissals and updates | a delivery counts once; consumption balances; a notice is unexplained; dismissed stays dismissed; prices agree |
| Oil price and buy signal (`app/services/oil_price.py`, `buy_signal.py`) | `oil_market_prices` | daily fetch | two replicas insert one day | a day has one price and keeps one; cheaper oil is never a worse buy |
| Standalone OCR service (`ocr-service/app/main.py`, `pipeline.py`) | the shared reader, files of calls in a temporary directory | `/scan`, `/serial`: store, prepare, read, choose | every step may fail, in threads; two endpoints that do the same in different orders | no file outlives its call; no image is worked on that is empty or too large |
| Limits at the edge (`app/body_limit.py`, `limiter.py`) | bytes received, whether the limit was passed, whether 413 was sent | body limit, client key | chunked bodies, declared lengths that are absent or garbage, an application that answers when it likes | more than the limit is never passed on, and is answered by one 413 |
| Image hygiene, upload delivery, audit log, configuration, migrations, chart | - | - | - | not modelled, see section 7 |

How they interact. Requests run in threads of a pool and share nothing but the database,
the upload directory and, for sign-in, the cookie; handlers that are coroutines share
the event loop. The retention job runs once a night in the scheduler. The registry
decides which photos a reading may name; members and properties decide who may do so;
deleting a property takes its members, meters, readings and registry rows by cascade and
leaves the files to the clean-up. Sign-in creates and changes the accounts whose tokens
every other request presents. Deliveries are recorded for a property, their consumption
is read off the readings of its tanks, and deleting a reading deletes the dismissals
that name it. The bulk import drives the stream of `/ocr/bulk-scan` and then creates
readings one by one. Single sign-on asks the discovery cache first. Every scan goes
through the recognition, which chooses engines and, for a bulk scan, the meter; the OCR
engine is a container of its own that is called over HTTP. A bulk scan passes the limit
on bodies before any of that. The nightly job thins the readings that the statistics and
the oil consumption are computed from; the price fetched each morning feeds the buy
signal.

PostgreSQL runs at READ COMMITTED, one transaction per request: a statement sees what
was committed before it. This is why the models take one statement, one commit or one
file operation as a step wherever something is decided on what was read. Statements that
read only what their own guard uses, and that no interleaving can tell apart, are merged
with the step that uses them.

## 2. Modules

| Module | Models | Actions and the code they stand for |
|---|---|---|
| `UploadStore` | photos, registry, readings, clean-up | `Scan*`: `scan_meter` and `_discard_upload`, each write, registration, unlink and delete with its failure; `Create*`: `create_reading`; `Delete*`: `delete_reading`; `Cleaner*`: `cleanup_orphan_uploads`; `DeleteMeter`, `DeleteProperty`: the cascades; `Crash`: restart |
| `Accounts` | accounts and sessions | `Patch*`, `Delete*`, `Count`: `set_user_role`, `delete_user` and `_guard_superadmin_target`; `SignIn*`: `get_or_create_user_from_oidc`, `_update_existing`; `Exchange`, `Mint`: `issue_user_token`; `Local*`: `superadmin_login`, which goes by the user name; `Logout`, `Revoke`: `logout`, `revoke_sessions` |
| `LoginAttempts` | what single sign-on promises of one attempt | abstract: `Open`, `Accept`, `Complete`, `Close` |
| `OidcLogin` | the handlers that keep it | `Login*`: `login`, `_prepare_login`; `Callback`, `Consume`, `Redeem`, `SignIn`: `callback`, `_consume_pkce_state`, `_sign_in`; `Exchange*`, `Mint`: `exchange`, `_consume_login_code`; `Grant`: the identity provider (external) |
| `Catalog` | properties, members, meters | `Member*`: `add_property_user`, `remove_property_user`, `_is_last_property_admin`; `Update*`: `update_meter`, `_check_replacement`; `DeleteStart`, `DeleteFlush`: `delete_meter`; `CreateProperty`, `DeleteProperty`, `DeleteAccount` |
| `BulkImport` | the import page and the streaming endpoint | `StartScan`, `Send`, `Receive`, `EndOfStream`, `FailBatch`: `startScan`, `processBatch`; `Gen*`: the generator of `bulk_scan_meters`, with writes that fail halfway (`GenStoreFails`) and discards that fail (`Discard`); `Edit`, `RemoveRow`, `Cancel`: the review; `Commit*`: `commitAll` |
| `OilTank` | tanks, deliveries, notices | `CreateReading`, `UpdateReading`, `DeleteReading`, `ReplaceTank`: what readings and meters do to it; `CreateDelivery`, `UpdateDelivery`, `UpdateFlush`, `DeleteDelivery`: the delivery handlers with `derive_prices`; `Dismiss*`: `dismiss_probable`, statement by statement; operators `Intervals`, `Assigned`, `Consumption`, `Probable`, `Net`: `compute_oil_consumption`, `assign_deliveries`; `LoadOilResults`, `Dashboard`, `Forecast`: who asks for which tanks |
| `Discovery` | the cache of the OIDC discovery document | `Ask`, `Acquire`, `FetchOk`, `FetchEmpty`, `FetchFails`, `Cancel`: `_oidc_config` between its awaits |
| `OilMarket` | the daily oil price and the buy signal | `Begin`, `Answer`, `Lookup`, `Store`, `GiveUp`: `fetch_oil_price`, `_run_oil_price`; operator `Signal`: `compute_oil_buy_signal` |
| `Retention` | the nightly averaging | `SelectAverages`, `DeleteMatching`, `InsertAverages` for each tier, `Commit`, `Fail`: `_downsample`, `run_retention`; `CreateReading`, `UpdateReading`, `DeleteReading`: requests in between |
| `Serials` | matching of serial numbers | functions: `Levenshtein` with its two rows, `Match`: `_match_serial_to_meters`; the reference `Resembles` |
| `Recognition` | engines, passes and meter for one photo | `FirstPass`, `Retry`, `OcrScan`, `SerialCrop`: `_run_ocr_on_file`; `MatchSerial`, `ZoomPass`, `BulkHint`: `bulk_scan_meters`; `HintRescan*`: the hint re-scan |
| `Review` | the review list while answers are on their way | `OpenCrop`, `Loaded`, `GoToSerial` and `CutMade` before and after the await of a cut, `Crop*`, `SelectMeter`, `HintAnswered`, `RemoveRow`, `TypeValue`: the handlers of `BulkImport.vue` |
| `Capture` | entering one reading with a photo | `Choose`, `Cancel`, `BackToCrop`, `Type`; `GoToSerialCrop` and `CutMade`, `StartScan` and `ScanAnswered` or `ScanFailed`, `SaveReading` and `Saved` or `SaveRefused` before and after an await: the handlers of `OcrCapture.vue` |
| `OcrService` | the OCR container | `Receive`, `GetReader`, `ReaderBuilt`, `Preprocess`, `Read`, `Respond`: `scan`, `serial` and the threads they start, each with the way it fails; operators `Detected`, `DetectedSerial`: choosing among what the reader found; `Upscaled`, `Display`: sizes of the working image |
| `Edge` | the limit on bodies, the key of the rate limiter | `Start`, `Receive`, `AnswerStarts`, `AnswerGoesOn`, `Ends`: `BodyLimitMiddleware` around an application (external); operator `ClientKey`: `client_key` |
| `Statistics` | the month and year views, the latest reading | `CreateReading`, `DeleteReading`, `CreatePrice`, `Tick`; operators `Spans`, `MonthState`, `Estimated`, `MonthRow`, `Series`, `MergedMonth`, `Year`, `YearCosts`, `Latest`: `monthly_consumption`, `yearly_consumption`, `dashboard_summary` and the services they use |
| `Services` | the nine modules from `Discovery` to `Statistics` side by side (`Serials` inside `Recognition`) | one disjunct per component, with the others at rest |
| `*Proofs` | theorems and their proofs, for `UploadStore`, `Accounts`, `OidcLogin`, `Catalog`, `OilTank`, `BulkImport` and `Services` with `Discovery` to `Statistics` | - |
| `FiniteLemmas` | induction, greatest elements, sums over finite sets, division, edits of sequences: facts the proofs share | - |
| `MC*` | instances for TLC | - |

State corresponds to the code in the obvious way: a table is a function from ids to rows
or `None`; `pc[w]` is where thread `w` is in its handler and `job[w]` what its local
variables hold, including rows the ORM loaded and keeps. Two facts about the ORM shape
many actions: a column that is assigned the value it was loaded with is not written, and
an `UPDATE` of a row that is gone raises an error while a `DELETE` does not. Variables
marked *history* are read by no guard; they only let properties speak of the past.

Abstractions. Photos, images (equality of their hash), accounts and ids are model
values; of a user name is kept whether it is the one of the break-glass user, which an
account from the identity provider may have taken; an id or a random name is drawn once,
as `uuid4` does with all practical certainty. (`Catalog` lets the id of a meter or
property return once no request remembers it: nothing can tell it from a new one.)
Answers that change nothing (403, 404, 422, an idempotent re-read) are not steps. Ageing
(a file past 24 hours, a state past ten minutes, a code past its minute) is an action
that may happen at any time, so that no property depends on how long anything takes;
`GraceElapses` alone excludes a file whose scan is in flight, because OCR and gateway
calls time out within minutes. What OCR reads out of a picture is a choice. In `OilTank`
time is counted in days, levels in litres and prices in the units of their columns;
rates, litres over days, are left out. `UploadStore` keeps memberships fixed and looks
at meters that were not replaced; `Catalog` has their changes. `Recognition` names a
value by its digits and the number of them behind the separator, because that is what
the passes look at; what an engine answers is a choice among values with too few, enough
and too many digits. `Review` names a row and a value by the photo they came from, so
that a value in the wrong row shows. Of the three bands a zoom pass crops only the first
serial that belongs to a meter is kept, and so it is one choice in `Recognition`.
`Statistics` multiplies a consumption by a common multiple of the lengths that divide
it, so that shares are whole numbers; the code rounds to six digits. `OilMarket`
compares averages by cross-multiplication and keeps the rounding of percentages, because
the threshold is held against the rounded one.

## 3. Runs

| Run | Question | Instance and bounds | Distinct states |
|---|---|---|---|
| `upload_store` | tenants and the clean-up interleave | 2 threads, 2 accounts in 2 properties with different roles, 1 meter, 2 files of one image (one attached as photo and as serial crop), 2 readings ever | 2,025,764 |
| `upload_failures` | failures of OCR, writes, registrations and discards, restarts, cascades; orphans go | 1 thread and the clean-up, 2 files, 2 readings, 1 restart | 404,044 |
| `accounts` | administrators, sign-ins and break-glass logins interleave | 2 requests at a time, 4 in all, 3 ids, 1 subject and the break-glass user, whose name the subject's account may hold at first or take | 614,903 |
| `oidc_login` | repeated callbacks, two browsers, expiry, restarts; refinement | 2 attempts, 2 login codes, 2 browsers, 2 threads | 47,885 |
| `catalog` | members, meters and cascades interleave | 3 accounts, 2 properties, 3 meters, 2 threads, 3 counted requests | 418,495 |
| `bulk_import` | streams break, the model fails, the user edits meanwhile | 3 photos (two alike, one damaged and oversized), 3 orders, batches of 2, 1 broken stream, any write or discard failing | 320,281 |
| `oil_tank` | deliveries, readings, dismissals and the window | 2 tanks, 3 readings and 1 more over 3 days, 3 levels, 1 delivery, a window of 1 day back, 2 threads, 2 counted requests | 283,320 |
| `oil_prices` | creation and overlapping updates of prices | 1 delivery, 2 amounts, 2 prices of each kind, one at its limit, 2 threads, 3 counted requests | 726,156 |
| `services` | nine components that share no state, one moving per behaviour | below | 985,628 |

Nine runs expect their properties to hold; three more, below, expect TLC to refute a
sentence of the repository.

`services` chooses at the start which component moves; the others rest in one of their
initial states, so that its states are the sum of theirs and not the product. Its
instances: 2 callers of the discovery cache over 6 units of time with lifetimes of 3 and
2; 2 replicas that store the price over two days, with every history of two recorded
days and a threshold met and missed; 2 meters with 5 stored readings over the buckets of
all three tiers, 2 nights and 1 request; every kind of request, engine and configuration
of the recognition with 3 meters, two of which carry one serial, and 11 serials that are
equal, part of one another, one and two edits apart; 2 calls of the OCR service with
images that are small, wide, high and too large; a body limit of 3 for chunks of 0, 1
and 2 and declared lengths below, at and above it, absent and garbage; 2 rows with 2
crops, of which one cut at a time is being made (`MaxCuts`), 2 hint re-scans and 1 typed
value; 2 photos chosen up to 3 times, with up to 4 cuts and scans asked for
(`MaxPending`), so that two cuts or two scans can be under way at once and across a
change of the photo; and 2 meters over months of uneven length in years of two months,
with readings until after the last instant of the clock, a tolerance of one unit, a
third of the shortest month, and 2 changes of readings or prices.

Why the bounds suffice. Each hazard needs two actors that touch one row or file, one of
which looks and later acts: two threads beside the clean-up contain every pair, and a
third actor adds only repetitions of the same look-and-act. Two readings are needed, and
enough, for a file to be shared and for the unique index to decide. Four requests let a
role change, a revocation, a sign-in and a logout of one account overlap in pairs and
one after the other, so that a token minted from a stale row can meet a later
revocation. Two attempts and browsers let a response reach the wrong browser. Three
photos give a full batch, a batch of one over the limit and a duplicate within and
across batches. Two tanks and one delivery are what it takes to give a delivery to the
wrong tank; three readings of a tank give two intervals that meet, and the three levels
a rise above the threshold, one below it and a fall. `MaxReadings`, `MaxRequests`,
`MaxCrashes`, `MaxCuts` bound what would otherwise grow without end; deadlock checking
is off in `catalog`, `bulk_import`, `services` and the oil runs alone, where a finished
import or a spent bound of requests really is the end. Threads (and login codes) are
interchangeable, which the runs without liveness use as symmetry (`services` those of
photos and of meters of the review, which no other component names); `oidc_login` does
so with its refinement property, a safety property that names no thread or code. The
theorems of section 5 do away with all of these bounds.

What they show. For `UploadStore`: attached photos are owned (`EvidenceOwned`, although
the registry row may be gone by then), one image per meter (`UniqueImagePerMeter`), a
removal can hit only readings younger than the remover's look (`RemovalSparesEarlier`),
concurrent deletions of the readings that share a file remove it
(`DeletesLeaveNothing`), a scan that failed leaves, as long as the process lives, no
file but one whose own write, registration or unlink failed (`spilled`), and no registry
row but one whose delete failed (`stray`) (`FailedScansLeaveNothing`), and no orphan of
either sort stays (`OrphansCollected`). For `Accounts`: `RevokedStayRevoked`,
`SessionsCarryTheRole`, `OneAccountPerIdentity`. For `OidcLogin`: `OneSessionAtHome` and
that it implements `LoginAttempts` (`ImplementsAttempts`): an attempt is *open* while
its row, or a callback that consumed it in time, can still sign in, *accepted* while its
login code can be exchanged, *closed* for good otherwise. For `Catalog`:
`SuccessorsSound`, `ReplacedForGood`, `LastAdminGuarded`. For `BulkImport`: batches
respect the limits and lose nothing (`BatchesSound`), every file comes up for review
whatever broke (`EveryFileReviewed`), no photo shown is missing from disk or registry,
and none is left by a failed item but what its own failed write or discard left
(`PhotosFollowTheRows`), duplicates in a batch are marked (`DuplicatesMarked`), the
summary never claims more than was saved (`CommitIsHonest`) and scans and commits end
(`ImportEnds`). For `OilTank`: a delivery counts in exactly one interval of one tank,
also at the very instant of a reading, and tile and forecast derive their rate from the
same deliveries unless one came between two readings of another tank
(`DeliveriesCountOnce`); noise cancels out, so that what was used is the first level
less the last plus the deliveries (`BalanceTelescopes`); a notice asks for a delivery
nobody recorded (`NoticesAreUnexplained`); a pair answered as dismissed is never offered
again, whichever constraint refused the row (`DismissedStaysClosed`); prices agree with
the litres unless updates overlapped (`SerialPricesAgree`).

For `services`: requests to the identity provider are spaced (`FetchesSpaced`) and a
stale document is handed out only after a recent failure, an error only without any
document (`AnswersJustified`); a day has one price, named by the source on that day,
whichever replica lost the race (`OnePricePerDay`), and a price that falls never makes
the signal worse, although it lowers the average it is compared with
(`CheaperNeverWorse`); the nightly job leaves alone what has a note or a photo, or was
entered by hand, by the time it commits (`EvidenceSurvives`), and a night no request
interferes with keeps a row per bucket and, where it has nothing but averageable rows
and no mixed bucket (section 6), rising counters (`DownsamplingFaithful`); the answer of
a scan names the engine its value comes from, 'ocr' for the OCR service and 'llm' for
the language model, through every fallback, and a value from a pass with a hint fits the
display (`MethodHonest`), and a photo is given to a meter exactly when a serial
resembles it (`SerialExplainsMatch`, against all strings a number of single edits away);
the OCR service keeps the files of a call for as long as the call needs them, whatever
fails, and works on no empty or oversized image (`ScansLeaveNothing`); a body past the
limit is never passed on whole, and gets one 413 and nothing else, a body within it no
413 (`OversizedRefused`); cuts, crop and hint answers find their rows
(`CropAnswersLand`, `HintsFitTheMeter`) unless the dialog was opened for another row or
the rows moved meanwhile; the photo stored with a reading is the one its value was read
from, always, and a cut of the photo on screen unless that was changed while a cut or a
scan was awaited (`EvidenceMatchesValue`); the year to date is the sum of its months,
and so is its cost, for readings that are not of the future (`ViewsAgree`), and a
complete month stays as it was while the readings it is measured from are loaded, but
for the share of one later interval in the second it may lack (`CompleteMonthsStay`).

Runs that refute a sentence of the repository:

| Run | The sentence | What happens |
|---|---|---|
| `upload_delete_race` | specs/006: "deletion never removes a file that other readings reference." | a POST commits between the reference check and the unlink |
| `accounts_last_superadmin` | specs/006: "The last superadmin cannot be demoted or deleted" | two superadmins act on each other; both count two |
| `statistics_latest` | `routers/dashboard.py:50`: "latest readings per meter" | the reading with the largest id is shown: one entered later for an earlier day, or an average the nightly job inserted |

## 4. Fairness

Safety runs assume none. `upload_failures` uses `FairSpec`: a thread that has begun a
request runs on (threads of the pool are not starved, and every outside call has a
timeout), the scheduler starts the clean-up every night, the clean-up goes through its
directory listing, and files age. These are weak fairness conditions on steps that stay
enabled until taken. `bulk_import` asks for weak fairness of the page's own steps (the
read loop, the commit loop) and of each generator; the user, broken connections and
refusals owe nothing to anybody.

## 5. Proofs

All theorems but three are of the form `Spec => []Inv` or `Spec => [][A]_vars`, for any
sets of accounts, files, selections, meters, images and threads that satisfy the named
assumptions of the modules (`StoreAssumption`, `RowAssumption`, `AccountsAssumption`,
`LoginAssumption`, `DiscoveryAssumption`, `CatalogAssumption`, `OilAssumption`,
`ImportAssumption`, and in `Services` one per component), which TLC evaluates on every
run. They say that sizes and limits are numbers, that tiers, months and lifetimes come
in their order, that the calendar covers the time the clock may show and the year before
it, with no month longer than `LongestMonth`, that the common multiple `Scale` really is
one, that serials are sequences and meters have ids of their own, that names which stand
for something special are not also names of something else (no photo is called "typed",
no amount `None`), and that what is in the tables at first is what a table can hold (a
day has one price per source, a row knows its property, user names are unique, readings,
which may be of the future, lie within the calendar). The exceptions are the refinement
`Spec => ImplementsAttempts`, what `buildBatches` makes of a selection
(`BatchesOfASelection`), and what `_levenshtein` makes of two strings
(`LevenshteinCorrect`). No fact is used that is not proved or in the prover's library.
The type invariants of `UploadStore`, `Accounts`, `Catalog`, `OilTank` and `OidcLogin`
are proved and not repeated in the runs.

* `UploadStoreProofs`. *TypeCorrect* needs `JobShape` beside `TypeOK`: what a thread's
  place in its handler says about its local variables (a thread that unlinks holds a
  non-empty list, and so on). *UniqueImages* follows from the unique index alone,
  whatever the look-up saw. *EvidenceStaysOwned* needs that registry rows were recorded
  (`RegistryRecorded`) and that a creation under way was authorised by such a row
  (`CreatesAuthorised`): the row itself may be deleted before the insert.
  *RemovalIsSafe* needs `IdsInOrder`: ids are handed out upwards, so a reading that was
  not there at the look has a later id. *FailedScansAreClean* and *DeletesAreClean* are
  about the file names nobody draws twice (`NamesInv`): a scan that fails is the only
  one that knows its files, has stored and registered nothing of them before its steps
  say so (`BeginInv`), and what its discard did not remove is noted as left
  (`FailedScansInv`; `Forgets` is the serial crop whose name is lost with its write); a
  reading that is gone left its files to a thread that has yet to look at them, or they
  are referenced by another reading, or gone too (`DeletesInv`); of several threads that
  delete the readings of one file, the last to commit sees no reference.
* `AccountsProofs`. *IdentitiesAreUnique* rests on the unique columns for the subject
  and for the user name, which a sign-in may take between the look-up and the insert of
  the break-glass login. *RevocationIsFinal* needs `Counters`: every token, and every
  row a request holds to mint one from, carries a counter at most its account's, and a
  revoked token's is below it; increments are computed by the database, so the counter
  never goes back. *SessionsFollowRoles* needs `Roles`, which ties what pending requests
  hold to what the row says, also of an account that the break-glass login found by its
  name.
* `OidcLoginProofs`. *SessionsCorrect*: the right to a session is passed on and never
  copied - from the one redemption of the authorization code to the request that signs
  in (`SigningIn`), from it to the row of a login code (`CodesIssued`, `RowsUnspent`),
  from the row to the request that deletes it (`Minting`), from there to the session
  (`SessionsIssued`). That the browser is the right one begins with a state nobody else
  has drawn (`LoginsDrawn`), goes through the binder cookie (`CookiesHome`) and stays
  with the request that passed its check (`CallbacksHome`). *AttemptsImplemented* shows
  that every step either opens, accepts or completes one attempt, or only takes away
  ways to go on (`ShrinkRefines`) and so closes the attempts that had no other; it needs
  that nothing is old before it exists (`Aging`).
* `CatalogProofs`. *SuccessorsAreSound*: the invariant alone is not inductive, because
  an update writes what it checked some statements ago. `UpdatesSound` carries the check
  from one to the other; it is stable because a meter never changes its property, ids
  are not reused, and the foreign key refuses a successor that is gone.
  *LastAdminIsGuarded* needs `GuardsHold`: as long as no other change of the property's
  members was committed, the row is as loaded and the count still holds; taking the last
  administrator then contradicts the count. *ReplacementIsFinal*: a write only ever adds
  a date.
* `OilTankProofs`. *TypeCorrect* includes that derived prices stay in the ranges of
  their columns (`DerivedPricesTyped`, `PatchedPricesTyped`). *NoticesCorrect* is about
  every typed state: the intervals of one tank do not overlap (`IntervalsApart`, from
  the order by time and id), so a delivery that fell into a notice and did not count
  there counts for another tank (`AssignedElsewhere`). *DismissalsCorrect* needs three
  parts: what the foreign keys keep (`DismissalsSound`), that an answered pair is
  recorded or has lost a reading for good (`AnswersSettled`: ids are not reused), and
  that what a request remembers of a reading stays true while the reading exists
  (`JobsSound`: readings do not change their tank). *PricesCorrect* ties price and total
  through the rounding of both (`RoundHalfUpClose`): either is derived from the other
  within half a unit, also by a PATCH that names one of them (`PatchedPricesAgree`);
  `PricesInv` carries to the write what an update computed from the row it loaded.
  *DeliveriesCountCorrect*: of the tanks that have an interval for a delivery one rose
  most (`SomethingIsGreatest`, a greatest element by the well-foundedness of proper
  inclusion), of its intervals one contains it (`CountedOnce`); the forecast's tank is
  that one unless another tank has an interval for the delivery (`ForecastCounts`).
  *BalanceCorrect* splits a balance into what levels fell, which telescopes along the
  readings (`Telescope`), what was delivered, counted interval by interval because no
  two intervals share a delivery (`SumOfPieces`), and what clamping added.
* `BulkImportProofs` proves the five safety invariants of the import, for any selections
  of distinct files (a file list holds every file once), sizes, images and limits.
  `BuildBatches`, `Bytes` and `Included` are recursive functions; the library's
  induction rules take a predicate as parameter, which the provers cannot instantiate,
  so induction is stated about a *set* of numbers (`Induction` of `FiniteLemmas`), and
  `Recursion` shows with it that a function defined from its value one before exists.
  *BatchesOfASelection* then follows file by file (`AddFileKeeps`). The steps of the
  import are sorted by what they do to the flow of the files (`StepOfNext`: a batch
  fails, a generator stores, delivers or ends, the client rests), and the invariant is
  shown per kind: `Control` says what is still untouched in which stage; `Flow` that a
  file is with its generator, in the stream or among the rows, on one of these ways
  only, also when generators of broken requests still run (batches share no file);
  `Kept` and `Marked` tie what is stored and what a generator has seen to the photos
  shown or on their way (`Shown`): photos that are stored and registered (`Intact`), and
  what is there although no failed step left it (`Loose`). *CommitsAreHonest* needs,
  beside these, that a row that can be saved has a photo, so that the unique image makes
  every counted answer a reading of its own.
* `ServicesProofs`, for the components of `Services`; a step of another component leaves
  theirs alone. *RequestsSpaced* and *AnswersAreJustified* need that the lock is with
  the coroutine that fetches (`LockHeld`), that the age of a document is counted from
  before its answer (`AgeCounted`), and that the cache remembers what happened last
  (`Remembered`). *MethodsAreHonest* (`RecognitionInv`): what the chain of passes has at
  hand names its engine, a value kept after a second pass is the first one's unless the
  second fitted better, and what comes from a hint fits the display. *DaysKeepOnePrice*
  (`MarketInv`): the second insert for a day is refused by the unique index and read
  back. *JobSparesEvidence* (`RetentionInv`): each delete asks for the absence of note
  and photo itself, and averages, under ids of their own, have neither. *CropsLand* and
  *HintsFit* (`ReviewInv`): while the dialog is open, whatever is cut or scanned is of
  its row (`Landing`), and positions of re-scans are those of rows while nothing above
  was removed (`Fitting`). *ScansAreTidy* (`OcrInv`): what each endpoint has on disk
  follows from its place, and scaling keeps both sides of an image positive and within
  the limit. *OversizedBodiesAreRefused* (`EdgeInv`): what was received and not passed
  on is beyond the limit, and the 413 is sent with the first message or at the end.
  *EvidenceCorrect* (`CaptureInv`) needs that a recognised value was recognised in the
  image at hand (`ValuesRead`), that the reading under way carries what was there when
  it was sent (`Left`), and, as long as nothing was `late`, that preview, image and
  everything awaited are of the photo on screen (`OnScreen`).

  *SignalsAreMonotone* is about every recorded table (`MarketInv` keeps its prices
  positive): a lower price of the day also lowers the average of the recent prices, in
  which it counts, but never so far that a rounded percentage moves towards "wait"
  (`Arithmetic`, for both averages); the prices count as a whole table, so sums over
  parts of it have to agree (`TotalOfPart`). *DownsamplingCorrect* (`JobInv`) carries
  through the statements of a night, while no request changes a row, that every average
  stands for rows still to be deleted or already gone (`Standing`), that the bucket of a
  row taken is covered by an average (`Covered`), that finished tiers hold one row per
  bucket (`Single`) and that averages in hand and rows that stay rise together
  (`Rising`); this rests on an average lying between the least and the greatest of its
  bucket (`AveragedIs`) and on buckets following one another in time (`BucketsApart`).
  *CompleteMonthsAreFinal*: intervals of one meter do not overlap (`StretchesApart`), so
  what they cover of a month is at most what lies before their last end (`CoveredUpTo`,
  `Packed`); a month that lacks no more than the tolerance therefore reaches to its last
  instants, and a later reading makes one interval, which adds to it at most there
  (`HitsGrow`, `OneMore`).

  *ViewsCorrect* has two halves. The shares of an interval over the months it touches
  add up to it: what it covers of each month telescopes along the calendar
  (`SumOfSteps`), and a common multiple makes every share a whole number (`DivExact`).
  That the year to date is the sum of its months then is an exchange of sums over
  months, meters and intervals, in which an interval that began before the window of the
  year view, or ends in the future, is the only one that can be missing or cut: meters
  that have neither are the `Comparable` ones.

  *LevenshteinCorrect* and *SerialsExplained*. Both loops of `_levenshtein` are folds;
  `FoldOverExists` shows once for both that the recursion behind them has a solution,
  `RowCorrect` and `DistanceInTable` that what they leave is the table in which each
  cell is the least of its three neighbours. `TableMeasures` of `FiniteLemmas` shows of
  every such table that its cells tell zero, one and two single edits apart from more,
  by what edits do to the last element (`NearStep`, `TwiceStep`); the shorter string
  inside is the same table transposed. `SerialInv` carries to the end of a bulk scan
  that the match is that of the serial that is kept, also when a band or a hint replaced
  either.
* `FiniteLemmas`. TLAPS cannot unfold the recursion behind a fold, so a sum is a
  function on the subsets of a finite set that satisfies the equation of the fold
  (`Folded`), of which `FoldExists` shows that there is one; `FoldSums` shows from it
  that the sum of a union of disjoint sets is the sum of theirs (`SumsUp`), whichever
  element is taken first. Induction is over subsets (`SubsetInduction`), from the
  well-foundedness of proper inclusion. The second part is about sequences that one edit
  or two make of another (`OneEdit`, `Near`, `NearTwice`); the string between two edits
  may hold symbols that neither end shows again.

tlapm 1.4.5 takes two `CASE` expressions for equal whose first and `OTHER` branches are
equal, whatever the branches between them say. No leaf therefore compares two of them:
what a `CASE` of the modules yields is stated as one implication per branch (`SignalIs`,
`MatchExplained`, `CommitLeaves`), and the guards of a `CASE` exclude one another.

Only model-checked: liveness (`OrphansCollected`, `ImportEnds`), which with `ENABLED` is
beyond the prover. Every other property of the nine runs is a theorem. `ClientKey` of
`Edge` is a definition no property is about.

## 6. Known gaps of the code

Behaviours of the models that no passing property excludes, beside those the runs of
section 3 show, and what the models assume of failures.

* `_guard_superadmin_target` (`app/routers/admin.py:65`) uses the role the target had
  when it was loaded. Promoted to superadmin before the write, the account is changed by
  a mere administrator, against the comment at line 35.
* `superadmin_login` (`app/routers/auth.py:415`) restores the role in one commit and
  reads the row in the next transaction; a demotion committed in between ends up in the
  token.
* `_prepare_login` (`app/routers/auth.py:146`) counts and inserts in separate
  statements: the cap on pending logins is exceeded by the requests in flight.
* `cleanup_orphan_uploads` (`app/jobs/retention.py:53`) decides on references read
  before it lists the directory; a reading inserted since for a photo older than a day
  loses it. `RemovalSparesEarlier` is what does hold.
* `scan_meter` registers the photo outside its `try` block (`app/routers/ocr.py:427`),
  writes photo and serial crop before it notes their names (`:444`), and
  `_discard_upload` (`:112`) logs an unlink or a database statement that fails and goes
  on; `bulk_scan_meters` likewise (`:696`). A write, registration, unlink or delete that
  fails leaves its file, in part perhaps, or its row; so does a cascade that takes the
  property meanwhile. The clean-up collects the files and leaves the rows. These are the
  histories `spilled` and `stray`, which `FailedScansLeaveNothing` and
  `PhotosFollowTheRows` except, and nothing else.
* An unlink of the clean-up itself (`app/jobs/retention.py:70`) or of `delete_reading`
  (`app/routers/readings.py:158`) is taken to fail only on a file that is gone; a
  directory that refuses would end either before its other files and rows.
* `superadmin_login` (`app/routers/auth.py:396`) finds its account by user name.
  `get_or_create_user_from_oidc` (`app/auth.py:96`) avoids only names that are taken, so
  that before the first break-glass login an account of the identity provider may come
  to hold that name; the login makes it superadmin and leaves its sessions, with their
  old role, valid. It does so to its own row after a demotion, too.
  `SessionsCarryTheRole` excepts both until the next revocation (`unrevoked`).
* `_is_last_property_admin` (`app/routers/properties.py:53`) counts before the change;
  two administrators who remove each other leave the property without one.
  `LastAdminGuarded` says that this takes a concurrent change.
* `_check_replacement` (`app/routers/meters.py:17`) admits two meters that name each
  other; the ORM cannot order their deletion, and the property cannot be deleted any
  more (`Deletable`).
* `create_reading` (`app/routers/readings.py:85`) asks for the registry row of a photo,
  which outlives a file the clean-up removed: a reading may name a photo that is gone,
  although specs/006 asks for "an existing file".
* `_consume_pkce_state` (`app/routers/auth.py:215`) reads and deletes the row of a state
  in two statements; two callbacks may both consume it. The session is still single
  (`OneSessionAtHome`).
* `llm_abort` (`app/routers/ocr.py:631`) belongs to one request; the page sends an
  import in several, and the batch after a failure of the model sends its images again,
  against README.md:147.
* `update_delivery` (`app/routers/oil_deliveries.py:207`) derives nothing when both
  prices are sent, and the form of the page always sends both, one as null: a price
  entered on an edit leaves the other empty, against FR-012 of specs/005.
* Two overlapping PATCHes of a delivery each write the columns they changed; the litres
  of one may meet the prices of the other (the history variable `torn`).
* A dismissal survives an edit of its readings: `update_reading` leaves
  `oil_delivery_dismissals` alone, so a jump that a correction turns into an unrecorded
  delivery stays dismissed.
* A dismissal whose row is deleted, with its reading, between the two look-ups of
  `dismiss_probable` is answered with 404.
* `set_user_role` (`app/routers/admin.py:69`) commits the role and then reads
  `current_user.id` again; if the acting administrator was deleted between, that fails,
  the counter is never incremented and tokens with the old role stay valid, against
  FR-004 of specs/007. `SessionsCarryTheRole` excepts a lost revocation.
* The forecast (`app/routers/dashboard.py:387`) loads its tank alone and is given every
  delivery of the property, the dashboard gives each to the tank that rose most;
  specs/005:158 wants the same rate in both. `DeliveriesCountOnce` says when they agree.
* `_oidc_config`: a JSON answer that is empty is neither cached nor remembered as a
  failure, so every sign-in asks again.
* `compute_oil_buy_signal` calls its seasonal average that of "prior 2 years"; it takes
  everything older than 179 days. If the configured source changes, a day has a row of
  each source.
* `_downsample`: an average beside a reading entered by hand may break the order of a
  counter; a PATCH that moves a reading into a bucket between the two statements loses
  it, unless it has evidence by then; the coarser tiers average averages, without
  weights; every night the older tiers replace even single rows by rows with new ids.
  "Keep one averaged row" and "one row per bucket stays one row"
  (`app/jobs/retention.py:83`, `:89`) do not hold of a minute of the recent tier that
  was averaged before a PATCH moved another 'auto' row into it: the recent tier averages
  only 'auto' rows, the bucket keeps two averages, and they may let the counter fall
  (`Unmixed` is the exception in `DownsamplingFaithful`).
* `dashboard_summary` takes the largest id for the latest reading
  (`LatestReadingShown`); the averages just mentioned have the largest.
* Recognition: `_hint_retry_needed` promises a retry for a missing value, which
  `_matches_format(None)` prevents; a `LLMError` in the retry discards the value of the
  first pass; the serial the model found is lost when the other engine takes over; a
  scan for the engine "llm" still asks the OCR service for the crop of the serial; the
  re-scan compares with the newest other reading, also when it is later than the one
  being re-scanned; a serial of which nothing is left after normalisation matches every
  meter partially.
* Review: a cut is awaited (`BulkImport.vue:492`) while the dialog can be closed, opened
  for another row, or changed by a photo that was still being loaded; the cut then
  becomes that row's, with photo and value. Opening the dialog for another row while a
  crop is scanned (`:520`) puts the answer into that row. `strayed` says so, and is the
  exception of `CropAnswersLand`. A value typed during a hint re-scan is overwritten;
  the flags of running re-scans are positions and stay where they are when a row above
  is removed.
* Capture: the serial and the method of a scan are not reset after saving. A cut
  (`OcrCapture.vue:286`) or a scan (`:343`) that arrives after the photo was chosen
  anew, cancelled or reset by the answer to a POST goes on as if nothing had happened:
  the reading then carries a photo that is not the one on screen, which the history
  `late` excepts in `EvidenceMatchesValue`; value and photo still belong together.
* `sanitize_ocr_result` (`app/services/ocr_pipeline.py:164`) would believe the OCR
  service if it called its method "llm". Its contract and its code know "ocr" only, and
  so does `Recognition`; `MethodHonest` rests on it.
* OCR service: `_reader_lock` (`ocr-service/app/pipeline.py:17`) is never taken,
  although the comment above it says that one thread at a time builds the reader; first
  calls that overlap build one each (`built`). An image that could not be written stays
  in the temporary directory in part (`spilled`).
* Statistics: neither schema nor handlers refuse a reading of the future
  (`app/schemas/readings.py:11`, `:48`). `month_totals` distributes what it shows over
  the months to come, `year_summary` (`app/services/consumption_stats.py:361`) ends now:
  the running month then shows more than the year so far (`NoneAhead` is the exception
  in `ViewsAgree`). A month that lacks up to a second is complete already (`:183`) and
  still changes by the share of the interval a later reading makes in that second
  (`Added` in `CompleteMonthsStay`). An interval that began before the window of the
  year view counts in the month view only, against "cannot disagree" of specs/015
  (`YearLoaded` is the exception in `ViewsAgree`); nobody in `src/` writes
  `price_entries`.

## 7. Not modelled

Image processing computes on pixels; it appears as the size of its result and a choice
of what is found. The rate limiter, the connection pool and the ORM are libraries,
modelled by how they are used. Upload delivery, audit logging, configuration, schema
migrations, the chart, the compose files, scripts, the security rig and the end-to-end
tests hold no state that could go wrong with time. Of the dashboard, `Statistics` has
the month and year views of water and electricity and the latest readings; the views of
oil are `OilTank`'s. Rates, trends and ranges of the overview, and their second
implementation in `consumptionStats.ts`, are left out: arithmetic on one interval, which
the repository's unit tests cover. Pages other than the two scan dialogs only present
what the backend answers; the session store keeps the token and nothing else.

## 8. What would come next

1. `Session`: the page's session store and router guard with late 401 answers, composed
   with `Accounts`.
2. `Discovery` composed with `OidcLogin`: today a login begins once the document is
   there.
3. Two replicas of the scheduler in `Retention`, and its composition with `Statistics`:
   what a month shows before and after the night.
4. Proofs: the type invariants of the components of `Services`, and that `Retention`
   implements an abstract thinning of readings.
