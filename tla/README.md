# A verified model of airflow-manifest-bundle

`airflow-manifest-bundle` gives Airflow reproducible Dag bundles: a *publisher*
turns a Dag source (a local tree, an S3 prefix, a GCS prefix) into an immutable,
content-addressed *snapshot* below a *published root*, and moves the *release
reference* of the bundle to it; *consumers* follow the reference and copy
snapshots into a host-local cache. Nothing but the published root is shared, and
any number of dag processors on any number of hosts publish to it.

This directory models how those processes meet: at the published root, in the
source that somebody else is writing, and in the folders that the processes of one host share. Paths below are relative to
`src/airflow_manifest_bundle/` of the repository; line numbers are those of
`PROJECT.json`, whose `map` names the lines behind every definition.

## 1. Inventory

| component | state it keeps | operations |
|---|---|---|
| artifact store protocol (`store.py`) and its three implementations: `FilesystemArtifactStore` (`bundle.py:1433`), `S3ArtifactStore` (`s3_store.py`), `GCSArtifactStore` (`gcs_store.py`) | `refs/<bundle>/latest.json`, `_state/<bundle>/auto-publish.json`, `versions/<bundle>/<version>/…`, a lock file (filesystem only); per process the tokens (ETag, generation) of the documents it last read | `read_ref`, `write_ref`, `read_state`, `write_state`, `publication_guard`, `snapshot_exists`, `publish_snapshot`, `fetch_snapshot`, `sweep_publish_temps` |
| automatic publication (`bundle.py:320-777`) | process memory only: the confirmed source and its version, the current reference; shared: the stability candidate | `initialize`, `refresh` and everything below it |
| explicit publication (`bundle.py:1582-1682`, `cli.py`, `publish_manifest_*`) | none between runs | one command, optionally with `--expected-current-version` |
| local source (`local.py`, `manifest.py`) | the tree, changed by others | walk, signature, hashing, manifest |
| object-store source (`object_source.py`, `s3.py`, `gcs.py`) | the objects and the deployment marker, changed by others; a host-local mirror with a state file | observe, synchronise the mirror, confirm, check a release transition |
| materialised cache (`bundle.py:785-954`, `1358-1430`) | version folders, validation markers, temporary folders, all per host; Airflow's stale cleanup removes some of them | materialise, validate, move aside, sweep, `path` |
| path and manifest validation (`bundle.py:975-1310`, `object_source.py:746-801`) | none | pure functions |
| `_compat.py`, `scripts/verify_release.py` | none | import shims; a release script for maintainers |

How they interact. A refresh (`bundle.py:343`) reads the reference; with a
publish source it prepares an observation of the source, synchronises the shared
candidate document with it, waits (over several refreshes) until the observation has been
the candidate for `source_stability_seconds`, hashes the tree, takes the
publication guard, checks the candidate and reads the reference again, publishes
the snapshot, confirms that the source is still the observed one and writes the
reference. Whatever goes wrong on the way, it falls back to a release and serves
that one. On a filesystem root the guard is an `flock`; on S3 and GCS it is a
no-op, and the two documents are compare-and-swap registers. The explicit
command shares the second half of that procedure.

What makes it hard: every request can interleave with those of other processes;
a source changes at any moment; a process can die between two requests with half a
snapshot uploaded or the lock held; the response to a conditional write can be lost
and its retry refused by the document it wrote itself; what a process read
(reference, candidate, source, readiness) is stale by the time it is used; and
the same code has to be right with a lock and without one.

What makes each component correct:

* *store*: a snapshot that can be seen is complete, for ever; under the lock
  nobody else writes; without it no write replaces a document its writer has not read.
* *automatic publication*: the reference only moves to complete snapshots along
  allowed transitions; only observations that lasted a stability period are
  released; an old observation does not come back as a candidate; every refresh ends, and serves a
  release that was current meanwhile; a source that comes to rest is released.
* *explicit publication*: `--expected-current-version` is what gets replaced.
* *sources*: what is published was in the source, all of it at the same moment, marker
  included, although it is listed, hashed and copied piece by piece; the
  bytes that are published are the observed ones, whatever a mirror went through.
* *durability*: after a power failure a durable reference names a durable snapshot, and a durable marker an intact copy.
* *cache*: a copy that is handed out was whole when it was looked at; a
  usable copy is found; a broken one is rebuilt in the end.

`PROJECT.json` lists the places where this could go wrong (`hazards`) at their lines.

## 2. The modules

| module | what it is |
|---|---|
| `ReleaseRef` | constants: observations, sources and their types, versions, files; the release reference; `TransitionAllowed` |
| `Release` | abstract specification: what publication promises to readers |
| `ArtifactStore` | the published root: its state, and the requests of the store protocol as operators |
| `Publication` | the replicas (dag processors) and explicit publishers, one action per request; the environment; the properties |
| `StabilityHistory` | `Publication` with a record of the past, for the properties of the stability period |
| `LocalPublish` | the local source and the filesystem root, call by call: walk, hashing, copy, rename, fsync, crashes and power failures |
| `MirrorSync` | the object-store source and the host's mirror of it, request by request: observations and markers, reuse of files, server-side copies |
| `CacheCopies` | the host's materialised cache: copies, markers, sweeps, `path`, Airflow's cleanup, power failures |
| `ReleaseProofs`, `PublicationTypes`, `PublicationProofs`, `StabilityProofs`, `LocalProofs`, `MirrorProofs`, `CacheTypes`, `CacheProofs` | theorems |
| `MCPublication`, `MCStability`, `MCLocal`, `MCMirror`, `MCCache` | small instances for TLC |

`Publication` extends `ArtifactStore`, which extends `ReleaseRef`; it instantiates
`Release` with `released <- ref, adopted <- served`. It takes three things as
atomic that are many steps in the code, and each of the other three modules opens one of
them up: an observation of the source with the hashing of its files (`LocalPublish`,
`MirrorSync`), the commit of a filesystem snapshot (`LocalPublish`), and the
fetch of a release into the cache (`CacheCopies`). In exchange those modules leave
to `Publication` what it has: the stability period, several hosts and the races for the two documents.

### Correspondence to the code: `Publication`

State. `ref`, `cand`, `files`, `committed` and `guard` are the published root. An object-store snapshot
is `committed` when its manifest object exists, a filesystem one when the finished
folder has been renamed into place; `files` are the complete objects below the
version's prefix, which others see before the commit on an object store and never
on a filesystem. `refTok` and `candLive` are the tokens of `_document_tokens`. `pc` is the next
request of a process; `cur`, `prep`, `age`, `todo`, `expected` are the locals of the procedure
(`current_ref`, `prepared`, `state.first_observed_at`, the remaining manifest entries,
the command's option); `conf` is `_confirmed_source_key` with `_confirmed_source_version`,
`served` is `_current_manifest_ref`. `window` is history: the releases that were current during the refresh.

Actions. One action is one request to the root or the source plus the local
decisions up to the next request:

| code | actions |
|---|---|
| `refresh` 343-363 | `BeginRefresh`, `Serve` |
| `_maybe_publish_from_source` 365-406 | `Raise`, `FollowWinner`, `KeepCurrent`, `FallBack` |
| `_publish_from_source_if_ready` 408-533 | `PrepareSource`, `ConfirmedFastPath`, `CheckReady`, `BuildManifest`, `LockPublish`, `ReadLatest`, `RecordPublished` |
| `_ensure_auto_publish_candidate_matches` 584 | `EnsureCandidateMatches` |
| `_synchronize_auto_publish_candidate_locked` 593-649 | `LockCandidate`, `ReadCandidate`, `ConfirmCandidate`, `WriteCandidate`, `RereadCandidate` |
| `_auto_publish_candidate_remains_ready_locked` 651-677 | `RecheckCandidate`, `RecheckElapsed` |
| `publish_prepared_manifest_dag_bundle` 1582-1644 | `StartExplicit`, `LockPublish`, `CheckExpected`, `ReadLatest` |
| `_publish_manifest_result` 1647-1682 and `publish_snapshot` | `CheckSnapshot`, `UploadFile`, `FinishSnapshot`, `ConfirmSource`, `WriteRef`, `ResolveConflict` |
| environment | `ChangeSource`, `Tick`, `Crash`, `FailedRequest`, `FailedRefresh`, `SourceDrift`, `RefResponseLost`, `CandResponseLost` |

What is abstracted, and why nothing checked depends on it:

* *Observations.* A signature is a member of `Sigs` and determines content, inventory and marker through
  constant functions. Preparing or confirming a source is one atomic comparison;
  the walk, the listing and the mirror behind it are `LocalPublish` and `MirrorSync`. An observation that fails is `FailedRequest`.
* *Types of sources.* An identity stands for a source of one type (`TypeOf`). A release that an adapter of *another* type recorded
  is replaced without a look at its identity (`object_source.py:301-304`), so on a filesystem root an explicit S3 publisher and a GCS one
  take turns freely (`explicit_fs` has one of each). `TracksSource` is one constant: the sources of an instance all record themselves in the
  reference (S3, GCS) or none does (local). A local publisher and an object-store one on one root, which nothing refuses either, are not in an instance.
* *Tokens.* An S3 ETag identifies the bytes of a document, so the token of the
  reference is the value read, and a reference that was replaced and put back matches again. A GCS generation
  identifies a write, so any other write makes the token stale. A candidate
  document contains a float timestamp, so its token identifies a write on both.
* *Time.* A timestamp is kept as its age, exact up to `Stability` and stopped there: elapsed
  times are only compared with that constant. There is one clock, as the
  repository's README requires of the hosts (line 280).
* *Hosts.* Each process is on a host of its own, so Airflow's host lock around
  the mirror is always free.
* *Explicit and automatic publication* are not mixed in one bundle (`local.py:96`,
  `object_source.py:702`); `AutoPublish` chooses. `initialize` is a refresh, and
  its sleep-and-retry is another one.
* *Serving.* `Serve` is the cache hit and the fetch at once; it succeeds when every file of the manifest can be fetched (`CacheCopies` has the steps).
* *Corrupt documents*, and roots changed by hand, do not occur.
* An explicit publisher reads the source only while it runs, so a crash of one that is idle says nothing and is left out.

### Correspondence to the code: `LocalPublish`

`tree` is the source folder with a stamp per file (the `ctime_ns` of `_build_source_file`; every
write gives a new one), `snaps` and `ref` what is visible on the published root, `saved` what of it has reached the disk.
`listed`, `stamp` and `built` are the observation and the manifest of an attempt; `temp` its staging folder.

| code | actions |
|---|---|
| `collect_bundle_source_snapshot` `manifest.py:217` | `Begin`, `Stat`; again as `Relist`, `Restat` for `_confirm_publish_source` |
| `build_bundle_version_manifest_result` `manifest.py:296` | `Hash`; before the lock in `refresh`, after it in the command |
| `publication_guard` `bundle.py:1494`, latest reference 500-516 | `TakeLock` |
| `sweep_publish_temps` 1577 | `Sweep` |
| `publish_snapshot` 1552, `_materialize_manifest_snapshot` 1685 | `CheckExisting`, `Copy`, `Rename`, `SyncName` |
| `_write_json_atomically` 1793 | `WriteRef`, `SyncRef` |
| environment | `Deploy`, `Crash`, `PowerFailure` |

A power failure leaves every name that was created since the last fsync of its folder either
as it was or as it became, and a folder whose bytes were not synced with or without them. A
version is the map from file to bytes, as the content address is one; the history variables
record which trees there were since the attempt began (`begun`) and since its snapshot was complete (`fresh`).

### Correspondence to the code: `MirrorSync`

`src`, `mark` are the source and its deployment marker, with a signature per object (generation, or
`LastModified`, as the number of its writes); `mirror` and `state` the host's mirror and `s3_mirror_state_path`/`gcs_mirror_state_path`,
where `recorded` says that a file has the mtime of its record; `objects`, `committed`, `ref` the root;
`obs`, `hash`, `changed`, `copying` the locals of an attempt; `conf` the confirmed source. `setup` chooses S3 or GCS, with or without a marker.

| code | actions |
|---|---|
| `_collect_source_observation` `object_source.py:344`, in its three places | `MarkerBefore`, `ListObject`, `MarkerAfter`; `round` is the place |
| `_synchronize_mirror` 412-516 | `PrepareMirror`, `ReuseFile`, `Download`, `WriteState` |
| `_publish_from_source_if_ready` 261 and `bundle.py:500-516`, `_validate_release_transition` 288 | `Begin`, `Decide` |
| `publish_snapshot` and `_try_server_side_copy`/`_rewrite` of the object stores | `ServerSideCopy`, `Upload`, `CopyFails`, `PutManifest` |
| `write_ref`, `_record_confirmed_source` | `PutRef` |
| environment | `StartDeployment`, `DeployObject`, `FinishDeployment`, `Crash`, `PowerFailure` |

All bytes have the same size, so that no size check helps. A difference between two
observations ends the attempt as soon as it is met, which the code finds out at the end of the
observation. Stray temporary files of an interrupted download are removed as files the inventory does not have, and left out.

### Correspondence to the code: `CacheCopies`

`tree[v]` is the folder of a version in `versions_dir`: which entries it has, which of them are not those of the
manifest, and whether it is synced; `marker[v]` its `.validated` file; `saved` the durable state of both;
`temp` the folders being built; `mem` is `_validated_version_paths`, `current` is `_current_manifest_ref`.

| code | actions |
|---|---|
| `initialize` of a pinned bundle, `refresh`, `path` `bundle.py:320-363`, 1358-1392 | `BeginRefresh`, `BeginPath`, `Return` |
| `_has_validated_cache` 785-820 | `Look`, `CheckMarker`, `CheckEntry`, `WalkFails` |
| `_latest_validated_cached_version_path` 1394 | `ListMarkers`, `NextCandidate` |
| `_materialize_cached_version` 836-907 | `TakeLock`, `Sweep`, `CheckExists`, `ValidateEntry`, `SyncTree`, `SyncName`, `Stage`, `Fetch`, `FetchFails`, `Rename`, `SyncRename` |
| `_move_cached_version_aside` 909, `_record_validated_cache` 822 | `Unmark`, `MoveAside`; `Mark`, `SyncMark` |
| environment | `MoveRelease`, `StartReaping`, `ReapEntry`, `StopReaping`, `Crash`, `PowerFailure` |

Examination is one step per entry, and so is Airflow's `rmtree`; either can be in the
middle when the other, or a rebuild, goes on. Only a copy that was looked at is put in `mem`;
a living process trusts its memory as long as the folder exists, so a copy truncated *after* that is served by it
(the comment at 789-793 accepts this: once per process). `ExaminedWasWhole` therefore speaks of the moment of examination.

## 3. What TLC checks

The instances of `Publication` have two versions (`live_s3` three) and two files, and the bounds `MaxChanges`
(source changes), `MaxCrashes` and `MaxFaults` (failed requests and lost
responses) that the table gives. Two replicas are enough for every race the
code distinguishes (self against other); three observations give the histories that matter: `a`
and `b` differ in content, `c` is `a`'s content under another signature (or, in the marker
instance, `b`'s objects under a new marker; in `live_s3`, the empty tree).
`Stability` is 1 tick with automatic publication (0 with
explicit publishers, which do not use it): at 1, "almost old enough" and "old enough"
differ and a whole period can pass between any two requests. Crashes and returning sources
(`a`, `b`, `a`) are spread over the runs, as one with all of them is too large: `stability_fs` and `candidate_fs` have the two
observations `a` and `b` only, so that the source can go back to `a` and, in the former, to `b` again; a crash under the lock is in `stability_fs` and `live_fs`, without it in
`sources_gcs`; the proofs of section 4 have no such bounds. Deadlock checking is on everywhere.

The instances of the other modules have two processes for the same reason. `MCLocal` has one dag processor
and one publish command, a folder of two files (so that an observation can mix two states of it), two
writes (away and back, or one to each file) and two mishaps (a crash, then a power failure: the pair that
the durability of a reused snapshot depends on). `MCMirror` has two objects, two deployments of up to two
writes in all, one mishap, and two setups: S3 without a marker (the download may give newer
bytes, the server-side copy is pinned to an ETag) and GCS with one (both are pinned to a generation). `MCCache` has a follower
of the release and a pinned task, two versions of a manifest and a file, one release change,
one cleanup, and one crash, failed fetch or power failure.

| run | instance | properties |
|---|---|---|
| `auto_s3` | S3, 2 replicas, object-store source with deployment markers, 3 observations, 1 change, 1 fault | `TypeOK`, `CommittedIsComplete`, `ConfirmedIsPublished`, `NoEarlyRelease`, `RefinesRelease`, `RefreshServes` |
| `stability_fs` | filesystem, 2 replicas, local source, 2 observations, 3 changes, 1 crash | `LockProtectsReference`, `NewestButInPassing`, `ReleaseWasStable`, `OnlyRipeReleases` |
| `sources_gcs` | GCS, 2 replicas with different sources, 1 change, 1 crash, 1 fault | `OneSourcePerBundle` |
| `explicit_fs` | filesystem, 2 publishers (one of S3, one of GCS), 1 consumer, 1 change, 1 crash, 1 fault | `LockProtectsReference`, `ExpectedVersionRespected` |
| `live_fs` | filesystem, 2 replicas, 1 change, 1 crash, fairness | `RefreshEnds`, `Converges` |
| `live_s3` | S3, 2 replicas, 1 change, 1 fault, fairness, an empty observation | `Converges` |
| `local_fs` | filesystem root, local folder of 2 files, 1 dag processor, 1 publish command, 2 writes, 2 crashes or power failures, fairness | `TypeOK`, `NamesMeanContent`, `ReferenceIsWhole`, `StagingSurvives`, `PublishedWasPresent`, `ReleasedWasCurrent`, `ReleaseCatchesUp` |
| `mirror_host` | S3 without and GCS with a marker, 2 objects, 2 processes of a host, 2 deployments, 1 crash or power failure, fairness | `TypeOK`, `PublishedIsObserved`, `CommittedIsWhole`, `ReleasedWasDeployed`, `ReleasedWasCurrent`, `SourceIsReleased` |
| `cache_host` | 1 follower, 1 pinned task, 2 versions, 1 release change, 1 cleanup, 1 mishap, fairness | `TypeOK`, `MarkedIsIntact`, `SweepSparesBuilders`, `PathFindsCopy`, `ExaminedWasWhole`, `CopiesHeal` |
| `expected_s3` | S3, 2 publishers, no faults | `ExpectedVersionRespected` is violated |
| `candidate_fs` | filesystem, 2 replicas, local source, 2 observations, 2 changes, no faults | `CandidateIsNewest` is violated |
| `ripe_gcs` | GCS, 2 replicas, 4 changes, no faults | `OnlyRipeReleases` is violated |

The properties:

* `TypeOK`: in `Publication` also that a refresh which comes to serve a release has one; in the other
  modules also that whoever works under the lock holds it.
* `CommittedIsComplete`: a snapshot that exists has every file of its manifest,
  although two replicas may be uploading the same version and either may die.
* `ConfirmedIsPublished`: a replica that skips hashing can rely on its snapshot.
* `RefinesRelease`: `Publication` implements `Release` (`Spec => Abstract!Spec`): the
  reference moves only to complete snapshots and only along transitions allowed from the
  release that is *really* replaced; replicas adopt only releases that were current during their refresh.
* `RefreshServes`: a refresh during which a release existed serves one, however its attempt ended.
* `LockProtectsReference`: exactly the lock holder is in the critical section, and the unconditional write
  of a filesystem root replaces what its writer read last.
* `NoEarlyRelease`, `OnlyRipeReleases`: what the stability period is for. `first` records how long ago an observation was first recorded
  as the candidate, `ripe` which observations were the candidate for a whole period. On every root a period has passed since
  the first recording; under the lock the observation was the candidate for a whole one.
* `CandidateIsNewest`, `NewestButInPassing`, `ReleaseWasStable`: that a revert of the source ends a candidate's life. `looked` records how long
  ago a replica looked at the source, `agreed` how recent the newest look is whose replica went on with what it saw as the candidate: it had put it
  there or found it there, with the lock (`Synchronized`) or, a confirmed replica, without it (`EnsureCandidateMatches` on its way to the fast path).
  `CandidateIsNewest` is what `docs/design.md` claims, and fails (section 3.2). `settled` leaves out what was agreed to *in passing*: without the
  lock, at a moment when another replica, past its own confirmation of the source, is about to write the candidate. Of that record both
  properties hold under the lock: the candidate is never older than a look that led to another observation, and an observation that its
  publisher had to wait for is released only if no other one was seen and settled on for a period. They fail at once if a confirmed replica takes
  the fast path without comparing the candidate (their mutant `EnsureNothing`).
* `OneSourcePerBundle`: the candidate never changes over to another source, the reference never to another one of the *same type*. That
  is all the code checks: a release of an S3 source that is replaced by one of a GCS source may next be replaced by one of any S3 source.
* `ExpectedVersionRespected`: the option names the version that is replaced.
* `RefreshEnds`, `Converges`: every refresh ends; a source that rests on a publishable
  observation ends up released and served by every replica, for good.

Of the local source and the filesystem root (`LocalPublish`):

* `NamesMeanContent`, `ReferenceIsWhole`: after any crash and power failure the folder of a version
  holds its files, and the reference names a folder that is there - with the exception of section 3.1.
* `StagingSurvives`: the sweep of temporary folders meets only orphans.
* `PublishedWasPresent`: no torn snapshots: its files were in the source together, and what it omits was missing at some moment.
* `ReleasedWasCurrent`: a publisher that waited long for the lock cannot bring back what the source no longer has.
* `ReleaseCatchesUp`: when the writes are over, the reference ends up at the last tree for good.

Of the object-store source (`MirrorSync`):

* `PublishedIsObserved`: hashes reused from the state file, or taken of what was downloaded, are those of the observed objects.
* `CommittedIsWhole`: every file of a committed snapshot is one object with the bytes the manifest says.
* `ReleasedWasCurrent`: as above, although a listing is not atomic.
* `ReleasedWasDeployed`: with a marker, a release is exactly what a finished deployment left.
* `SourceIsReleased`: a complete deployment becomes the release, whatever state the mirror is in. It says that the host lock
  is freed by whoever fails or dies, not that one given waiter for it gets a turn; for that the code relies on the kernel's queue.

Of the cache (`CacheCopies`):

* `MarkedIsIntact`: nobody hashes a marked copy again, so its bytes must be right, after a power failure too.
* `SweepSparesBuilders`: the sweep meets only orphans and copies moved aside.
* `PathFindsCopy`: `path` finds a copy if some version has had a marked whole one all through the call.
* `ExaminedWasWhole`: a process takes a copy for good only if it was whole at some moment of the call,
  although it looks entry by entry and without the lock.
* `CopiesHeal`: whatever crashes and cleanups left behind, every process gets a copy again and again.

Fairness (`FairSpec`). In `Publication`: a replica that can take a step of its refresh takes it, since a process
that runs has its requests answered, and airflow calls `refresh` again and again: weak fairness
of `Refresh` and `Publish`. Waiters of an `flock` are queued by the kernel, so a lock that is freed infinitely often
is granted: strong fairness of taking it, which is the same as weak fairness where there is no
lock. Time passes: weak fairness of `Tick`. Crashes, faults and
source changes are under no obligation, and their budgets run out; that is the
assumption under which a source "comes to rest".
`CacheCopies` assumes the same of the processes of a host, weak fairness of their steps and strong
fairness of the host lock. `LocalPublish` and `MirrorSync` need less: weak fairness of *some* publisher taking a step, for any one that
keeps trying brings the release up to date; it need not even be the same one.

### 3.1 Where two of the properties end

*A snapshot that is reused is not synced.* `publish_snapshot` renames a finished folder (`bundle.py:1727`) and syncs the
name (1728). If the publisher dies between the two, the next one finds the folder, validates it and returns
(1563-1568) without syncing anything, then writes the reference and syncs that. If the
power fails now, the reference may name a folder that is gone. `orphans` records exactly the versions
whose publisher was lost at that point and whose name has not been synced by any later step; without that exemption TLC finds
`ReferenceIsWhole` violated, in the order just told. The cache, in the same situation, does sync (867-868), and
`tests/test_local.py:499-533` looks at the order of calls for a snapshot that is created only. Publishing the content again repairs
the root, as the folder is then missing (`ReleaseCatchesUp` holds with all failures).

*A deployment that begins too early.* The transition check compares the marker of the observation with that of the *release*.
If a second deployment replaces some objects before the first is released, both have the marker of the first, which is
new to the release: the half deployment passes. `hasty` records that this has happened, and without
`~hasty` TLC finds `ReleasedWasDeployed` violated. `docs/s3.md:264` forbids such deployments
("Do not modify release objects after the marker write"); the stability period, which `MirrorSync` leaves out, makes it less likely. What was
released is still a state the source was in (`ReleasedWasCurrent`), and the second marker puts it right.

### 3.2 Three disagreements with the repository's own statements

1. `expected_s3`. `--expected-current-version` is compared with one read of the
   reference (`bundle.py:1609`); `bundle.py:1628` reads it again, for the transition check, and the
   compare-and-swap token the write uses is that of the second read. A release
   published in between is overwritten, which `cli.py:141-142` says the option protects from.
   Under the filesystem lock the two reads agree (`explicit_fs`).
2. `candidate_fs`. `docs/design.md:318` says that a delayed replica cannot replace the
   candidate with an old observation. It can, the lock of a filesystem root notwithstanding: the candidate is `a` and replica 1 has
   released it; replica 2 sees `b`, takes the lock, confirms `b` (`bundle.py:617`) and is delayed before the write (627); the source goes
   back to `a`; replica 1, which has confirmed `a` before, looks at the candidate *without the lock* (586-588), finds `a` and takes the fast
   path, which leaves no trace; replica 2 writes `b`, with a clock reading from before the revert. If the source shows `b` again a period later, `b` is released
   on the strength of that timestamp, although the source was `a` in between and a replica had seen it. The confirmation
   before the reference is written keeps the release itself to an observation that the source shows at that moment.
   Without a lock any replica that matches the candidate `a` in the meantime will do, confirmed or not, since it writes nothing and
   replica 2's token stays good. Under the lock this is the only exception: with such agreements in passing
   left out, `NewestButInPassing` and `ReleaseWasStable` are checked (`stability_fs`) and proved.
3. `ripe_gcs`. `README.md:234-236` of the repository has a changed source remain unchanged for the stability period
   before it is published, and `docs/design.md:261` has the publisher stop if the candidate changed. The publisher looks at the
   candidate again (`bundle.py:656`) and then at the clock (659). Without a lock the candidate can be replaced
   in between, and the publisher finds an age old enough that is no longer anybody's: while the source goes
   `a`, `b`, `a`, `b`, `a`, a replica releases `a` that was the candidate twice, but never for a period. It takes
   four source changes and a replica that is suspended between two statements. A release of something
   that was first recorded less than a period ago is excluded all the same (`NoEarlyRelease`).

## 4. What is proved

For every value of the constants (any number of processes, versions, files and
sources, any stability period, each kind of root, any bounds):

| theorem | module | statement |
|---|---|---|
| `ReleasesStayCommitted` | `ReleaseProofs` | `Release!Spec => []ReleasesAreCommitted`: what readers get from the abstract promise |
| `TypeCorrect` | `PublicationTypes` | `Spec => []TypeOK` |
| `SnapshotsAreComplete` | `PublicationProofs` | `Spec => []CommittedIsComplete` |
| `ConfirmedStaysPublished` | `PublicationProofs` | `Spec => []ConfirmedIsPublished` |
| `LockIsEnough` | `PublicationProofs` | `Spec => []LockProtectsReference` |
| `ImplementsRelease` | `PublicationProofs` | `Spec => RefinesRelease` |
| `OneSourceForEver` | `PublicationProofs` | `Spec => OneSourcePerBundle` |
| `RefreshAlwaysServes` | `PublicationProofs` | `Spec => RefreshServes` |
| `LockKeepsExpectation` | `PublicationProofs` | under the lock, `Spec => ExpectedVersionRespected` |
| `ReleasesAreNotEarly` | `StabilityProofs` | with a stability period, `HistorySpec => NoEarlyRelease` |
| `ReleasesAreRipe` | `StabilityProofs` | with a stability period, under the lock, `HistorySpec => OnlyRipeReleases` |
| `CandidateStaysNewest` | `StabilityProofs` | under the lock, `HistorySpec => []NewestButInPassing` |
| `ReleasesAreStable` | `StabilityProofs` | under the lock, `HistorySpec => ReleaseWasStable` |
| `LocalTypeCorrect` | `LocalProofs` | `Spec => []TypeOK` |
| `FoldersHoldTheirNames` | `LocalProofs` | `Spec => []NamesMeanContent` |
| `ReferenceKeepsItsSnapshot` | `LocalProofs` | `Spec => []ReferenceIsWhole` |
| `SweepSparesStaging` | `LocalProofs` | `Spec => []StagingSurvives` |
| `SnapshotsWerePresent` | `LocalProofs` | `Spec => PublishedWasPresent` |
| `ReleasesWereCurrent` | `LocalProofs` | `Spec => ReleasedWasCurrent` |
| `MirrorTypeCorrect` | `MirrorProofs` | `Spec => []TypeOK` |
| `ObservedIsPublished` | `MirrorProofs` | `Spec => []PublishedIsObserved` |
| `ManifestMeansWhole` | `MirrorProofs` | `Spec => []CommittedIsWhole` |
| `ReleaseIsDeployment` | `MirrorProofs` | `Spec => []ReleasedWasDeployed` |
| `ReleasesWereCurrent` | `MirrorProofs` | `Spec => ReleasedWasCurrent` |
| `CacheTypeCorrect` | `CacheTypes` | `Spec => []TypeOK` |
| `CacheMarkersVouch` | `CacheProofs` | `Spec => []MarkedIsIntact` |
| `CacheSweepSpares` | `CacheProofs` | `Spec => []SweepSparesBuilders` |
| `CacheExaminedWasWhole` | `CacheProofs` | `Spec => ExaminedWasWhole` |
| `CachePathFindsCopy` | `CacheProofs` | `Spec => []PathFindsCopy` |

`Spec` is that of the component whose module the proof extends. "Under the lock" is the hypothesis `Locking`, a filesystem
root: without it the properties of the candidate do not all hold (section 3.2), and `ExpectedVersionRespected` does not
(`expected_s3`). "With a stability period" is `Stability > 0`; at 0 nothing is recorded as a candidate and there is nothing to wait for.
The other theorems have no hypothesis.

Assumptions: only the named assumptions on constants in `ReleaseRef`, `ArtifactStore`,
`Publication`, `LocalPublish`, `MirrorSync` and `CacheCopies` (the "none" values are outside the sets they complement, the functions have
their domains, processes are replicas or publishers, files and keys are numbers in the order of a walk); TLC evaluates them on every run.

The argument for `Publication`. `TypeOK` alone is not inductive: several actions use `prep[p]` as a
signature, so `TypeInv` adds `Prepared`, that a process past `PrepareSource` or `StartExplicit`
holds one. That a refresh which comes to serve has a release (`ServeTyped`) rests on the fallbacks, each of which ends the refresh if it finds none. `SafeInv` then adds, each proved to be preserved by a lemma with one
step per action:

* `SnapshotInv`: no file appears below a version that its manifest does not list,
  and what a process has ticked off its `todo` is there. Uploads of the same
  version by several processes only add the same objects, so a process
  with nothing left to do may commit. `ReleasingIsCommitted` carries this to the reference write.
* `WindowInv`, with `PublishedInv`: what a refresh holds as a release is committed and was
  current while it ran. The reference is in the window of every open refresh, and a
  replica past a successful write has its target in its window.
* `LockProtectsReference` is inductive as it stands.
* `TransitionInv`: the token a process holds between reading the reference and writing it is
  a reference that `Target` may replace. With a lock the token is the
  reference itself; without one the write happens only if it is. This is the step that needs both halves of
  the design, and the reason for the second read under the guard.
* `OwnCandidate`: a replica about to replace the candidate, with a token that is still good, does not face another
  source's candidate; with the rule of `TransitionAllowed` for sources of one type that is `OneSourcePerBundle`. `SourcesTracked` says when a release names its source at all.
* `ReleaseStays`: a reference that was there is never withdrawn, so that a refresh whose window is not empty finds one to fall back on.
* `ExpectedInv`: under the lock, the version that the option was compared with stays the reference's up to the write.

`ReleasesStayCommitted` shows what the refinement is worth to a reader; its invariant adds
that everything a refresh in progress may adopt is committed. `ImplementsRelease` names the step of `Release` that each action is:
`FinishSnapshot` commits, `WriteRef` and `RefResponseLost` supersede, `BeginRefresh` opens, `Serve`
adopts, falling back without a release or failing closes, `Crash` restarts, and every other action stutters.

The argument for `StabilityHistory` is about time, and few actions matter to it. `ReplicaProgress` goes through all of
them once: a step is a tick, or each replica *rests*, *drops* its attempt, *looks*, *reconciles* the candidate, *meets* it or
*proceeds* towards the write. Most of the invariant is proved from these alone, each part of it for every kind of root except where the lock is named:

* `CandidateDated` and `HolderDated`: the candidate, and each copy of its timestamp that a replica holds, is no older than
  the first recording of the same observation. Putting back an old candidate keeps an old timestamp, hence the word *first*.
  Under the lock (`HolderMatches`) what a replica waits with is the timestamp of the candidate that is there, and a full age means a full period (`ripe`).
* `EarnedInv`: what a replica has confirmed, builds or publishes was first recorded a period ago and, under the lock, was the
  candidate for one. It is kept for later refreshes, which is why the confirmed observation may skip the wait.
* `NewestInv`, under the lock: nothing was settled on after the candidate's timestamp that was not the candidate. Whoever settles finds its
  observation in the candidate, holding the lock or while no write of the candidate is pending (`SettlingMatches`), so the timestamp a
  writer is about to store is the newest, too (`WriterIsNewest`; here the agreements in passing have to be left out). At the second look of a publisher it becomes a
  whole period, and stays one up to the write of the reference because the candidate is then what is published (`PublisherIsStable`):
  nobody can settle on anything else meanwhile, with or without the lock.

The argument for `LocalPublish`. `RootInv` says of the root that every folder is durable with what its name says
(`SnapshotsWhole`: a power failure only takes names away) and that a name is durable, orphaned, or about to be synced
by a publisher that is still there (`NamesSettled`); a reference has one of the first two. `CallInv` ties a call to the
source by time stamps: the manifest has the bytes that a file still has *if its stamp is the one of the walk* (`ManifestKept`), and
the temporary folder is the manifest so far (`StagingMatches`). `TreesInv` is what the two properties about the past need: some
tree the source had since the walk began (since the second walk began) agrees with the manifest as far as stamps can tell. The check of the stamps after hashing
turns "as far as stamps can tell" into "on every file".

The argument for `MirrorSync` is the same with signatures for stamps and a file of them on the disk.
`RecordedTruly` and `ObservedTruly`: a recorded hash is that of a source object *of the same signature*. `HashesTrue`: a hash of the attempt is
the observed object's, or the download met a newer one, in which case the source has another signature by now
and the second observation, which is under way, will see it; this is where the model depends on that observation.
`CommittedComplete`, with `UploadedTo`: a manifest follows the last object.
`FreshRemembered` is `TreesInv` for a listing that takes one object at a time. `MarkersKept` and `ObservedDeployed`: unless a deployment was
hasty, an observation with a marker newer than the release's is of that marker's deployment, as far as the listing has come; the comparison with
the marker read after the listing closes the gap.

The argument for `CacheCopies`. `TypeInv` adds to the types that a call examines some version, that a version a cleanup is
removing has a folder, that the steps of `_materialize_cached_version` hold the lock (`LockTyped`) and what a builder's
temporary folder holds (`BuiltTyped`); the sweep can therefore meet nobody else's build. Then, each with one lemma per action:

* `IntactInv`: wherever a marker is visible *or durable*, the visible *and* the durable folder are sound (right bytes, on the
  disk), because a power failure may combine one with the other; and, label by label, how far the
  builder's copy is on the way to its marker. Only the lock holder builds, and a cleanup only takes entries away.
* `Examined`: while a process looks at the entries, either the copy was whole at some moment of the call or
  an entry it has still to look at is missing. No step mends a folder in place (`Evolves`): it is removed, loses entries,
  or is replaced by a finished copy, so what is missing stays missing or the copy becomes whole. The first lookup needs `IntactInv`.
* `Search`: a version with a marked whole copy all through a call of `path` is still to be examined whenever the
  search goes on, and a lookup of such a version cannot fail.

Only model-checked: liveness (`RefreshEnds`, `Converges`, `ReleaseCatchesUp`, `SourceIsReleased`, `CopiesHeal`), since the provers
have neither fairness nor `ENABLED`. Every other property of the runs that pass is one of the theorems above.

## 5. Plan

Done: publication with the roots it meets at and the promise it keeps, first because every other part is there to feed or to
follow it; then the three parts it takes as atomic: the local source and the durable filesystem root, the object-store source
with its mirror, and the cache; then a proof for each safety property that is checked.

Left, in this order:

* the history without a lock: `ReleaseWasStable` is proved and checked under the lock only, and what a conditional write alone
  guarantees of it should be stated;
* the detailed attempts as steps of the abstract promise: a write of `LocalPublish` and of `MirrorSync` is a step of `Release` that supersedes.

## 6. Not modelled

* *Validation of paths, manifests and inventories* (`_validate_relative_path`, `_relative_object_path`, `_validate_inventory_paths`,
  ignored names): sequential pure functions on strings. What they accept is the set of files or keys of the models; what they refuse
  ends an attempt before it has changed anything. Modelling them would mean to spell out strings.
* *Clocks that disagree* (`bundle.py:668`): one clock, which the repository requires.
* *An S3 object replaced within the same second by bytes of the same ETag and size*: then it is the same bytes, and nothing is wrong with the release.
* *Counting of releases*: an S3 reference that was replaced and put back matches again (`s3_store.py:284`), which is harmless for every property here.
* *New parent folders of the root* are created without a sync (`_ensure_public_dir`); the models begin with the folders in place.
* *Size limits*, stray download files, permissions and ownership of files, the wording of errors and command output,
  `view_url` and the provider clients, the import shims and hash collisions.
* *`scripts/verify_release.py`*: a sequential script for maintainers that takes no part in the running system.
