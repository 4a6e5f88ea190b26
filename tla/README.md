# A TLA+ model of TerpBuilder

TerpBuilder is an iOS app (SwiftUI) with which students of UMD plan a semester:
they look up courses on umd.io, put sections into a weekly schedule, view the
schedule, get walking directions on campus, review courses and set reminders.
The repository also holds the sources of the libraries the app is built with;
the largest that is a system in its own right is leveldb, the key-value store
under Firebase's Realtime Database.

This directory holds TLA+ specifications of the app's logic and of leveldb, the
TLC configurations that check them on small instances, and TLAPS proofs of main
properties for all instances. Paths of the app below are relative to
`src/Terp_Builder/Terp_Builder/`, those of leveldb to
`src/Terp_Builder/Pods/leveldb-library/`.

## 1. Inventory

### The app

| Component | State | Operations | Hard behaviours | What makes it correct |
|---|---|---|---|---|
| Schedule model, `Models/ScheduleModel.swift` | `currSchedule` (a list of courses per day), `currClasses` (section ids), `addFailed` | `addToSchedule`, `checkConflict`, `checkLecture`, `checkDiscussion`, `removeFromSchedule`, `quickDelete` | long sequences of adds and deletes; boundary times; force-unwraps | the lists agree; conflicts are found; refusals are justified |
| Section page, `DetailedCourseInfo` and `SectionView` in `AddClassView.swift` | one `APIModel` per view (`info`, `sections`) | fetch course, fetch section, add, delete, bell | the section shown is stale; fetches race with tab switches; failures are only printed | a listed course is filed; what is filed can be deleted; deleting touches nothing else |
| Schedule tab, `ScheduleView.swift`, `Models/Utils.swift` | `selectedDay` | day buttons, `checkForClass` per hour | depends on the order of additions and on day names | what is drawn is right; every class is drawn |
| Campus map, `MapView.swift`, `Models/DirectionsModel.swift` | `annotations`, `region`, `query`, `popupTriggered`; `dirs`, `time`, `distance` | taps (delayed by a second), `computeDirs`, `computeDirections` | concurrent tasks off the main actor; failures half way | what is shown belongs to the pin; every request ends |
| umd.io client, `Models/APIModel.swift`, `Models/Course.swift` | `courses`, `info`, `sections`, `locations` | four fetches on the main actor | latency, failure, cancellation | an answer lands in the view that asked |
| Search lists, `AddClassView`, `MapView` | `filteredCourses`, `search`; `filteredBuildings`, `query` | `preformSearch`, the fetch of the list | the filter does not run again when another list arrives | the rows match the text, however old the list they were taken from |
| Reviews, `ReviewView.swift`, `reviewView` in `AddClassView.swift` | form fields, `submitted`; `reviews` | `upload`, `loadReviews` (Firebase observer) | repeated delivery, observers never removed, force casts | no review is missed or filed twice |
| Notifications, `Models/NotificationModel.swift`, `SettingsView.swift`, the bell | the system's pending requests | `getPersission`, `pushNotification` | minute-granular triggers, dates in the past, permission | a reminder fires in its minute |
| Shell, `Terp_BuilderApp.swift`, `ContentView.swift` | the two shared models | launch, tabs | nothing is persisted | a launch starts from empty models |

`ScheduleModel` and `NotificationModel` are created once and shared as
environment objects. The section page writes the schedule, the schedule tab
reads it. Every view owns its `APIModel`. Everything runs on the main thread
except `computeDirections`, a non-isolated async function.

### leveldb

| Component | State | Hard behaviours | What makes it correct |
|---|---|---|---|
| versions and compaction, `db/version_set.cc`, `db/db_impl.cc` | levels of files, `imm_`, pending outputs, manual range, compaction pointers | work outside the mutex against reads and new writes; seeks that trigger compactions; callers that give up | every read at every snapshot is right; live files exist; work that is due is scheduled |
| writers, `db/db_impl.cc` | the queue `writers_`, log, memtables, `bg_error_` | group commit with the mutex given up; switch of the log; failed syncs; Close | a batch is atomic and in order; a synced one is in the log; every call returns |
| recovery, `db/db_impl.cc`, `db/version_set.cc` | MANIFEST, CURRENT, logs, tables on disk | crashes between any two steps, unsynced tails, crashes in recovery | it opens again with what was promised; numbers are fresh |
| formats: `db/log_*.cc`, `db/version_edit.cc`, `db/write_batch.cc`, `util/coding.cc`, `db/filename.cc` | bytes | block ends, torn tails, overflow | what is written reads back; less is refused |
| tables, `table/*` | blocks, index, filter | boundaries of blocks, separators, unreadable blocks | lookups and scans find everything, or an error |
| iterators and memtable, `table/merger.cc`, `db/db_iter.cc`, `db/skiplist.h`, `util/arena.cc` | positions of the children, direction; linked nodes | changes of direction; lock-free readers | a scan is that of its snapshot; no reader misses a key |
| caches, `util/cache.cc`, `db/table_cache.cc` | reference counts, two lists, a hash table | eviction and removal of what is in use | a held table stays open, a removed one is closed |
| environment, `util/env_posix.cc` | locked files, work queue, limits, buffers | threads and processes; failures half way | one holder of the lock; no work forgotten; bytes in order |
| repair, `db/repair.cc` | what is found in the directory | no manifest | entries and numbers are kept |

The database is driven by its callers' threads and one background thread under
one mutex, which is given up around file operations. It survives crashes through
the log and the manifest.

## 2. Modules

| Module | Models | Built on |
|---|---|---|
| `Meetings` | day codes, times, meetings; `LectureDays` (the if-chain of `ScheduleModel`), `MeetsOn` (the letter scan of `checkForClass`), `convertTime` | |
| `ScheduleModel` | state and operations of `ScheduleModel.swift` | `Meetings` |
| `StableSections` | the schedule with its two buttons, the alert and relaunch, for sections that do not change | `ScheduleModel` |
| `Timetable` | abstract specification: a set of bookings | |
| `ScheduleView` | the schedule tab on top of the schedule | `StableSections` |
| `SectionView` | the page of a course: fetching, cancelling, failing, and the buttons acting on what was fetched | `ScheduleModel` |
| `CourseSearch` | the list of courses and the list of buildings with their search | |
| `Reviews` | the form, the database, and the page that observes it | |
| `Notifications` | permission, reminders and the bell against a clock | |
| `Directions` | the map, delayed taps, and the tasks of `computeDirections` | |
| `InternalKeys` | versions of keys and their order | |
| `VersionSet` | versions as functions of levels: edits, picking, inputs, iterators, sizes | `InternalKeys` |
| `DBCompaction` | the database: writes, compactions in steps, ranges, seeks, snapshots, reads | `VersionSet` |
| `AtomicWrites` | abstract specification: batches take effect in one order, each at one instant | |
| `DBWriters` | threads in `Write`, `MakeRoomForWrite`, the background thread, Close | refines `AtomicWrites` |
| `DBRecovery` | open, write, switch, compact, crash; what is on disk and what is synced | |
| `LogFormat`, `Encodings`, `Tables`, `BlockFormat`, `Repair`, `Crc32c`, `Base64`, `CBinding`, `DirectorySync`, `Arena` | one format or structure each | |
| `Iterators`, `SkipList`, `TableCache`, `PosixEnv` | what threads share; `TableCache` holds the LRU cache it is built on | |
| `StableSectionsProofs`, `AddClassProofs` (the tab, and the map), `DBWritersProofs`, `DBRecoveryProofs`, `DBCompactionProofs`, `IteratorsProofs`, `SharedProofs` | theorems and proofs | the modules they are about |
| `ListLemmas` | lemmas on lists: append, `remove(at:)`, the first match; finite sets in order; recursion over an interval | |
| `MC*` | instances for TLC; `MCShared` holds iterators, cache, environment and recovery, `MCFiles` the formats and the skip list | |

How the models of the app correspond to the code:

* **A day code is the set of its letters.** umd.io writes codes in week order, so
  the string and the set determine each other. `LectureDays` keeps what the
  if-chain does with every code: an unknown code is filed nowhere, and a
  two-character code other than `MW` and `Tu` is filed under Thursday.
* **Times** are records of hour, minute and meridiem. `checkLecture` compares
  `DateFormatter("HH:mma")` values. How `HH` and `a` combine is the formatter's
  affair, so it is the constant `DateOf`, any function to numbers. The runs use
  the minute of the day (the reading the code counts on). The proofs hold for
  every `DateOf`, except `RefusalsAreJustified`, which says what it assumes.
* **`checkDiscussion`** parses "hh:mmam" with `HH:mm`. A non-lenient formatter
  must consume the whole string, so the result is nil and the unwrap ends the
  process: `trapped`. `relaunch` is also possible without a trap.
* **The alert** bound to `addFailed` is modal, so no button acts while it is up.
* **A list of what is drawn** is a function of the state: `checkForClass` is the
  set of the slot drawn for an hour (empty or one). It is the first slot, in
  the order of the two loops, that starts in the hour, provided that every slot
  before it meets on the day.
* **A fetch** in `SectionView` is `Asked` until the server answers, then the
  answer itself until the main actor applies it. Leaving the tab cancels what is
  not answered; an answer that has come in is still applied. Opening a page
  creates new models, switching tabs keeps them.
* **A route** in `Directions` is represented by its destination, since the user's
  position is fixed. Each assignment of `computeDirections` is a step. The check
  `dirs.count != 0` and the reset are one step: the reset writes the same value
  whatever the check saw last. Single assignments to `@Published` properties are
  taken to be atomic. The two lists (`MapView` and `popularLocations`) have the
  same block; they differ in `query = ""` only. `alone` in a task is a history
  variable used by properties and read by no action.
* **A search list** is a set; a keyword and the courses that contain it are a
  constant relation. The list of buildings is on screen only while there is a
  text, so its `onChange` misses the first letter and the clearing of the text. Two
  history variables say what the rows are to be: `heard`, the text that
  `preformSearch` was last called with, and `since`, what has been in every list
  stored from then on.
* **A review** is its text, a number; the professor and the stars are left out.
  The typed course number is a constant's argument and the path it leads to its
  value: of one component, of two if it has a slash, of none if Firebase refuses
  it. An observer gets a snapshot when it is registered and at every change of
  the course; deliveries keep their order.
* **Notifications** see a clock of ticks, `Ticks` to a minute. The center
  delivers a request when the clock enters the minute its components name.

How the models of leveldb correspond to the code:

* **The mutex.** An action is what a thread does between taking the mutex and
  giving it up, or one file operation while it has been given up.
* **An entry** is a user key, a sequence number and a type; values are not
  needed, because the entry tells which write it came from. Sizes are numbers of
  entries.
* **A version** is a sequence of files per level. `DBCompaction` runs a
  compaction in the steps pick, each output, install; `imm_` may be compacted in
  between, as in the code. Two history variables, read by no action, say when
  the database has done what the properties make an exception of: `cut` (a
  compaction left out a file that goes on with a user key of one it took) and
  `crossed` (the outputs of a range lie across a file flushed meanwhile).
* **A disk** in `DBRecovery` and `DirectorySync` is what was written and how much
  of it is synced; a machine crash keeps the synced part and any prefix of the
  rest (in `DirectorySync` the synced part, or all of it if the system has written
  it back on its own, a record of the manifest included). Renames take effect at
  once and in order (`DirectorySync` says what the code syncs and what it leaves to
  the file system).
* **The background thread** is modelled twice. `DBCompaction` has what it does to
  the files. `DBWriters` has what those who wait for it see: `level0`, the number
  of files at level 0, from which a compaction takes its `inputs` only, while a
  flush in the middle of it may add one; `deeper`, whether levels below call for
  compactions, which are picked as well and free nobody; and the end of
  `BackgroundCall`, which schedules the next call for either
  (`db/db_impl.cc:682-684`). Seeks and ranges are in `DBCompaction` only.
* **Bytes** in the formats are numbers below a small radix, with block sizes and
  header sizes scaled down; a checksum is the data it was computed from, except
  in `Crc32c`, which models the arithmetic (words are sets of bits).
* **Threads** in `SkipList`, `PosixEnv` and `DBWriters` take one load, store or system call at a time. Release stores and acquire loads are
  sequentially consistent here; the relaxed store of `max_height_` may be seen
  late.

Left out: texts, layout and pixel offsets, logging, dragging the map, relaunch in
`Directions`; in leveldb compression (an outcome), the info log, clocks and the
Windows sources.

## 3. Runs

Passing runs:

| Run | Instance | Shows |
|---|---|---|
| `schedule` | eleven sections that collide, touch, overlap in part, are misfiled, have no days, or trap; two parts, the schedule with eight of them and the tab with six and every start day | `ConsistentSchedule` (the day lists and the id list agree, no duplicates), `CoveredDaysInOrder` (what `&&` in `checkConflict` still guarantees), `RefusalJustified` (no false alarm), `ImplementsTimetable`, `DrawnIsRight`, `LecturesDrawn` |
| `add_class` | a section that moves between MWF and TuTh and may lose its meetings, another whose seats come and go; two courses and three texts; two reviews here and two elsewhere; three minutes and two reminders | `ListedIsFiled`, `DeletesOnlyItsSection`, `StableFiledIsListed` (the page and the schedule); `RowsMatchSearch`; `ReviewsRight` (none missed, none filed twice, only names trap); `RemindersRight` (a reminder comes in its minute, the bell rings) |
| `directions` | two buildings, three taps | `PinIsLastTap`, `AloneTripShown`, `NoOldDirections`, and `EveryTapServed` under fairness |
| `compaction` | two keys, four levels, tables of two entries, two databases to start from, three events | `ReadsRight` (gets at every live snapshot, scans, sizes), `VersionsInOrder` (files of a level in order and above level 0 disjoint, newer entries above older ones), `LiveFilesExist`, `BackgroundWorkKept` (work that is due is scheduled; the range being compacted stays registered) |
| `writers` | three threads, with a synced write, a batch of two and a null batch; level 0 found empty or full, a compaction of a deeper level due or not; one failure of a file | `SyncedSurvives`, `LogReplays`, `ImplementsAtomicWrites`; under fairness `EveryWaitEnds` (calls return, Close finishes), also when it takes several compactions, of level 0 and below, until level 0 has room |
| `files` | twelve parts, one per format or structure, each over bounded inputs and one damage | `RecordsReadBack` (the log), `CodingIsRight` (edits, batches, file names), `TablesRight`, `DiskCanBeOpened` (what a stop of the machine at any step leaves of the directory and the files, with one exception below; repair), `ListIsRight` (the skip list with its readers), `UtilitiesRight` (checksums, base64, memory) |
| `shared` | one part per structure, with two or three threads or processes; as a part of its own a new or an old database, two writes, two crashes, one failure | `IteratorsRight`, `CacheIsRight`, `OneThreadHolds`, `EnvironmentRight` (the lock file, the work queue, buffered files, limits); of recovery `CanBeOpened`, `NothingPromisedIsLost`, `NumbersRight` (sequence and file numbers are never given out twice) |

In the last four runs and in `add_class` most properties are conjunctions; their
parts are stated one by one in the modules, each with its comment.

In a run with parts, every behaviour is one of a single part, chosen in the
initial state, while the variables of the others stay as they begin.

Runs that show the code departing from what a comment or the README says:

| Run | What happens |
|---|---|
| `one_day_collision` | MWF 10:00 to 10:50 is accepted beside M 10:00 to 11:15 |
| `ghost_course` | a section that moved before it was deleted stays on its old days, without a button |
| `overtaken_trip` | the directions to an earlier pin overwrite those to the current one |
| `deleted_key_returns` | a compaction drops a deletion while an older value of the key survives, because one user key is split between two files of the next level and only one is taken |
| `lost_put` | a put that was flushed during `CompactRange` is not found any more (below) |

`lost_put` is the deepest of them. While `DoCompactionWork` merges, it flushes
the immutable memtable (`db/db_impl.cc:912`), and `PickLevelForMemTableOutput`
chooses a level by the files of the current version, where the outputs of the
compaction are not yet. `CompactRange` takes the files that meet a range, two
neighbours with a gap between them among them, and merges them into one output;
a compaction that is due by size or by a seek starts from one file and grows to
what overlaps it, which leaves no such gap. A flush of a key in the gap passes
both levels, since nothing overlaps it, and comes to lie at the output's level,
inside the range of the output. A debug build then aborts in `SaveTo`; a release
build goes on with two overlapping files, `FindFile` stops at the output, and the
key is not found. Three keys and two events (a put and a range) show it. The
properties of `compaction` except the time after it, by `crossed`.

**Departures without a run of their own.** They follow from the actions of the
models, or limit a property as its comment says.

The app:
* `checkLecture` compares starts and ends separately, so M 10:00-11:15 and
  M 10:30-11:45 are both accepted (`Overlap` in `StableSections`).
* `checkDiscussion` ends the process when it compares two discussions.
* `checkForClass` stops at the first meeting that is not on the day, so a lecture
  added after a course with a discussion elsewhere is not drawn (the premise of
  `LecturesDrawn`). A discussion on a day without the lecture is never drawn,
  because a course is filed under the days of its lecture.
* An added section that runs out of seats shows the bell and cannot be deleted.
* On a Wednesday `getDate` gives "Wed", the enum says "Wen", and what is drawn
  is Monday's. A class that starts between midnight and one is drawn at noon,
  because `convertTime` keeps the 12 of 12am (both are exceptions in `DrawnIsRight`).
* `convertTime` takes a start time apart without looking (`Models/Utils.swift:12`):
  a meeting with days and no start time would end the process. The assumption on
  courses excludes it.
* A request for directions that fails has reset `dirs` but leaves the time and
  the distance of the trip before.
* The filter does not run again when a list arrives: what comes with it is missing
  from the rows even if it matches, and a course that was found stays on screen
  after it is gone from the list (`RowsMatchSearch` says what still holds). The
  first letter typed for a building is not searched: the rows are those of the
  search before.
* `loadReviews` appends a whole snapshot at every delivery and registers another
  observer at every appearance, so reviews are shown several times
  (`EveryReviewShown` says that none is missed).
* A course number with a slash files a review below a child that is no review;
  the page of the course then ends the process. Several other characters make
  Firebase raise an exception in `upload`. A number that is no course, a space
  included, files a review that no page shows.
* A reminder for the current minute or an earlier one never comes. The bell says
  "You will be notified when seats are available" and rings within a minute,
  whatever happens to the seats.

leveldb:
* `CompactRange` that gives up after an error clears `manual_compaction_`, which
  the background thread uses at `db/db_impl.cc:755`.
* Two files of a level above 0 may share a user key, so SaveTo's check
  (`db/version_set.cc:724`) counts on versions cut by sequence number.
* `TEST_CompactMemTable` forces nothing when its null batch is taken along by
  another writer's group. A failed `AddRecord` leaves the log in use.
* `NewDB` does not sync the first manifest (`db/db_impl.cc:199`), so
  `CanBeOpened` is stated once CURRENT names a later one. With `reuse_logs` a
  manifest and a log are appended to whose tails were never synced, and
  `NothingPromisedIsLost` fails; the runs leave the option off, as the default is.
* A reader with an `initial_offset` inside a record may report corruption. What
  is appended after a torn tail in the same block is lost.
* `SyncDirIfManifest` is called first in `Sync`, "before the manifest file is
  flushed to disk" (`util/env_posix.cc:302`); but `AddRecord` has flushed the record
  to the system before `Sync` is called, so the system may write it back before the
  directory is synced, and after a stop then the manifest may name a table whose
  name is missing. `StoppedCanOpen` lets the system write back any file at any
  time and makes an exception of exactly that table, by the history variable
  `overtaken`; without the exception TLC finds the stop. The rename of CURRENT and
  the names of new logs are left to the file system.
* fcntl's lock goes with any descriptor of the file, so a refused second
  `LockFile`, or the close at the end of `UnlockFile`, drops the lock that another
  thread of the process holds (the exception in `LockIsExclusive`).
* Repair reads logs without checksums, although its comment says it wants them;
  it archives a log even if its conversion failed; and it puts every table at
  level 0 by file number, so an older value may win.
* `DestroyDB` unlocks before it deletes LOCK, so two processes may hold locks on
  different files of that name.
* The buffer of `NSData+SRB64Additions.m` is too small for 1, 2, 4, 5, 7, 10 and
  13 bytes; the encoder then returns nil.

**Bounds.** The schedule has no counter: its state is finite because a section is
added at most once between two deletes. In `add_class` entries left behind block
their own slot, so the lists stay finite too. Conflicts involve two courses and
at most three days; eleven sections give every pair of relations (before,
touching, partial, containing, equal; same days, covered days, some shared day)
and third courses that come between. `MaxTaps` bounds the taps of `Directions`:
three suffice for a late task, a failed one and a fresh one to meet.
`MaxObservers` and `MaxReviews` of two let a review arrive before, between and
after two appearances. `MaxNow`, `MaxRequests`: a minute before, of and after two
requests. `MaxEvents` bounds what happens from outside in `DBCompaction` (writes,
seeks, ranges, snapshots); its initial databases already have data at three
levels, so three events reach compactions at each level, with a snapshot or a
reader in between. In `DBWriters` the three triggers are one, one and two
files and Open finds none or two (`Level0Found`), so that a writer meets each
branch of `MakeRoomForWrite` and may have to wait for more than one compaction;
`MaxDeeper` of one lets a compaction of another level come before it or after it.
`MaxWrites`, `MaxCrashes`, `MaxFailures` in `DBRecovery`: a
write before and after a crash, a crash in recovery, and a failed file
operation. In the iterators' part two children and one write under way let a
child be ahead of, at and behind the merged position in both directions. The
formats are checked over all inputs up to sizes that cross each boundary (a
block's end, a restart interval, a varint's length) at least once. Deadlock is
checked where the system cannot stop; `CHECK_DEADLOCK FALSE` marks
the runs whose bounded inputs are used up.

**Fairness.** `Directions`: the main queue runs its blocks, the executor runs
tasks that are ready, and MapKit calls back with a response or an error (weak
fairness of `runTap` and of each task). `DBWriters`: a thread that can take the
mutex does, a thread that was signalled wakes, and the background thread runs
what is scheduled (weak fairness of each thread's next step). Which compaction it
runs is open. That compactions of deeper levels come to an end is not assumed as
fairness but is how levels are: each moves files nearer to the last level, which
is never compacted, so `deeper` falls with each unless one of level 0 comes
between. The user, and a
thread that has not called, owe nothing.

## 4. Proofs

The theorems hold for every value of the constants that satisfies the named
assumptions. TLC evaluates those on the instances, and agrees there with every
inductive invariant (except `TypeInv` of `RecoveryInv`, whose sets it cannot
enumerate, and with a range for `Nat` in `Fields`). Each theorem is about the specification of one part
(`SectionSpec`, `EnvironmentSpec` and so on); a run that holds several parts runs
one of them in each behaviour.

### The app

`StableSectionsProofs`, for every set of sections with unique ids and every
`DateOf`:

* `TypeCorrect`, `ScheduleStaysConsistent`, `CoveredDaysStayInOrder`, from the
  inductive invariant `IInv`, the conjunction of the three. None is inductive
  alone. That `quickDelete` removes the section for good needs the absence of
  duplicates. That an accepted course is in order with the listed ones needs
  `SameCourses`, because `checkLecture` looks at a day's list. The argument for
  the order: `&&` guarantees one day without conflict, and a course that covers
  all days of the new one is on the list of that day.
* `RefusalsAreJustified`, under `ReadsTheClock`: the formatter orders times as
  the clock does, and filed lectures end after they start.
* `ScheduleImplementsTimetable`: under the mapping of the schedule to the set of
  listed courses, every step is a step of `Timetable`. Its core is that
  `checkLecture` decides whether a day is free (`CheckLectureIsFree`).
* `WhatIsDrawnIsRight` and `AllLecturesDrawn`, from `ViewInv`, which is `IInv`
  and the names the selected day may have. What is drawn is in a day's list, so by
  `SameCourses` in the list of ids. `HourRead` compares `convertTime` with the
  hour of the clock; the attempt to prove it for all twelve hours and both halves of
  the day is what showed the case of 12am. For the second theorem `FirstIndex`
  gives the first lecture of the hour in the order of the loops, and while every
  course has one meeting on the day, no slot before it ends the scan.

`AddClassProofs`:

* `ListedStaysFiled` and `StableFiledStaysListed`, for any sections, versions and
  order of answers, from `SectionInv`. A page acts on what it fetched, so the
  invariant follows an answer from the server to the button (`AnswersKept`: it
  answers the request for that id, and the process has not survived one without
  meetings). `FiledWasShown` says that what is filed was shown once.
  `StableFiledOnce` says that a section of which only seats change is on a day
  once: with two entries of one id a delete would leave the second, which no
  button reaches. It is this part that fails for a section that moves
  (`ghost_course`).
* `DeleteTakesItsSection`, an action property, from the same invariant: a delete
  takes at most one entry off a day, one of the section whose button it is.
* `RowsAreRight`, in every state, from `SearchInv`: what is filtered matches the
  text last heard, and holds every match that was in the list then and in every
  list stored since. The rows are the filtered entries or, when there are none,
  the present list, and then nothing that matches has stayed.
* `ReviewsAreRight`, from `ReviewsInv`. `SnapshotsRight`: the last snapshot on its
  way is the database's present one, each is part of it, and when none is on its
  way the page shows all. `TextsOnce`: a text is in the database once, and not
  while the form still holds it. `OthersHaveNames`: what is no review was filed
  under a name that is no path of one component.
* `RemindersKeepTime`, from `RequestKept`: a request has been delivered at the
  first tick of its minute or not at all, and not at all only if that tick is yet
  to come, was past when it was added, or the request was refused. The rest is
  arithmetic of `\div` by `Ticks`, for every length of a minute.
* For the map, any buildings and any number of taps: `DirectionsTypeCorrect`,
  `PinFollowsTaps`, `AloneTripIsShown` and `OldDirectionsAreReset`, from `DInv`.
  Its part `AloneProgress` says what a request alone has written at each point of
  `computeDirections`, and that no other task is running, so nothing overwrites it.

### leveldb

`DBWritersProofs`, for any threads, batches and limits, from `WritersInv`:

* `QueueIsRight`: `QueueInv` adds that the queue holds exactly the threads in
  `Write` that nobody has answered, once each, and that only its head works. That
  is why the leader may give up the mutex.
* `LogIsRight`: `LogInv` and `ReplayInv` say which entries the last record holds
  while its group is not published yet, and that an earlier one holds only what
  is.
* `SyncIsKept`: a leader that does not sync takes no synced write along
  (`GroupInv`), so a group with one has been synced when it is inserted.
* `GroupCommitIsAtomic`: `DBWriters` implements `AtomicWrites`. Publishing
  `last_sequence` is the step that makes a group visible, all others are stutters.
  It needs `OutcomeInv`: a batch is visible exactly if its writer has returned OK,
  is about to, or is still to be told so by the leader.

`DBRecoveryProofs`, for any number of writes, crashes and failures, under the
hypothesis `ReuseLogs \subseteq {FALSE}`, the default of the option:
`RecoveryCanBeOpened`, `RecoveryLosesNothing` and `RecoveryNumbersRight`. A crash
may come at any step, so `RecoveryInv` describes what every crash would leave:
`Survivors` are the states that a manifest may say after one, and `DiskInv`
demands of each that its tables exist and that with the logs it names it covers
what was promised. `RecoveredInv` and `SaveInv` follow Open step by step,
`UpInv` and `FlushInv` a database that is open with a flush or a compaction in
`LogAndApply`. They hold that no file that a survivor needs is deleted before the
sync of the record that replaces it. With the option on, the theorem would be
false: see the departures above.

`DBCompactionProofs`, for any keys, levels, limits and databases to start from:

* `WorkIsKept`. `WorkInv` adds to the property that whatever the thread is doing,
  it is scheduled, and that a range that is registered is the one its caller waits
  for. The property alone is not inductive, since it says nothing of the times
  when the thread works.
* `LiveFilesStay`, that is, `LiveFilesExist`, from `LiveInv`. A version names only
  files that are the metadata of their tables (`VersionsInv`), numbers below
  `next_file_number`; the number of a flush under way and those of the outputs of
  a compaction are named by no version that is referenced, and are pending
  (`FlushInv`, `OutputsInv`). So a table that is written over is never one that is
  read, and `DeleteObsoleteFiles` keeps what is pending or named. The long part is
  what is installed and compacted: that every choice of inputs (`PickCompaction`,
  `CompactRange`, with what `SetupOtherInputs` adds by boundary keys and by
  expansion) consists of files of the version read, that the level picked by
  score is not empty, that a seek is never charged to a file of the last level,
  and that `SaveTo` puts its files in order. The boundary files are a recursion
  over an interval, for which `ListLemmas` shows that its values exist
  (`RecursionTo`) and an induction over them (`InductionTo`).
* `LevelsStaySorted`, that is, `DBTypeOK`, from both invariants: the files of a
  level are in the order that the binary searches rely on.
* `VersionsStayInOrder`, that is, `VersionsInOrder`, from `OrderInv` on top of
  them. `AgesInv`: the entries of the memtable are newer than those of the
  immutable one, and these newer than those of all tables. `FlushBase`: a flush
  goes on with the version it picked its level by. `WorkRight`: what the
  compaction under way takes is such that its outputs may be put a level down.
  Of its own level, what is left out and shares a user key with the inputs is newer
  (`InputsRight`, by `Closed`, from the boundary files and, at level 0, from the
  widening of the range); of the next level, what is left out lies to one side of all inputs
  (`OneSide`), which an output that spans them needs and which holds because the
  inputs leave no gap between them (`Covered`). So it stays true while a flush
  installs a file in the middle of the compaction: below level 0 the file meets no
  input, and the inputs have no gap, so it is to one side as well. A range that a caller
  asked for has no `Covered`, which is where `lost_put` comes from and why the
  property ends with `crossed`. `OutputsRight`: the outputs are disjoint, in order
  and before what is still to be merged.

`IteratorsProofs`, for any keys, children and entries, whatever is written while
an iterator is in use:

* `IteratorsAreRight`: `DBIter` stands at the entry that its snapshot and the
  last call determine, in both directions, and a scan that ends with status OK
  has passed no damaged entry. `IteratorsInv` has a part for each level and each
  loop. `MergingInv`: every child but the current one is at its first entry after
  the merged key or, backwards, at its last before it; of entries written since
  nothing is claimed, because a child that has passed their place does not see
  them. `FindNextInv` and `FindPrevInv`: what is sought is the first, or the last,
  entry neither passed nor hidden; backwards the entry saved last is it unless a
  newer one of its key is to come. `ToReverseInv` is the state in between, when
  `Prev` walks off the entries of the current key. The property says nothing of the
  children, so that it is not inductive.

`SharedProofs`:

* `ListSafe`, for any keys, any greatest height and any number of readers:
  `ListIsRight` always holds of `ListSpec`, that is, the levels are sorted and
  linked, and no reader misses a key that was inserted before its call. The
  inductive invariant `ListInv` adds three parts. `HeightsInOrder`: no node is
  higher than the list. `InsertInPlace`: what an insertion has in `prev` is the
  last node of its level before the new key. It stays so because nobody else
  inserts, which is the synchronization that `skiplist.h` requires of its user.
  `ReadersInPlace`: a walking reader is at a node linked in its level, and all it
  must find is linked in the lowest one. A stale `max_height_` is harmless because
  a node of a level is also in the levels below it (`LowerLevels`). The step that
  needs the order of the two stores is `InsertPublish`: the new node leads on to
  the rest of the level before anything leads to it.
* `OneThreadHoldsAlways` and `LockIsExclusiveAlways`, for any processes and
  threads, from `LocksInv`. A process has at most one thread between a successful
  insert into the lock table and the remove that undoes it (`OneEngaged`, which
  needs `InTable`), and who holds the lock and has not been bereft of it has the
  kernel's lock (`KernelKnows`). The kernel's lock alone does not keep two threads
  of one process apart, the table alone not two processes.
* `TableCacheIsRight`, for any files, readers, capacities, shards, buckets and hash:
  a reader's table is open, a removed one is not, and in every shard the reference
  counts, the two lists and the hash table agree. `TableCacheInv` gives each
  operation of `LRUCache` a specification (`ShardInv` before and after it, with the
  number of readers that hold each handle), so that an action of `TableCache` is a
  step from one such state to the next; the eviction loop is a recursive function
  whose every round keeps `ShardInv`.
* `EnvironmentIsRight`, from `EnvironmentInv`. Queue, executed and scheduled work
  are one sequence cut in two; the rights of a limiter and those that are out add
  up to its limit (`LimitsInv`, by counting); what is on the file, followed by the
  buffer, is what was appended, in order (`WritableInv`).

### Assumptions

* `CoursesAssumption` (a section with a button has a first meeting, with times if
  it has days), `UniqueSections` ("sectionID is unique"), `AnswersAssumption`
  (what a page shows is a course with meetings; no answer is the mark `Asked`).
* `SearchAssumption` (some text matches nothing: no name contains the empty text, as
  `contains` has it), `ReviewsAssumption` (a name leads to a path),
  `NotificationsAssumption` (a minute has a tick), `DirectionsAssumption`
  (distinct constants).
* `WritersAssumption` (the three triggers of level 0 are in order, as in
  `dbformat.h`), `RecoveryAssumption`, `CompactionAssumption` (two levels at least,
  triggers and limits above 0, sequence numbers that fit, recovered tables that are
  finite and not empty), `RecoveredAssumption` (the databases to start from are in
  order themselves), `ListAssumption` (keys are positive numbers, heights
  start at 1), `IteratorsAssumption` (keys are positive numbers, there is a child),
  `TableCacheAssumption` (the hash gives numbers and a file's shard is one of them;
  finitely many readers), `LocksAssumption` (`NoProcess` is not a process),
  `EnvironmentAssumption` (the buffer has room for a byte, finitely many openers).

### Only model-checked

* Liveness: `EveryTapServed`, `EveryWaitEnds`. Liveness under fairness and
  `ENABLED` are beyond the provers.
* `ReadsRight`: that every get and scan at a live snapshot gives what was written
  rests on `VersionsInOrder`, which is proved, and on which entries a compaction may
  drop, which is not.
* The formats (`RecordsReadBack`, `CodingIsRight`, `TablesRight`,
  `DiskCanBeOpened`, `UtilitiesRight`), which are recursive over data. Where a proof
  above needs an induction over numbers it argues from a least counterexample
  (`LeastNumber`, `FirstIndex`), which needs no operator as a parameter; that
  serves for one fact about one recursive function, not for a format.
* Databases with `reuse_logs`, and the runs of the departures.

## 5. Not modelled, and what is left

`Models/Styling.swift` (colours), the empty tests, Firebase and the other
Objective-C pods (third-party; what the app uses of Firebase is external in
`Reviews`), leveldb's dump tool, histogram and test utilities.

The setters of options in the C binding are left out; which handles a call
takes, and who frees what it returns, is in `CBinding`. The accelerated CRC of
the port is not modelled.

Left to do: a composition of the shared schedule with the page and the tab, so
that what a moved section leaves behind is followed to the screen; a proof of
`ReadsRight` from `VersionsInOrder`, with what `DoCompactionWork` may drop; a
composition of `DBWriters` with the files of `DBCompaction`.
