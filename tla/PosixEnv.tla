------------------------------ MODULE PosixEnv ------------------------------
(***************************************************************************)
(* PosixEnv (util/env_posix.cc): the buffer of a PosixWritableFile over a  *)
(* file system whose writes may fail half-way, the limits on memory maps   *)
(* and descriptors of the files that are opened for reading, which threads *)
(* acquire without a lock, the background thread with its queue, and the   *)
(* lock of a database, which threads of several processes want.            *)
(*                                                                         *)
(* A byte is its number in what was appended.                              *)
(***************************************************************************)
EXTENDS Integers, Sequences, FiniteSets

CONSTANTS kWritableFileBufferSize,
          AppendSizes, MaxBytes,   \* sizes; bound: bytes appended in all
          MaxMmaps, MaxOpenFiles, Openers,
          Callers,                 \* of Schedule
          MaxItems                 \* bound: items scheduled in all

ASSUME EnvironmentAssumption ==
  /\ kWritableFileBufferSize \in Nat \ {0} /\ AppendSizes \subseteq Nat
  /\ MaxMmaps \in Nat /\ MaxOpenFiles \in Nat /\ IsFiniteSet(Openers)

VARIABLES
  buf,             \* buf_[0, pos_ - 1]
  on_file,         \* what write() was given and took
  durable,         \* how much of it was synced
  appended,        \* bytes given to Append so far
  io_failed,       \* whether a call has returned an error
  synced_to,       \* bytes appended when Sync last returned OK
  mmap_allowed, fd_allowed,   \* the Limiters
  opener           \* each thread: the file it opens, has open or destroys

fileVars == <<buf, on_file, durable, appended, io_failed, synced_to>>
limitVars == <<mmap_allowed, fd_allowed, opener>>
posixFileVars == <<fileVars, limitVars>>

-----------------------------------------------------------------------------
(* PosixWritableFile                                                       *)

LeastOf(a, b) == IF a < b THEN a ELSE b
Bytes(n) == [i \in 1 .. n |-> appended + i]

(* WriteUnbuffered writes everything, or a part before it fails.           *)
WriteOutcomes(data) ==
  {[file |-> on_file \o data, ok |-> TRUE]}
    \cup {[file |-> on_file \o SubSeq(data, 1, n), ok |-> FALSE] : n \in 0 .. Len(data) - 1}

(* Mutant: a buffer that could not be written is kept.                     *)
AfterFlushKept(ok) == IF ok THEN << >> ELSE buf

(* The buffer is empty afterwards, whether it was written or not.          *)
AfterFlush(ok) == << >>

WritableAppend(n) ==
  LET data == Bytes(n)
      fits == LeastOf(n, kWritableFileBufferSize - Len(buf))
      full == buf \o SubSeq(data, 1, fits)
      rest == SubSeq(data, fits + 1, n)
  IN  /\ appended + n <= MaxBytes
      /\ appended' = appended + n
      /\ IF rest = << >>
         THEN buf' = full /\ UNCHANGED <<on_file, io_failed>>
         ELSE \E w \in WriteOutcomes(full) :
                IF ~ w.ok
                THEN on_file' = w.file /\ buf' = AfterFlush(FALSE) /\ io_failed' = TRUE
                ELSE IF Len(rest) < kWritableFileBufferSize
                THEN on_file' = w.file /\ buf' = rest /\ UNCHANGED io_failed
                ELSE \E m \in 0 .. Len(rest) :
                       /\ on_file' = w.file \o SubSeq(rest, 1, m) /\ buf' = << >>
                       /\ io_failed' = (io_failed \/ m < Len(rest))
      /\ UNCHANGED <<durable, synced_to, limitVars>>

WritableFlush ==
  \E w \in WriteOutcomes(buf) :
    /\ on_file' = w.file /\ buf' = AfterFlush(w.ok)
    /\ io_failed' = (io_failed \/ ~ w.ok)
    /\ UNCHANGED <<durable, appended, synced_to, limitVars>>

(* The directory of a manifest is synced first; then the buffer, then the  *)
(* descriptor.                                                             *)
WritableSync ==
  \/ \E w \in WriteOutcomes(buf) :
       /\ on_file' = w.file /\ buf' = AfterFlush(w.ok)
       /\ IF w.ok
          THEN \/ durable' = Len(w.file) /\ synced_to' = appended /\ UNCHANGED io_failed
               \/ io_failed' = TRUE /\ UNCHANGED <<durable, synced_to>>
          ELSE io_failed' = TRUE /\ UNCHANGED <<durable, synced_to>>
       /\ UNCHANGED <<appended, limitVars>>
  \/ /\ io_failed' = TRUE
     /\ UNCHANGED <<buf, on_file, durable, appended, synced_to, limitVars>>

-----------------------------------------------------------------------------
(* Limiter and NewRandomAccessFile.  Acquire takes one, and if there was   *)
(* none gives it back in a second step.                                    *)

NewRandomAccessFile(t) ==
  /\ opener[t] = "none"
  /\ mmap_allowed' = mmap_allowed - 1
  /\ opener' = [opener EXCEPT ![t] = IF mmap_allowed > 0 THEN "mapping" ELSE "no_mmap"]
  /\ UNCHANGED <<fd_allowed, fileVars>>

(* Mutant: the right to a map is kept when mmap fails.                     *)
MmapFailsKeepsRight(t) ==
  /\ opener[t] = "mapping"
  /\ opener' = [opener EXCEPT ![t] = "none"]
  /\ UNCHANGED <<mmap_allowed, fd_allowed, fileVars>>

MmapFails(t) ==
  /\ opener[t] = "mapping"
  /\ mmap_allowed' = mmap_allowed + 1
  /\ opener' = [opener EXCEPT ![t] = "none"]
  /\ UNCHANGED <<fd_allowed, fileVars>>

MmapSucceeds(t) ==
  /\ opener[t] = "mapping"
  /\ opener' = [opener EXCEPT ![t] = "mapped"]
  /\ UNCHANGED <<mmap_allowed, fd_allowed, fileVars>>

GiveBackMmap(t) ==
  /\ opener[t] = "no_mmap"
  /\ mmap_allowed' = mmap_allowed + 1
  /\ opener' = [opener EXCEPT ![t] = "want_fd"]
  /\ UNCHANGED <<fd_allowed, fileVars>>

AcquireFd(t) ==
  /\ opener[t] = "want_fd"
  /\ fd_allowed' = fd_allowed - 1
  /\ opener' = [opener EXCEPT ![t] = IF fd_allowed > 0 THEN "permanent_fd" ELSE "no_fd"]
  /\ UNCHANGED <<mmap_allowed, fileVars>>

(* The file is opened again for every read.                                *)
GiveBackFd(t) ==
  /\ opener[t] = "no_fd"
  /\ fd_allowed' = fd_allowed + 1
  /\ opener' = [opener EXCEPT ![t] = "opened_per_read"]
  /\ UNCHANGED <<mmap_allowed, fileVars>>

(* The destructors of the three kinds of file.                             *)
DestroyRandomAccessFile(t) ==
  /\ opener[t] \in {"mapped", "permanent_fd", "opened_per_read"}
  /\ mmap_allowed' = mmap_allowed + (IF opener[t] = "mapped" THEN 1 ELSE 0)
  /\ fd_allowed' = fd_allowed + (IF opener[t] = "permanent_fd" THEN 1 ELSE 0)
  /\ opener' = [opener EXCEPT ![t] = "none"]
  /\ UNCHANGED fileVars

-----------------------------------------------------------------------------
PosixFilesInit ==
  /\ buf = << >> /\ on_file = << >> /\ durable = 0 /\ appended = 0
  /\ io_failed = FALSE /\ synced_to = 0
  /\ mmap_allowed = MaxMmaps /\ fd_allowed = MaxOpenFiles
  /\ opener = [t \in Openers |-> "none"]

WritableNext ==
  \/ \E n \in AppendSizes : WritableAppend(n)
  \/ WritableFlush
  \/ WritableSync

LimitsNext ==
  \E t \in Openers :
    \/ NewRandomAccessFile(t) \/ MmapFails(t) \/ MmapSucceeds(t) \/ GiveBackMmap(t)
    \/ AcquireFd(t) \/ GiveBackFd(t) \/ DestroyRandomAccessFile(t)

-----------------------------------------------------------------------------
(* The background thread: Schedule starts it once, signals it when the     *)
(* queue is empty and adds the item, all under background_work_mutex_; the *)
(* thread waits while the queue is empty and runs what it takes from it    *)
(* without the mutex.                                                      *)

VARIABLES
  started_background_thread,
  background_work_queue,
  thread,          \* "none", "waiting", "awake" or "running"
  executing,       \* the item that is run
  scheduled, ran   \* the items scheduled and run so far, in order

threadVars == <<started_background_thread, background_work_queue, thread, executing, scheduled, ran>>

(* Mutant: the signal is left to the caller who finds work in the queue.   *)
WakesNonEmpty == background_work_queue # << >>

(* The queue was empty: the thread may be waiting.                         *)
Wakes == background_work_queue = << >>

Schedule(caller) ==
  LET item == <<caller, Len(scheduled) + 1>> IN
  /\ Len(scheduled) < MaxItems
  /\ started_background_thread' = TRUE
  /\ thread' = IF ~ started_background_thread \/ (Wakes /\ thread = "waiting") THEN "awake"
               ELSE thread
  /\ background_work_queue' = Append(background_work_queue, item)
  /\ scheduled' = Append(scheduled, item)
  /\ UNCHANGED <<executing, ran>>

(* The loop around Wait, and the item at the front.                        *)
BackgroundThreadMain ==
  /\ thread = "awake"
  /\ IF background_work_queue = << >>
     THEN thread' = "waiting" /\ UNCHANGED <<background_work_queue, executing>>
     ELSE /\ thread' = "running"
          /\ executing' = <<Head(background_work_queue)>>
          /\ background_work_queue' = Tail(background_work_queue)
  /\ UNCHANGED <<started_background_thread, scheduled, ran>>

BackgroundWorkDone ==
  /\ thread = "running" /\ thread' = "awake"
  /\ ran' = ran \o executing /\ executing' = << >>
  /\ UNCHANGED <<started_background_thread, background_work_queue, scheduled>>

ThreadInit ==
  /\ started_background_thread = FALSE /\ background_work_queue = << >>
  /\ thread = "none" /\ executing = << >> /\ scheduled = << >> /\ ran = << >>

ThreadNext ==
  \/ \E caller \in Callers : Schedule(caller)
  \/ BackgroundThreadMain
  \/ BackgroundWorkDone

-----------------------------------------------------------------------------
(* LockFile and UnlockFile, for the LOCK file of one database.  Each system*)
(* call and each use of the process's lock table is a step.  The kernel's  *)
(* lock belongs to a process and, as fcntl's locks do, goes away when the  *)
(* process closes any descriptor of the file.                              *)

CONSTANTS Processes, Threads, NoProcess

ASSUME LocksAssumption == NoProcess \notin Processes

VARIABLES
  locked_files,    \* the processes whose PosixLockTable has the file
  kernel_lock,     \* the process that holds the kernel's lock, or NoProcess
  locker,          \* where each thread of each process is
  bereft           \* history: who holds the lock of LockFile, while its
                   \* process has closed another descriptor of the file

lockVars == <<locked_files, kernel_lock, locker, bereft>>

Lockers == Processes \X Threads
Go(c, to) == locker' = [locker EXCEPT ![c] = to]

OpenLockFile(c) ==
  /\ locker[c] = "idle" /\ Go(c, "opened")
  /\ UNCHANGED <<locked_files, kernel_lock, bereft>>

(* Mutant: a file that is locked already is locked once more.              *)
LockTableInsertTwice(c) ==
  /\ locker[c] = "opened"
  /\ locked_files' = locked_files \cup {c[1]} /\ Go(c, "inserted")
  /\ UNCHANGED <<kernel_lock, bereft>>

LockTableInsert(c) ==
  /\ locker[c] = "opened"
  /\ Go(c, IF c[1] \in locked_files THEN "refused" ELSE "inserted")
  /\ locked_files' = locked_files \cup {c[1]}
  /\ UNCHANGED <<kernel_lock, bereft>>

(* Mutant: what LockOrUnlock returns is not looked at.                     *)
LockKernelUnchecked(c) ==
  /\ locker[c] = "inserted" /\ Go(c, "holding")
  /\ kernel_lock' = IF kernel_lock = NoProcess THEN c[1] ELSE kernel_lock
  /\ UNCHANGED <<locked_files, bereft>>

(* LockOrUnlock: the kernel gives the lock to one process.                 *)
LockKernel(c) ==
  /\ locker[c] = "inserted"
  /\ IF kernel_lock \in {c[1], NoProcess}
     THEN kernel_lock' = c[1] /\ Go(c, "holding")
     ELSE Go(c, "failed") /\ UNCHANGED kernel_lock
  /\ UNCHANGED <<locked_files, bereft>>

Holding == {c \in Lockers : locker[c] = "holding"}

(* What close(fd) does, in a process that may have the file open elsewhere.*)
Close(p) ==
  /\ kernel_lock' = IF kernel_lock = p THEN NoProcess ELSE kernel_lock
  /\ bereft' = bereft \cup {c \in Holding : c[1] = p}

CloseRefused(c) ==
  /\ locker[c] = "refused" /\ Go(c, "idle")
  /\ Close(c[1])
  /\ UNCHANGED locked_files

CloseFailed(c) ==
  /\ locker[c] = "failed" /\ Go(c, "closed")
  /\ Close(c[1])
  /\ UNCHANGED locked_files

LockTableRemove(c) ==
  /\ locker[c] \in {"closed", "unlocked"}
  /\ Go(c, IF locker[c] = "closed" THEN "idle" ELSE "removed")
  /\ locked_files' = locked_files \ {c[1]}
  /\ UNCHANGED <<kernel_lock, bereft>>

(* UnlockFile: the kernel's lock first, then the table, then close.        *)
UnlockKernel(c) ==
  /\ locker[c] = "holding" /\ Go(c, "unlocked")
  /\ kernel_lock' = IF kernel_lock = c[1] THEN NoProcess ELSE kernel_lock
  /\ bereft' = bereft \ {c}
  /\ UNCHANGED locked_files

CloseUnlocked(c) ==
  /\ locker[c] = "removed" /\ Go(c, "idle")
  /\ Close(c[1])
  /\ UNCHANGED locked_files

LocksInit ==
  /\ locked_files = {} /\ kernel_lock = NoProcess /\ bereft = {}
  /\ locker = [c \in Lockers |-> "idle"]

LocksNext ==
  \E c \in Lockers :
    \/ OpenLockFile(c) \/ LockTableInsert(c) \/ LockKernel(c)
    \/ CloseRefused(c) \/ CloseFailed(c) \/ LockTableRemove(c)
    \/ UnlockKernel(c) \/ CloseUnlocked(c)

LocksSpec == LocksInit /\ [][LocksNext]_lockVars

-----------------------------------------------------------------------------
(* The parts share nothing; their steps interleave.                        *)

environmentVars == <<posixFileVars, threadVars, lockVars>>

EnvironmentInit == PosixFilesInit /\ ThreadInit /\ LocksInit

EnvironmentNext ==
  \/ (WritableNext \/ LimitsNext) /\ UNCHANGED <<threadVars, lockVars>>
  \/ ThreadNext /\ UNCHANGED <<posixFileVars, lockVars>>
  \/ LocksNext /\ UNCHANGED <<posixFileVars, threadVars>>

EnvironmentSpec == EnvironmentInit /\ [][EnvironmentNext]_environmentVars

-----------------------------------------------------------------------------
(* Properties.                                                             *)

(* The file is what was appended, in order, as long as no call failed, and *)
(* what Sync answered for is durable; after a failure bytes may be missing *)
(* but none is written twice or out of order (PosixWritableFile).          *)
FileIsInOrder ==
  /\ \A i, j \in DOMAIN on_file : i < j => on_file[i] < on_file[j]
  /\ ~ io_failed => on_file \o buf = [i \in 1 .. appended |-> i] /\ synced_to <= durable

(* However the steps of acquiring and giving back interleave, no more maps *)
(* and descriptors are in use than allowed, and none is lost (Limiter).    *)
LimitsHold ==
  LET In(S) == Cardinality({t \in Openers : opener[t] \in S}) IN
  /\ In({"mapping", "mapped"}) <= MaxMmaps /\ In({"permanent_fd"}) <= MaxOpenFiles
  /\ mmap_allowed = MaxMmaps - In({"mapping", "mapped", "no_mmap"})
  /\ fd_allowed = MaxOpenFiles - In({"permanent_fd", "no_fd"})

(* No work is lost or waits while the thread sleeps, and items run in the  *)
(* order in which they were scheduled, once each (PosixEnv::Schedule).     *)
NoWorkForgotten ==
  /\ scheduled = ran \o executing \o background_work_queue
  /\ background_work_queue # << >> => thread \in {"awake", "running"}

(* Of the threads of a process at most one holds the lock, which the       *)
(* kernel's lock alone would not ensure (PosixLockTable).                  *)
OneThreadHolds == \A c, d \in Holding : c[1] = d[1] => c = d

(* LockFile fails if somebody else holds the lock (include/leveldb/env.h,  *)
(* "If somebody else already holds the lock, finishes immediately with a   *)
(* failure"): of two who hold it, one has lost the kernel's lock because   *)
(* another thread of its process closed a descriptor of the file, after a  *)
(* refused LockFile or at the end of UnlockFile.                           *)
LockIsExclusive == \A c, d \in Holding : c # d => c \in bereft \/ d \in bereft

(* What PosixEnv shares between threads without a lock or beyond one       *)
(* process: the lock of LockFile, the queue of the background thread, the  *)
(* limits, and the buffer of a file.                                       *)
EnvironmentRight ==
  /\ LockIsExclusive
  /\ NoWorkForgotten
  /\ FileIsInOrder
  /\ LimitsHold

=============================================================================
