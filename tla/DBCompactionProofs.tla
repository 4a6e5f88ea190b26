------------------------- MODULE DBCompactionProofs -------------------------
(***************************************************************************)
(* What DBCompaction shows on a small instance, for any keys, levels,      *)
(* limits and databases to start from.                                     *)
(*                                                                         *)
(* Three invariants, each resting on the one before.  Background work is   *)
(* kept (WorkInv).  Versions describe the tables on disk (LiveInv).  And   *)
(* versions stay in order (OrderInv): the inputs of a compaction leave no  *)
(* gap in the range they span, what is left out of the next level lies to  *)
(* one side of them all, what is left out of their own level is newer, and *)
(* this stays so while it runs and flushes add files.                      *)
(***************************************************************************)
EXTENDS DBCompaction, ListLemmas

-----------------------------------------------------------------------------
(* Background work is neither forgotten nor withdrawn.                     *)

(* What is known of the record of a caller of CompactRange; the rest of it *)
(* does not matter here.                                                   *)
CallerShape == "pc" \in DOMAIN caller /\ "done" \in DOMAIN caller

(* Whatever the thread works at, it is scheduled; a range that is          *)
(* registered is the one its caller waits for.                             *)
WorkInv ==
  /\ WorkIsScheduled
  /\ flush # {} \/ work # {} => scheduled
  /\ CallerShape
  /\ manual => caller.pc = "range" /\ ~ caller.done
  /\ \A w \in work : "is_manual" \in DOMAIN w /\ (w.is_manual /\ ~ bg_error => manual)

(* The steps that change nothing of it but may find more to do.            *)
LEMMA FindsWork ==
  ASSUME WorkInv, MaybeScheduleCompaction, bg_error' = bg_error, flush' = flush, work' = work
  PROVE  WorkIsScheduled' /\ (flush' # {} \/ work' # {} => scheduled')
BY DEF WorkInv, WorkIsScheduled, MaybeScheduleCompaction

(* The end of BackgroundCall looks for more to do.                         *)
LEMMA DoneFindsWork ==
  ASSUME BackgroundDone, flush' = {}, work' = {}
  PROVE  WorkIsScheduled' /\ (flush' # {} \/ work' # {} => scheduled')
BY DEF WorkIsScheduled, BackgroundDone

(* Calls of the interface: Write and MakeRoomForWrite schedule what they   *)
(* fill, reads and samples what they charge.                               *)
LEMMA ClientKeepsWork ==
  ASSUME WorkInv, Client
  PROVE  WorkInv'
<1> USE DEF clientVars, memVars, fileVars, versionVars, bgVars, callVars
<1>1. ASSUME NEW k \in Keys, NEW type \in {kTypeDeletion, kTypeValue}, Write(k, type)
      PROVE  WorkInv'
  BY <1>1 DEF Write, WorkInv, WorkIsScheduled, CallerShape
<1>2. CASE WriteFails
  BY <1>2 DEF WriteFails, WorkInv, WorkIsScheduled, CallerShape
<1>3. CASE MakeRoomForWrite
  BY <1>3, FindsWork DEF MakeRoomForWrite, SwitchMemTable, WorkInv, CallerShape
<1>4. CASE GetSnapshot
  BY <1>4 DEF GetSnapshot, WorkInv, WorkIsScheduled, CallerShape
<1>5. ASSUME NEW i \in DOMAIN snapshots, ReleaseSnapshot(i)
      PROVE  WorkInv'
  BY <1>5 DEF ReleaseSnapshot, WorkInv, WorkIsScheduled, CallerShape
<1>6. CASE BeginRead
  BY <1>6 DEF BeginRead, WorkInv, WorkIsScheduled, CallerShape
<1>7. ASSUME NEW r \in reader, NEW charged, EndRead(r, charged)
      PROVE  WorkInv'
  BY <1>7, FindsWork DEF EndRead, WorkInv, CallerShape
<1>8. ASSUME NEW ikey, RecordReadSample(ikey)
      PROVE  WorkInv'
  BY <1>8, FindsWork DEF RecordReadSample, WorkInv, CallerShape
<1>9. ASSUME NEW begin \in Keys, NEW end \in Keys, CompactRangeCall(begin, end)
      PROVE  WorkInv'
  <2>1. ~ manual
    BY <1>9 DEF CompactRangeCall, WorkInv
  <2>2. CallerShape'
    BY <1>9 DEF CompactRangeCall, CallerShape
  <2> QED
    BY <1>9, <2>1, <2>2 DEF CompactRangeCall, WorkInv, WorkIsScheduled
<1> QED
  BY <1>1, <1>2, <1>3, <1>4, <1>5, <1>6, <1>7, <1>8, <1>9 DEF Client

(* The steps of CompactRange: it registers a range only while it waits for *)
(* it, and goes on when the range is done or an error is set.              *)
LEMMA CallerKeepsWork ==
  ASSUME WorkInv, Caller
  PROVE  WorkInv'
<1> USE DEF clientVars, memVars, fileVars, versionVars, bgVars, callVars
<1>1. CASE CallerWrites
  <2>1. /\ caller.pc = "write" /\ caller' = [caller EXCEPT !.pc = "memtable"] /\ manual' = manual
        /\ flush' = flush /\ work' = work /\ bg_error' = bg_error
    BY <1>1 DEF CallerWrites, SwitchMemTable
  <2>2. ~ manual /\ CallerShape'
    BY <2>1 DEF WorkInv, CallerShape
  <2>3. WorkIsScheduled' /\ (flush' # {} \/ work' # {} => scheduled')
    <3>1. CASE SwitchMemTable
      BY <2>1, <3>1, FindsWork DEF SwitchMemTable
    <3>2. CASE ~ SwitchMemTable
      BY <1>1, <3>2 DEF CallerWrites, WorkInv, WorkIsScheduled
    <3> QED
      BY <3>1, <3>2
  <2> QED
    BY <2>1, <2>2, <2>3 DEF WorkInv
<1>2. CASE CallerMemTableDone
  <2>1. caller.pc \in {"write", "memtable"} /\ caller' = [caller EXCEPT !.pc = "range"]
    BY <1>2 DEF CallerMemTableDone
  <2>2. ~ manual /\ CallerShape'
    BY <2>1 DEF WorkInv, CallerShape
  <2> QED
    BY <1>2, <2>2 DEF CallerMemTableDone, WorkInv, WorkIsScheduled
<1>3. CASE CallerRegisters
  <2>1. caller.pc = "range" /\ ~ caller.done /\ caller' = caller /\ CallerShape'
    BY <1>3 DEF CallerRegisters, WorkInv, CallerShape
  <2> QED
    BY <1>3, <2>1, FindsWork DEF CallerRegisters, WorkInv
<1>4. CASE CallerLevelDone
  <2>1. CallerShape'
    <3>1. \/ caller' = [caller EXCEPT !.level = @ + 1, !.from = caller.begin, !.done = FALSE]
          \/ caller' = [caller EXCEPT !.pc = "idle"]
      BY <1>4 DEF CallerLevelDone
    <3>2. CASE caller' = [caller EXCEPT !.level = @ + 1, !.from = caller.begin, !.done = FALSE]
      BY <3>2 DEF WorkInv, CallerShape
    <3>3. CASE caller' = [caller EXCEPT !.pc = "idle"]
      BY <3>3 DEF WorkInv, CallerShape
    <3> QED
      BY <3>1, <3>2, <3>3
  <2>2. ~ bg_error => \A w \in work : ~ w.is_manual
    BY <1>4 DEF CallerLevelDone, WorkInv
  <2>3. WorkIsScheduled'
    BY <1>4 DEF CallerLevelDone, WorkInv, WorkIsScheduled, WorkToDo
  <2> QED
    BY <1>4, <2>1, <2>2, <2>3 DEF CallerLevelDone, WorkInv
<1> QED
  BY <1>1, <1>2, <1>3, <1>4 DEF Caller

(* A flush within a compaction leaves the thread scheduled; one of its own *)
(* ends the call of BackgroundCall.                                        *)
LEMMA FlushKeepsWork ==
  ASSUME WorkInv, NEW fl \in flush, FlushInstalls(fl) \/ FlushFails(fl)
  PROVE  WorkInv'
<1> USE DEF clientVars, memVars, fileVars, versionVars, bgVars, callVars
<1>1. /\ flush' = {} /\ work' = work /\ manual' = manual /\ caller' = caller
      /\ IF work = {} THEN BackgroundDone ELSE scheduled' = scheduled
      /\ bg_error => bg_error'
  BY DEF FlushInstalls, FlushFails
<1>2. bg_error' \/ imm' = {}
  BY DEF FlushInstalls, FlushFails
<1>3. CallerShape'
  BY <1>1 DEF WorkInv, CallerShape
<1>4. WorkIsScheduled' /\ (flush' # {} \/ work' # {} => scheduled')
  <2>1. CASE work = {}
    BY <1>1, <2>1, DoneFindsWork
  <2>2. CASE work # {}
    BY <1>1, <2>2 DEF WorkInv, WorkIsScheduled
  <2> QED
    BY <2>1, <2>2
<1> QED
  BY <1>1, <1>3, <1>4 DEF WorkInv

(* The steps of a compaction.                                              *)
LEMMA CompactionKeepsWork ==
  ASSUME WorkInv, NEW w \in work, CompactKey(w) \/ WorkInstalls(w) \/ WorkFails(w)
  PROVE  WorkInv'
<1> USE DEF clientVars, memVars, fileVars, versionVars, bgVars, callVars
<1>1. CASE CompactKey(w)
  <2>1. /\ scheduled' = scheduled /\ flush' = flush /\ bg_error' = bg_error /\ manual' = manual
        /\ caller' = caller /\ imm' = imm /\ current' = current
        /\ file_to_compact' = file_to_compact
    BY <1>1 DEF CompactKey
  <2>2. PICK v : work' = {v} /\ "is_manual" \in DOMAIN v /\ v.is_manual = w.is_manual
    <3> DEFINE ikey == Smallest(w.input)
               stop == ShouldStopBefore(w.c, w.scan, ikey)
               still == w.open /\ ~ stop.stop
               number == IF still THEN Last(w.outputs) ELSE next_file_number
               entries == IF still THEN tables[number] \cup {ikey} ELSE {ikey}
               input == w.input \ {ikey}
               outputs == IF Drop(w, ikey) \/ still THEN w.outputs ELSE Append(w.outputs, number)
               open == IF Drop(w, ikey) THEN still ELSE Cardinality(entries) < TargetFileSize
    <3>1. PICK key, last, scan :
            work' = {[w EXCEPT !.input = input, !.key = key, !.last_sequence_for_key = last,
                               !.scan = scan, !.outputs = outputs, !.open = open]}
      BY <1>1 DEF CompactKey
    <3> HIDE DEF input, outputs, open
    <3> DEFINE v == [w EXCEPT !.input = input, !.key = key, !.last_sequence_for_key = last,
                               !.scan = scan, !.outputs = outputs, !.open = open]
    <3>2. "is_manual" \in DOMAIN w
      BY DEF WorkInv
    <3>3. DOMAIN v = DOMAIN w /\ v.is_manual = w.is_manual
      BY <3>2
    <3> HIDE DEF v
    <3>4. work' = {v} /\ "is_manual" \in DOMAIN v /\ v.is_manual = w.is_manual
      BY <3>1, <3>2, <3>3 DEF v
    <3> QED
      BY <3>4
  <2>3. CallerShape'
    BY <2>1 DEF WorkInv, CallerShape
  <2> QED
    BY <2>1, <2>2, <2>3 DEF WorkInv, WorkIsScheduled
<1>2. CASE WorkInstalls(w) \/ WorkFails(w)
  <2>1. PICK ok \in BOOLEAN : FinishWork(w, ok)
    BY <1>2 DEF WorkInstalls, WorkFails
  <2>2. flush' = {} /\ work' = {} /\ BackgroundDone
    BY <1>2, <2>1 DEF WorkInstalls, WorkFails, FinishWork
  <2>3. WorkIsScheduled' /\ (flush' # {} \/ work' # {} => scheduled')
    BY <2>2, DoneFindsWork
  <2>4. CallerShape' /\ (caller'.pc = caller.pc)
    <3>1. \/ caller' = caller
          \/ caller' = [caller EXCEPT !.from = Last(w.c.inputs[1]).largest.key]
          \/ caller' = [caller EXCEPT !.done = TRUE]
      BY <2>1 DEF FinishWork
    <3>2. CASE caller' = caller
      BY <3>2 DEF WorkInv, CallerShape
    <3>3. CASE caller' = [caller EXCEPT !.from = Last(w.c.inputs[1]).largest.key]
      BY <3>3 DEF WorkInv, CallerShape
    <3>4. CASE caller' = [caller EXCEPT !.done = TRUE]
      BY <3>4 DEF WorkInv, CallerShape
    <3> QED
      BY <3>1, <3>2, <3>3, <3>4
  <2>5. manual' => manual /\ caller' = caller
    BY <2>1 DEF FinishWork
  <2> QED
    BY <2>2, <2>3, <2>4, <2>5 DEF WorkInv
<1> QED
  BY <1>1, <1>2

(* The steps of BackgroundCall: each either leaves the thread scheduled or *)
(* ends with MaybeScheduleCompaction.                                      *)
LEMMA BackgroundKeepsWork ==
  ASSUME WorkInv, Background
  PROVE  WorkInv'
<1> USE DEF clientVars, memVars, fileVars, versionVars, bgVars, callVars
<1>1. CASE FlushBegins
  BY <1>1 DEF FlushBegins, WorkInv, WorkIsScheduled, CallerShape
<1>2. CASE BackgroundIdles
  <2>1. CallerShape'
    BY <1>2 DEF BackgroundIdles, WorkInv, CallerShape
  <2> QED
    BY <1>2, <2>1, DoneFindsWork DEF BackgroundIdles, WorkInv
<1>3. CASE NothingToCompact
  <2>1. CallerShape'
    BY <1>3 DEF NothingToCompact, WorkInv, CallerShape
  <2> QED
    BY <1>3, <2>1, DoneFindsWork DEF NothingToCompact, BackgroundStarts, WorkInv
<1>4. ASSUME NEW c, TrivialMove(c)
      PROVE  WorkInv'
  <2>1. CallerShape' /\ flush' = {} /\ work' = {} /\ manual' = manual /\ caller' = caller
    BY <1>4 DEF TrivialMove, BackgroundStarts, WorkInv, CallerShape
  <2>2. BackgroundDone
    BY <1>4 DEF TrivialMove
  <2> QED
    BY <2>1, <2>2, DoneFindsWork DEF WorkInv
<1>5. ASSUME NEW c, DoCompactionWork(c)
      PROVE  WorkInv'
  <2>1. CallerShape' /\ scheduled /\ scheduled' = scheduled /\ manual' = manual
        /\ caller' = caller
    BY <1>5 DEF DoCompactionWork, BackgroundStarts, WorkInv, CallerShape
  <2>2. PICK v : work' = {v} /\ "is_manual" \in DOMAIN v /\ v.is_manual = manual
    <3>1. PICK input, smallest, last, scan, outputs, open :
            work' = {[c |-> c, is_manual |-> manual, input |-> input,
                      smallest_snapshot |-> smallest, key |-> 0, last_sequence_for_key |-> last,
                      scan |-> scan, outputs |-> outputs, open |-> open]}
      BY <1>5 DEF DoCompactionWork
    <3> DEFINE v == [c |-> c, is_manual |-> manual, input |-> input,
                     smallest_snapshot |-> smallest, key |-> 0, last_sequence_for_key |-> last,
                     scan |-> scan, outputs |-> outputs, open |-> open]
    <3>2. "is_manual" \in DOMAIN v /\ v.is_manual = manual
      OBVIOUS
    <3> HIDE DEF v
    <3>3. work' = {v}
      BY <3>1 DEF v
    <3> QED
      BY <3>2, <3>3
  <2> QED
    BY <2>1, <2>2 DEF WorkInv, WorkIsScheduled
<1> QED
  BY <1>1, <1>2, <1>3, <1>4, <1>5, FlushKeepsWork, CompactionKeepsWork DEF Background

(* The invariant holds of every reachable state.                           *)
LEMMA WorkHolds == Spec => []WorkInv
<1>1. Init => WorkInv
  BY DEF Init, WorkInv, WorkIsScheduled, WorkToDo, CallerShape
<1>2. WorkInv /\ [Next]_vars => WorkInv'
  <2>1. ASSUME WorkInv, UNCHANGED vars
        PROVE  WorkInv'
    BY <2>1 DEF WorkInv, WorkIsScheduled, CallerShape, vars, clientVars, memVars, fileVars,
       versionVars, bgVars, callVars
  <2> QED
    BY <2>1, ClientKeepsWork, CallerKeepsWork, BackgroundKeepsWork DEF Next
<1> QED
  BY <1>1, <1>2, PTL DEF Spec

(* A memtable that is full, a range that is registered or a level that is  *)
(* over its limit always finds the background thread scheduled             *)
(* (MaybeScheduleCompaction), and the caller of CompactRange never         *)
(* withdraws a range that a compaction works at (manual_compaction_),      *)
(* unless a background error is set.                                       *)
THEOREM WorkIsKept == Spec => []BackgroundWorkKept
<1>1. WorkInv => BackgroundWorkKept
  BY DEF WorkInv, BackgroundWorkKept, RangeStaysRegistered
<1> QED
  BY <1>1, WorkHolds, PTL

-----------------------------------------------------------------------------
(* Files that versions name exist: the inductive invariant.                *)

Memtable(m) == m \subseteq Entry /\ IsFiniteSet(m)
TablesRight(T) ==
  /\ DOMAIN T \subseteq Nat
  /\ \A n \in DOMAIN T : Memtable(T[n]) /\ T[n] # {}

(* The files a set of tables makes.                                        *)
Files(T) == {TableFile(n, T[n]) : n \in DOMAIN T}

VersionRight(v, T) ==
  /\ v \in [Levels -> Seq(Files(T))]
  /\ \A level \in Levels : \A i, j \in 1 .. Len(v[level]) :
       i < j => BySmallestKey(v[level][i], v[level][j])

NumbersIn(v) == {f.number : f \in FilesOf(v)}
InputVersions == {w.c.version : w \in work}
Referenced == {current} \cup {r.version : r \in reader} \cup InputVersions

MemInv ==
  /\ last_sequence \in Nat
  /\ Memtable(mem) /\ \A m \in imm : Memtable(m)
  /\ imm = {} \/ \E m \in imm : imm = {m}

VersionsInv ==
  /\ TablesRight(tables)
  /\ next_file_number \in Nat
  /\ \A v \in Referenced :
       /\ VersionRight(v, tables)
       /\ \A n \in NumbersIn(v) : n < next_file_number

(* A reader that may charge a file holds the version it is a file of.      *)
ReaderInv ==
  /\ \A r \in reader : {"version", "newest"} \subseteq DOMAIN r
                       /\ (r.newest => r.version = current)
  /\ \A c \in file_to_compact :
       c.level \in 0 .. kNumLevels - 2 /\ c.file \in Range(current[c.level])

(* No version names a table that is still being written, and none that is  *)
(* being written is taken for another.                                     *)
FlushInv ==
  /\ flush = {} \/ \E fl \in flush : flush = {fl}
  /\ \A fl \in flush :
       /\ imm # {} /\ fl.number \in Nat /\ fl.number < next_file_number
       /\ \A v \in Referenced : fl.number \notin NumbersIn(v)

OutputsInv ==
  /\ work = {} \/ \E w \in work : work = {w}
  /\ \A w \in work :
       /\ {"c", "input", "outputs", "open"} \subseteq DOMAIN w
       /\ Memtable(w.input)
       /\ w.outputs \in Seq(Nat) /\ (w.open => w.outputs # << >>)
       /\ \A n \in Range(w.outputs) :
            /\ n \in DOMAIN tables /\ n \in pending_outputs /\ n < next_file_number
            /\ \A v \in Referenced : n \notin NumbersIn(v)
            /\ \A fl \in flush : n # fl.number

CallerInv ==
  /\ {"pc", "level", "max", "done"} \subseteq DOMAIN caller
  /\ caller.level \in 0 .. kNumLevels - 2 /\ caller.max \in 0 .. kNumLevels - 1

LiveInv ==
  MemInv /\ VersionsInv /\ ReaderInv /\ FlushInv /\ OutputsInv /\ CallerInv

-----------------------------------------------------------------------------
(* Lemmas: entries and files in order.                                     *)

LessOn(S) == {p \in S \X S : Less(p[1], p[2])}

(* Internal keys are in a strict and total order.                          *)
LEMMA LessIsOrder ==
  ASSUME NEW S, S \subseteq Entry
  PROVE  StrictOrder(S, LessOn(S))
<1>1. \A a \in S : a \in [key : Nat, seq : Nat, type : {0, 1}]
  BY CompactionAssumption DEF Entry, kTypeDeletion, kTypeValue
<1>2. \A a, b \in S : <<a, b>> \in LessOn(S) <=> Less(a, b)
  BY DEF LessOn
<1>3. \A a \in S : ~ Less(a, a)
  BY <1>1 DEF Less, PackSequenceAndType
<1>4. \A a, b, c \in S : Less(a, b) /\ Less(b, c) => Less(a, c)
  BY <1>1 DEF Less, PackSequenceAndType
<1>5. ASSUME NEW a \in S, NEW b \in S, a # b
      PROVE  Less(a, b) \/ Less(b, a)
  <2>1. /\ a.key \in Nat /\ a.seq \in Nat /\ a.type \in {0, 1}
        /\ b.key \in Nat /\ b.seq \in Nat /\ b.type \in {0, 1}
    BY <1>1
  <2>2. a.key # b.key \/ a.seq # b.seq \/ a.type # b.type
    BY <1>1, <1>5
  <2> QED
    BY <2>1, <2>2 DEF Less, PackSequenceAndType
<1> QED
  BY <1>2, <1>3, <1>4, <1>5 DEF StrictOrder

(* A finite set of entries has a smallest one.                             *)
LEMMA SmallestFacts ==
  ASSUME NEW S, Memtable(S), S # {}
  PROVE  Smallest(S) \in S
<1>1. StrictOrder(S, LessOn(S)) /\ IsFiniteSet(S)
  BY LessIsOrder DEF Memtable
<1> DEFINE n == Cardinality(S)
           s == [i \in 1 .. n |-> CHOOSE x \in S : Rank(S, LessOn(S), x) = i - 1]
<1>0. Ranks(s, S, LessOn(S))
  BY DEF Ranks
<1> HIDE DEF s
<1>2. /\ Cardinality(S) \in Nat /\ s \in [1 .. Cardinality(S) -> S]
      /\ \A x \in S : \E i \in 1 .. Cardinality(S) : s[i] = x
      /\ \A i, j \in 1 .. Cardinality(S) : i < j => <<s[i], s[j]>> \in LessOn(S)
  BY <1>0, <1>1, RanksFacts
<1>3. Cardinality(S) # 0
  BY <1>1, FS_EmptySet
<1>4. 1 \in 1 .. Cardinality(S) /\ s[1] \in S
  BY <1>2, <1>3
<1>5. ASSUME NEW f \in S
      PROVE  ~ Less(f, s[1])
  <2>1. PICK i \in 1 .. Cardinality(S) : s[i] = f
    BY <1>2
  <2>2. CASE i = 1
    BY <1>1, <1>4, <2>1, <2>2 DEF StrictOrder, LessOn
  <2>3. CASE i # 1
    <3>1. <<s[1], f>> \in LessOn(S)
      BY <1>2, <1>4, <2>1, <2>3
    <3>2. <<f, s[1]>> \notin LessOn(S)
      BY <1>1, <1>4, <3>1 DEF StrictOrder
    <3> QED
      BY <1>4, <3>2 DEF LessOn
  <2> QED
    BY <2>2, <2>3
<1> QED
  BY <1>4, <1>5 DEF Smallest

(* A file is the metadata of the table of its number.                      *)
LEMMA FilesFacts ==
  ASSUME NEW T, TablesRight(T), NEW f \in Files(T)
  PROVE  /\ f.number \in DOMAIN T /\ f.number \in Nat
         /\ f = TableFile(f.number, T[f.number])
         /\ f.smallest \in Entry
         /\ f.size \in Nat
<1>1. PICK n \in DOMAIN T : f = TableFile(n, T[n])
  BY DEF Files
<1>2. f.number = n /\ f.smallest = Smallest(T[n]) /\ f.size = Cardinality(T[n])
  BY <1>1 DEF TableFile, FileMetaData
<1>3. Smallest(T[n]) \in T[n] /\ T[n] \subseteq Entry /\ IsFiniteSet(T[n])
  BY SmallestFacts DEF TablesRight, Memtable
<1> QED
  BY <1>1, <1>2, <1>3, FS_CardinalityType DEF TablesRight

FilesOn(S) == {p \in S \X S : BySmallestKey(p[1], p[2])}

(* So are files, by their smallest keys and then by their numbers.         *)
LEMMA FilesHaveOrder ==
  ASSUME NEW T, TablesRight(T), NEW S, S \subseteq Files(T)
  PROVE  StrictOrder(S, FilesOn(S))
<1> DEFINE K == {f.smallest : f \in S}
<1>1. K \subseteq Entry
  BY FilesFacts
<1>2. StrictOrder(K, LessOn(K))
  BY <1>1, LessIsOrder
<1>3. \A f \in S : f.number \in Nat /\ f.smallest \in K
  BY FilesFacts
<1>4. /\ \A a \in K : ~ Less(a, a)
      /\ \A a, b, c \in K : Less(a, b) /\ Less(b, c) => Less(a, c)
      /\ \A a, b \in K : a # b => Less(a, b) \/ Less(b, a)
  BY <1>2 DEF StrictOrder, LessOn
<1> HIDE DEF K
<1>5. \A f, g \in S : <<f, g>> \in FilesOn(S) <=> BySmallestKey(f, g)
  BY DEF FilesOn
<1>6. \A f \in S : ~ BySmallestKey(f, f)
  BY <1>3, <1>4 DEF BySmallestKey
<1>7. ASSUME NEW f \in S, NEW g \in S, NEW h \in S, BySmallestKey(f, g), BySmallestKey(g, h)
      PROVE  BySmallestKey(f, h)
  BY <1>3, <1>4, <1>7 DEF BySmallestKey
<1>8. ASSUME NEW f \in S, NEW g \in S, f # g
      PROVE  BySmallestKey(f, g) \/ BySmallestKey(g, f)
  <2>1. f.number # g.number
    BY <1>8, FilesFacts
  <2> QED
    BY <1>3, <1>4, <2>1 DEF BySmallestKey
<1> QED
  BY <1>5, <1>6, <1>7, <1>8 DEF StrictOrder

(* A finite set of files in the order of SaveTo.                           *)
LEMMA FilesInOrder ==
  ASSUME NEW T, TablesRight(T), NEW S, S \subseteq Files(T), IsFiniteSet(S)
  PROVE  /\ InOrder(S, BySmallestKey) \in Seq(S)
         /\ \A i, j \in 1 .. Len(InOrder(S, BySmallestKey)) :
              i < j => BySmallestKey(InOrder(S, BySmallestKey)[i], InOrder(S, BySmallestKey)[j])
         /\ Range(InOrder(S, BySmallestKey)) = S
<1> DEFINE s == InOrder(S, BySmallestKey)
<1>1. Ranks(s, S, FilesOn(S))
  <2>1. \A x \in S : {y \in S : BySmallestKey(y, x)} = Below(S, FilesOn(S), x)
    BY DEF Below, FilesOn
  <2>2. s = [i \in 1 .. Cardinality(S) |->
               CHOOSE x \in S : Cardinality({y \in S : BySmallestKey(y, x)}) = i - 1]
    BY DEF InOrder
  <2> HIDE DEF s
  <2>3. \A x \in S : Cardinality({y \in S : BySmallestKey(y, x)}) = Rank(S, FilesOn(S), x)
    BY <2>1 DEF Rank
  <2>4. ASSUME NEW i \in 1 .. Cardinality(S), NEW x \in S, Rank(S, FilesOn(S), x) = i - 1
        PROVE  s[i] \in S /\ Rank(S, FilesOn(S), s[i]) = i - 1
    <3>1. s[i] = CHOOSE z \in S : Cardinality({y \in S : BySmallestKey(y, z)}) = i - 1
      BY <2>2
    <3>2. Cardinality({y \in S : BySmallestKey(y, x)}) = i - 1
      BY <2>3, <2>4
    <3>3. s[i] \in S /\ Cardinality({y \in S : BySmallestKey(y, s[i])}) = i - 1
      BY <3>1, <3>2
    <3> QED
      BY <2>3, <3>3
  <2>5. s = [i \in 1 .. Cardinality(S) |-> s[i]]
    <3> DEFINE e(i) == CHOOSE x \in S : Cardinality({y \in S : BySmallestKey(y, x)}) = i - 1
    <3>1. s = [i \in 1 .. Cardinality(S) |-> e(i)]
      BY <2>2
    <3> HIDE DEF e
    <3> QED
      BY <3>1
  <2> QED
    BY <2>4, <2>5 DEF Ranks
<1>2. /\ Cardinality(S) \in Nat /\ s \in [1 .. Cardinality(S) -> S]
      /\ \A i, j \in 1 .. Cardinality(S) : i < j => <<s[i], s[j]>> \in FilesOn(S)
      /\ \A x \in S : \E i \in 1 .. Cardinality(S) : s[i] = x
  BY <1>1, FilesHaveOrder, RanksFacts
<1> HIDE DEF s
<1>3. s \in Seq(S) /\ Len(s) = Cardinality(S) /\ DOMAIN s = 1 .. Cardinality(S)
  BY <1>2
<1>4. Range(s) = S
  BY <1>2, <1>3 DEF Range
<1> QED
  BY <1>1, <1>2, <1>3, <1>4 DEF FilesOn, s


(* Finite sets of numbers in order, as places and levels are read.         *)
LEMMA NumbersInOrder ==
  ASSUME NEW P \in SUBSET Nat, IsFiniteSet(P)
  PROVE  LET s == InOrder(P, LAMBDA i, j : i < j)
         IN  /\ s \in Seq(P) /\ Len(s) = Cardinality(P) /\ Range(s) = P
             /\ \A i, j \in 1 .. Len(s) : i < j => s[i] < s[j]
<1> DEFINE R == {p \in P \X P : p[1] < p[2]}
           s == InOrder(P, LAMBDA i, j : i < j)
<1>1. Ranks(s, P, R)
  <2>1. \A x \in P : {y \in P : y < x} = Below(P, R, x)
    BY DEF Below
  <2>2. s = [i \in 1 .. Cardinality(P) |->
               CHOOSE x \in P : Cardinality({y \in P : y < x}) = i - 1]
    BY DEF InOrder
  <2> HIDE DEF s, R
  <2>3. \A x \in P : Cardinality({y \in P : y < x}) = Rank(P, R, x)
    BY <2>1 DEF Rank
  <2>4. ASSUME NEW i \in 1 .. Cardinality(P), NEW x \in P, Rank(P, R, x) = i - 1
        PROVE  s[i] \in P /\ Rank(P, R, s[i]) = i - 1
    <3>1. s[i] = CHOOSE z \in P : Cardinality({y \in P : y < z}) = i - 1
      BY <2>2
    <3>2. Cardinality({y \in P : y < x}) = i - 1
      BY <2>3, <2>4
    <3>3. s[i] \in P /\ Cardinality({y \in P : y < s[i]}) = i - 1
      BY <3>1, <3>2
    <3> QED
      BY <2>3, <3>3
  <2>5. s = [i \in 1 .. Cardinality(P) |-> s[i]]
    <3> DEFINE e(i) == CHOOSE x \in P : Cardinality({y \in P : y < x}) = i - 1
    <3>1. s = [i \in 1 .. Cardinality(P) |-> e(i)]
      BY <2>2
    <3> HIDE DEF e
    <3> QED
      BY <3>1
  <2> QED
    BY <2>4, <2>5 DEF Ranks
<1>2. StrictOrder(P, R)
  <2>1. \A a, b \in P : <<a, b>> \in R <=> a < b
    OBVIOUS
  <2> HIDE DEF R
  <2>2. P \subseteq Nat
    OBVIOUS
  <2> QED
    BY <2>1, <2>2 DEF StrictOrder
<1>3. /\ Cardinality(P) \in Nat /\ s \in [1 .. Cardinality(P) -> P]
      /\ \A i, j \in 1 .. Cardinality(P) : i < j => <<s[i], s[j]>> \in R
      /\ \A x \in P : \E i \in 1 .. Cardinality(P) : s[i] = x
  BY <1>1, <1>2, RanksFacts
<1>4. \A a, b \in P : <<a, b>> \in R => a < b
  OBVIOUS
<1> HIDE DEF s, R
<1>5. s \in Seq(P) /\ Len(s) = Cardinality(P) /\ DOMAIN s = 1 .. Cardinality(P)
  BY <1>3
<1>6. Range(s) = P
  BY <1>3, <1>5 DEF Range
<1> QED
  BY <1>3, <1>4, <1>5, <1>6 DEF s

(* What AtPlaces picks.                                                    *)
LEMMA AtPlacesFacts ==
  ASSUME NEW X, NEW files \in Seq(X), NEW P \in SUBSET (DOMAIN files)
  PROVE  /\ AtPlaces(files, P) \in Seq({files[i] : i \in P})
         /\ Range(AtPlaces(files, P)) = {files[i] : i \in P}
         /\ \A n, m \in 1 .. Len(AtPlaces(files, P)) : n < m =>
              \E i, j \in P : i < j /\ AtPlaces(files, P)[n] = files[i]
                                  /\ AtPlaces(files, P)[m] = files[j]
<1>1. P \subseteq 1 .. Len(files) /\ Len(files) \in Nat
  OBVIOUS
<1>2. IsFiniteSet(P) /\ P \subseteq Nat
  <2>1. IsFiniteSet(1 .. Len(files))
    BY <1>1, FS_Interval
  <2> QED
    BY <1>1, <2>1, FS_Subset
<1> DEFINE at == InOrder(P, LAMBDA i, j : i < j)
<1>3. at \in Seq(P) /\ Range(at) = P /\ \A i, j \in 1 .. Len(at) : i < j => at[i] < at[j]
  BY <1>2, NumbersInOrder
<1>4. AtPlaces(files, P) = [n \in DOMAIN at |-> files[at[n]]]
  BY DEF AtPlaces
<1> HIDE DEF at
<1>5. DOMAIN at = 1 .. Len(at) /\ Len(at) \in Nat /\ \A n \in 1 .. Len(at) : at[n] \in P
  BY <1>3
<1>6. \A i \in P : \E n \in 1 .. Len(at) : at[n] = i
  BY <1>3, <1>5 DEF Range
<1> DEFINE picked == AtPlaces(files, P)
<1>7. /\ DOMAIN picked = 1 .. Len(at) /\ \A n \in 1 .. Len(at) : picked[n] = files[at[n]]
  BY <1>4, <1>5
<1>8. picked \in Seq({files[i] : i \in P}) /\ Len(picked) = Len(at)
  BY <1>4, <1>5
<1> HIDE DEF picked
<1>9. Range(picked) = {files[i] : i \in P}
  BY <1>5, <1>6, <1>7 DEF Range
<1>10. \A n, m \in 1 .. Len(picked) : n < m =>
         \E i, j \in P : i < j /\ picked[n] = files[i] /\ picked[m] = files[j]
  BY <1>3, <1>5, <1>7, <1>8
<1> QED
  BY <1>8, <1>9, <1>10 DEF picked

-------------------------------------------------------------------
(* Lemmas: recursion over an interval.                                     *)

-----------------------------------------------------------------------------
(* Lemmas: the inputs of a compaction are files of the version.            *)

(* GetOverlappingInputs gives files of the level, whatever range it has    *)
(* grown to.                                                               *)
LEMMA OverlappingFacts ==
  ASSUME NEW X, NEW files \in Seq(X), NEW begin, NEW end
  PROVE  /\ Overlapping(files, begin, end) \in Seq(Range(files))
         /\ Range(Overlapping(files, begin, end))
              = {f \in Range(files) : ~ AfterFile(begin, f) /\ ~ BeforeFile(end, f)}
         /\ \A n, m \in 1 .. Len(Overlapping(files, begin, end)) : n < m =>
              \E i, j \in DOMAIN files :
                i < j /\ Overlapping(files, begin, end)[n] = files[i]
                      /\ Overlapping(files, begin, end)[m] = files[j]
<1> DEFINE P == {i \in DOMAIN files : ~ AfterFile(begin, files[i]) /\ ~ BeforeFile(end, files[i])}
<1>1. P \in SUBSET (DOMAIN files)
  OBVIOUS
<1>2. Overlapping(files, begin, end) = AtPlaces(files, P)
  BY DEF Overlapping
<1>5. {files[i] : i \in P} = {f \in Range(files) : ~ AfterFile(begin, f) /\ ~ BeforeFile(end, f)}
  <2> HIDE DEF AfterFile, BeforeFile
  <2> QED
    BY DEF Range
<1> HIDE DEF P
<1>3. /\ AtPlaces(files, P) \in Seq({files[i] : i \in P})
      /\ Range(AtPlaces(files, P)) = {files[i] : i \in P}
      /\ \A n, m \in 1 .. Len(AtPlaces(files, P)) : n < m =>
           \E i, j \in P : i < j /\ AtPlaces(files, P)[n] = files[i]
                               /\ AtPlaces(files, P)[m] = files[j]
  BY <1>1, AtPlacesFacts
<1>4. {files[i] : i \in P} \subseteq Range(files)
  BY <1>1 DEF Range
<1> QED
  BY <1>1, <1>2, <1>3, <1>4, <1>5

(* The same at a level of a version.                                       *)
LEMMA InputsFacts ==
  ASSUME NEW version, NEW level, NEW X, version[level] \in Seq(X), NEW begin, NEW end
  PROVE  GetOverlappingInputs(version, level, begin, end) \in Seq(Range(version[level]))
<1>1. PICK b, e :
        GetOverlappingInputs(version, level, begin, end) = Overlapping(version[level], b, e)
  BY Zenon DEF GetOverlappingInputs
<1> QED
  BY <1>1, OverlappingFacts

(* The same for a range of internal keys.                                  *)
LEMMA InputsOverFacts ==
  ASSUME NEW version, NEW level, NEW X, version[level] \in Seq(X), NEW range
  PROVE  InputsOver(version, level, range) \in Seq(Range(version[level]))
BY InputsFacts DEF InputsOver

(* AddBoundaryInputs adds files of the level: by recursion over its        *)
(* rounds.                                                                 *)
LEMMA BoundaryFacts ==
  ASSUME NEW X, NEW files \in Seq(X), NEW inputs \in Seq(X)
  PROVE  AddBoundaryInputs(files, inputs) \in Seq(X)
<1> DEFINE N == Len(files)
           key(before) == IF before = inputs THEN GetRange(inputs).largest ELSE Last(before).largest
           more(before) == FindSmallestBoundaryFile(files, key(before))
           after(before) == IF more(before) = {} THEN before
                            ELSE Append(before, CHOOSE f \in more(before) : TRUE)
           step == [before \in Seq(X) |-> after(before)]
           body(g) == [n \in 0 .. N |-> IF n = 0 THEN inputs ELSE after(g[n - 1])]
           added == CHOOSE g : g = body(g)
<1>1. AddBoundaryInputs(files, inputs) = IF inputs = << >> THEN inputs ELSE added[N]
  BY Zenon DEF AddBoundaryInputs
<1>2. N \in Nat
  OBVIOUS
<1>3. \A before : more(before) \subseteq X
  BY DEF FindSmallestBoundaryFile, Range
<1>4. \A before \in Seq(X) : after(before) \in Seq(X)
  <2> TAKE before \in Seq(X)
  <2>1. CASE more(before) = {}
    BY <2>1
  <2>2. CASE more(before) # {}
    <3> DEFINE f == CHOOSE f \in more(before) : TRUE
    <3>1. f \in X
      BY <1>3, <2>2
    <3> HIDE DEF f, more
    <3>2. Append(before, f) \in Seq(X)
      BY <3>1
    <3> QED
      BY <2>2, <3>2 DEF f
  <2> QED
    BY <2>1, <2>2
<1> HIDE DEF N, more, after
<1>5. step \in [Seq(X) -> Seq(X)]
  BY <1>4
<1> HIDE DEF step
<1>6. PICK g \in [0 .. N -> Seq(X)] : g[0] = inputs /\ \A n \in 1 .. N : g[n] = step[g[n - 1]]
  <2>1. Iterations(N, Seq(X), inputs, step) # {}
    BY <1>2, <1>5, RecursionTo
  <2> QED
    BY <2>1 DEF Iterations
<1>7. g = body(g)
  <2>1. \A n \in 1 .. N : n - 1 \in 0 .. N
    BY <1>2
  <2>2. \A n \in 1 .. N : g[n] = after(g[n - 1])
    BY <1>6, <2>1 DEF step
  <2> QED
    BY <1>2, <1>6, <2>2
<1>8. added = body(added)
  BY <1>7
<1> HIDE DEF added
<1>9. added[0] = inputs /\ \A n \in 1 .. N : added[n] = after(added[n - 1])
  BY <1>2, <1>8
<1>10. \A n \in 0 .. N : added[n] \in Seq(X)
  BY <1>2, <1>4, <1>9, InductionTo
<1> QED
  BY <1>1, <1>2, <1>10

(* The version a compaction reads, and files of it as its inputs.          *)
ReadsFrom(c, version) ==
  /\ c.version = version
  /\ c.inputs[1] \in Seq(FilesOf(version)) /\ c.inputs[2] \in Seq(FilesOf(version))

(* SetupOtherInputs: whether expanded or not, the inputs are files of the  *)
(* version.                                                                *)
LEMMA SetupFacts ==
  ASSUME NEW X, NEW version \in [Levels -> Seq(X)], NEW level \in 0 .. kNumLevels - 2,
         NEW picked \in Seq(Range(version[level]))
  PROVE  ReadsFrom(SetupOtherInputs(version, level, picked), version)
<1> DEFINE lower == FilesOf(version)
           first == AddBoundaryInputs(version[level], picked)
           second == InputsOver(version, level + 1, GetRange(first))
           more == AddBoundaryInputs(version[level],
                     InputsOver(version, level, GetRange2(first, second)))
           again == InputsOver(version, level + 1, GetRange(more))
           made == SetupOtherInputs(version, level, picked)
<1>1. /\ level \in Levels /\ level + 1 \in Levels
  BY CompactionAssumption DEF Levels
<1>2. /\ version[level] \in Seq(X) /\ version[level + 1] \in Seq(X)
      /\ Range(version[level]) \subseteq lower /\ Range(version[level + 1]) \subseteq lower
  BY <1>1 DEF FilesOf
<1> HIDE DEF lower
<1>3. version[level] \in Seq(lower) /\ version[level + 1] \in Seq(lower) /\ picked \in Seq(lower)
  <2>1. /\ version[level] \in Seq(Range(version[level]))
        /\ version[level + 1] \in Seq(Range(version[level + 1]))
    BY <1>2, RangeFacts
  <2> QED
    BY <1>2, <2>1
<1>4. first \in Seq(lower)
  BY <1>3, BoundaryFacts
<1>5. second \in Seq(lower)
  <2>1. second \in Seq(Range(version[level + 1]))
    BY <1>2, InputsOverFacts
  <2> HIDE DEF second
  <2> QED
    BY <1>2, <2>1
<1>6. more \in Seq(lower)
  <2> DEFINE over == InputsOver(version, level, GetRange2(first, second))
  <2>1. over \in Seq(Range(version[level]))
    BY <1>2, InputsOverFacts
  <2> HIDE DEF over
  <2>2. over \in Seq(lower)
    BY <1>2, <2>1
  <2>3. AddBoundaryInputs(version[level], over) \in Seq(lower)
    BY <1>3, <2>2, BoundaryFacts
  <2> QED
    BY <2>3 DEF over
<1>7. again \in Seq(lower)
  <2>1. again \in Seq(Range(version[level + 1]))
    BY <1>2, InputsOverFacts
  <2> HIDE DEF again
  <2> QED
    BY <1>2, <2>1
<1>8. made = WithGrandparents(version, level, first, second)
      \/ made = WithGrandparents(version, level, more, again)
  BY Zenon DEF SetupOtherInputs, Expanded
<1> HIDE DEF first, second, more, again, made
<1>9. \A a, b : /\ WithGrandparents(version, level, a, b).version = version
                /\ WithGrandparents(version, level, a, b).inputs = <<a, b>>
  BY DEF WithGrandparents, Compaction
<1>10. made.version = version /\ made.inputs[1] \in Seq(lower) /\ made.inputs[2] \in Seq(lower)
  BY <1>4, <1>5, <1>6, <1>7, <1>8, <1>9
<1> QED
  BY <1>10 DEF ReadsFrom, lower, made

(* An empty level has size 0.                                              *)
LEMMA NothingHasNoSize ==
  TotalFileSize(<< >>) = 0
<1> DEFINE body(g) == [n \in 0 .. Len(<< >>) |->
                         IF n = 0 THEN 0 ELSE g[n - 1] + (<< >>)[n].size]
           sum == CHOOSE g : g = body(g)
           zero == [n \in 0 .. 0 |-> 0]
<1>1. TotalFileSize(<< >>) = sum[Len(<< >>)]
  BY Zenon DEF TotalFileSize
<1>2. Len(<< >>) = 0 /\ \A n \in 0 .. 0 : n = 0
  OBVIOUS
<1>3. zero = body(zero)
  BY <1>2
<1> HIDE DEF zero
<1>4. sum = body(sum)
  BY <1>3
<1> HIDE DEF sum
<1>5. sum[0] = 0
  BY <1>2, <1>4
<1> QED
  BY <1>1, <1>2, <1>5

(* LeastOf gives the least of some numbers.                                *)
LEMMA LeastFacts ==
  ASSUME NEW S \in SUBSET Nat, S # {}
  PROVE  LeastOf(S) \in S /\ \A j \in S : LeastOf(S) <= j
BY FirstIndex DEF LeastOf, Min

(* The same from above.                                                    *)
LEMMA GreatestFacts ==
  ASSUME NEW n \in Nat, NEW S \in SUBSET (0 .. n), S # {}
  PROVE  GreatestOf(S) \in S /\ \A j \in S : GreatestOf(S) >= j
<1> DEFINE U == {n - j : j \in S}
<1>1. U \in SUBSET Nat /\ U # {}
  <2>1. \A j \in S : n - j \in Nat
    OBVIOUS
  <2>2. PICK j \in S : TRUE
    OBVIOUS
  <2> QED
    BY <2>1, <2>2
<1>2. LeastOf(U) \in U /\ \A j \in U : LeastOf(U) <= j
  BY <1>1, LeastFacts
<1>3. PICK x \in S : LeastOf(U) = n - x
  BY <1>2
<1>4. \A y \in S : n - y \in U
  OBVIOUS
<1> HIDE DEF U
<1>5. \A y \in S : x >= y
  BY <1>2, <1>3, <1>4
<1> QED
  BY <1>5 DEF GreatestOf

(* compaction_level_ is one level, not the last; when it is due it has a   *)
(* file.                                                                   *)
LEMMA DueFacts ==
  ASSUME NEW X, NEW version \in [Levels -> Seq(X)], SizeIsDue(version),
         NEW level \in Finalize(version)
  PROVE  level \in 0 .. kNumLevels - 2 /\ version[level] # << >>
<1> DEFINE above(a, b) == Score(version, a)[1] * Score(version, b)[2]
                            > Score(version, b)[1] * Score(version, a)[2]
<1>1. \A a \in Finalize(version) :
        /\ a \in 0 .. kNumLevels - 2
        /\ \A b \in 0 .. kNumLevels - 2 : ~ above(b, a) /\ (b < a => above(a, b))
  BY DEF Finalize
<1> HIDE DEF above
<1>2. PICK due \in Finalize(version) : Score(version, due)[1] >= Score(version, due)[2]
  BY DEF SizeIsDue
<1>3. due = level
  <2>1. due \in Int /\ level \in Int
    BY <1>1
  <2>2. ~ (due < level) /\ ~ (level < due)
    BY <1>1
  <2> QED
    BY <2>1, <2>2
<1>4. ASSUME version[level] = << >>
      PROVE  FALSE
  <2>1. CASE level = 0
    <3>1. Score(version, level) = <<0, kL0_CompactionTrigger>>
      BY <1>4, <2>1 DEF Score
    <3> QED
      BY <1>2, <1>3, <3>1, CompactionAssumption
  <2>2. CASE level # 0
    <3>1. Score(version, level) = <<0, MaxBytesForLevel[level]>>
      BY <1>4, <2>2, NothingHasNoSize DEF Score
    <3>2. level \in 1 .. kNumLevels - 1
      BY <1>1, <2>2, CompactionAssumption
    <3>3. MaxBytesForLevel[level] \in Nat \ {0}
      BY <3>2, CompactionAssumption
    <3> QED
      BY <1>2, <1>3, <3>1, <3>3
  <2> QED
    BY <2>1, <2>2
<1> QED
  BY <1>1, <1>4

(* PickCompaction, by size or by seeks.                                    *)
LEMMA PickFacts ==
  ASSUME NEW X, NEW version \in [Levels -> Seq(X)], NEW pointer, NEW charged,
         \A c \in charged : c.level \in 0 .. kNumLevels - 2 /\ c.file \in Range(version[c.level]),
         NEW made \in PickCompaction(version, pointer, charged)
  PROVE  ReadsFrom(made, version)
<1> DEFINE picked(level, file) ==
             IF level = 0 THEN InputsOver(version, 0, GetRange(<<file>>)) ELSE <<file>>
           setup(level, file) == SetupOtherInputs(version, level, picked(level, file))
           after(level) == {i \in DOMAIN version[level] :
                              \A p \in pointer[level] : Less(p, version[level][i].largest)}
           next(level) == version[level][IF after(level) = {} THEN 1 ELSE LeastOf(after(level))]
<1>1. ASSUME NEW level \in 0 .. kNumLevels - 2, NEW file \in Range(version[level])
      PROVE  ReadsFrom(setup(level, file), version)
  <2>1. level \in Levels /\ version[level] \in Seq(X)
    BY CompactionAssumption DEF Levels
  <2>2. picked(level, file) \in Seq(Range(version[level]))
    <3>1. CASE level = 0
      BY <2>1, <3>1, InputsOverFacts
    <3>2. CASE level # 0
      BY <3>2
    <3> QED
      BY <3>1, <3>2
  <2> HIDE DEF picked
  <2> QED
    BY <2>2, SetupFacts
<1>2. CASE SizeIsDue(version)
  <2>1. PICK level \in Finalize(version) : made = setup(level, next(level))
    BY <1>2 DEF PickCompaction
  <2>2. level \in 0 .. kNumLevels - 2 /\ version[level] # << >>
    BY <1>2, DueFacts
  <2>3. version[level] \in Seq(X)
    BY <2>2, CompactionAssumption DEF Levels
  <2>4. DOMAIN version[level] = 1 .. Len(version[level]) /\ 1 \in DOMAIN version[level]
    BY <2>2, <2>3
  <2>5. after(level) \in SUBSET Nat
    BY <2>4
  <2>6. after(level) # {} => LeastOf(after(level)) \in DOMAIN version[level]
    BY <2>5, LeastFacts
  <2>7. next(level) \in Range(version[level])
    BY <2>4, <2>6 DEF Range
  <2> HIDE DEF next, setup
  <2> QED
    BY <1>1, <2>1, <2>2, <2>7
<1>3. CASE ~ SizeIsDue(version)
  <2>1. PICK c \in charged : made = setup(c.level, c.file)
    BY <1>3 DEF PickCompaction
  <2> HIDE DEF setup
  <2> QED
    BY <1>1, <2>1
<1> QED
  BY <1>2, <1>3

(* CompactRange, for a level but the last.                                 *)
LEMMA CompactRangeFacts ==
  ASSUME NEW X, NEW version \in [Levels -> Seq(X)], NEW level \in 0 .. kNumLevels - 2,
         NEW begin, NEW end, NEW made \in CompactRange(version, level, begin, end)
  PROVE  ReadsFrom(made, version)
<1> DEFINE inputs == GetOverlappingInputs(version, level, begin, end)
           full == {i \in DOMAIN inputs :
                      TotalFileSize(SubSeq(inputs, 1, i)) >= TargetFileSize}
           cutoff == IF level > 0 /\ full # {} THEN SubSeq(inputs, 1, LeastOf(full)) ELSE inputs
<1>1. made = SetupOtherInputs(version, level, cutoff)
  BY DEF CompactRange
<1>2. version[level] \in Seq(X)
  BY CompactionAssumption DEF Levels
<1>3. inputs \in Seq(Range(version[level]))
  BY <1>2, InputsFacts
<1> HIDE DEF inputs
<1>4. full # {} => LeastOf(full) \in 1 .. Len(inputs)
  <2>1. full \in SUBSET Nat /\ full \subseteq 1 .. Len(inputs)
    BY <1>3
  <2> HIDE DEF full
  <2> QED
    BY <2>1, LeastFacts
<1> HIDE DEF full
<1>5. cutoff \in Seq(Range(version[level]))
  <2> DEFINE k == LeastOf(full)
             Y == Range(version[level])
  <2>1. full # {} => k \in 1 .. Len(inputs)
    BY <1>4
  <2> HIDE DEF k, Y
  <2>2. inputs \in Seq(Y) /\ \A j \in 1 .. Len(inputs) : SubSeq(inputs, 1, j) \in Seq(Y)
    BY <1>3 DEF Y
  <2> QED
    BY <2>1, <2>2 DEF k, Y
<1> HIDE DEF cutoff
<1> QED
  BY <1>1, <1>5, SetupFacts

-----------------------------------------------------------------------------
(* Lemmas: the file a read charges, and the versions that are installed.   *)

(* Files of one version from the newest, as a lookup reads level 0.        *)
LEMMA NewestInOrder ==
  ASSUME NEW T, TablesRight(T), NEW S, S \subseteq Files(T), IsFiniteSet(S)
  PROVE  InOrder(S, LAMBDA f, g : f.number > g.number) \in Seq(S)
<1> DEFINE R == {p \in S \X S : p[1].number > p[2].number}
           s == InOrder(S, LAMBDA f, g : f.number > g.number)
<1>1. Ranks(s, S, R)
  <2>1. \A x \in S : {y \in S : y.number > x.number} = Below(S, R, x)
    BY DEF Below
  <2>2. s = [i \in 1 .. Cardinality(S) |->
               CHOOSE x \in S : Cardinality({y \in S : y.number > x.number}) = i - 1]
    BY DEF InOrder
  <2> HIDE DEF s, R
  <2>3. \A x \in S : Cardinality({y \in S : y.number > x.number}) = Rank(S, R, x)
    BY <2>1 DEF Rank
  <2>4. ASSUME NEW i \in 1 .. Cardinality(S), NEW x \in S, Rank(S, R, x) = i - 1
        PROVE  s[i] \in S /\ Rank(S, R, s[i]) = i - 1
    <3>1. s[i] = CHOOSE z \in S : Cardinality({y \in S : y.number > z.number}) = i - 1
      BY <2>2
    <3>2. Cardinality({y \in S : y.number > x.number}) = i - 1
      BY <2>3, <2>4
    <3>3. s[i] \in S /\ Cardinality({y \in S : y.number > s[i].number}) = i - 1
      BY <3>1, <3>2
    <3> QED
      BY <2>3, <3>3
  <2>5. s = [i \in 1 .. Cardinality(S) |-> s[i]]
    <3> DEFINE e(i) == CHOOSE x \in S : Cardinality({y \in S : y.number > x.number}) = i - 1
    <3>1. s = [i \in 1 .. Cardinality(S) |-> e(i)]
      BY <2>2
    <3> HIDE DEF e
    <3> QED
      BY <3>1
  <2> QED
    BY <2>4, <2>5 DEF Ranks
<1>2. StrictOrder(S, R)
  <2>1. \A a, b \in S : <<a, b>> \in R <=> a.number > b.number
    OBVIOUS
  <2>2. \A a \in S : a.number \in Nat
    BY FilesFacts
  <2>3. \A a, b \in S : a # b => a.number # b.number
    BY FilesFacts
  <2> HIDE DEF R
  <2> QED
    BY <2>1, <2>2, <2>3 DEF StrictOrder
<1>3. Cardinality(S) \in Nat /\ s \in [1 .. Cardinality(S) -> S]
  BY <1>1, <1>2, RanksFacts
<1> HIDE DEF s, R
<1>4. s \in Seq(S)
  BY <1>3
<1> QED
  BY <1>4 DEF s

(* The files a lookup reads are files of the version, and when it reads    *)
(* two the first is not in the last level: a seek is never charged there.  *)
LEMMA FilesForFacts ==
  ASSUME NEW T, TablesRight(T), NEW version \in [Levels -> Seq(Files(T))],
         NEW user_key, NEW target, NEW files, files = FilesFor(version, user_key, target)
  PROVE  /\ files \in Seq(Range(files))
         /\ Len(files) >= 2 => /\ files[1].level \in 0 .. kNumLevels - 2
                               /\ files[1].file \in Range(version[files[1].level])
<1> DEFINE zero == {f \in Range(version[0]) : ~ AfterFile(user_key, f) /\ ~ BeforeFile(user_key, f)}
           newest == InOrder(zero, LAMBDA f, g : f.number > g.number)
           place(level) == FindFile(version[level], target) + 1
           deeper == {level \in 1 .. kNumLevels - 1 :
                        /\ place(level) \in DOMAIN version[level]
                        /\ ~ BeforeFile(user_key, version[level][place(level)])}
           levels == InOrder(deeper, LAMBDA a, b : a < b)
           front == [i \in DOMAIN newest |-> [level |-> 0, file |-> newest[i]]]
           back == [i \in DOMAIN levels |->
                      [level |-> levels[i], file |-> version[levels[i]][place(levels[i])]]]
<1>1. files = front \o back
  BY Zenon DEF FilesFor
<1>2. newest \in Seq(zero)
  <2>1. 0 \in Levels /\ version[0] \in Seq(Files(T))
    BY CompactionAssumption DEF Levels
  <2>2. Range(version[0]) \subseteq Files(T)
    BY <2>1, RangeFacts
  <2>3. IsFiniteSet(zero)
    <3>1. IsFiniteSet(Range(version[0])) /\ zero \in SUBSET Range(version[0])
      BY <2>1, RangeIsFinite
    <3> QED
      BY <3>1, FS_Subset
  <2>4. zero \subseteq Files(T)
    BY <2>2
  <2> HIDE DEF zero
  <2> QED
    BY <2>3, <2>4, NewestInOrder
<1>3. /\ levels \in Seq(deeper)
      /\ \A i, j \in 1 .. Len(levels) : i < j => levels[i] < levels[j]
  <2>1. IsFiniteSet(1 .. kNumLevels - 1)
    BY CompactionAssumption, FS_Interval
  <2>2. deeper \in SUBSET (1 .. kNumLevels - 1) /\ deeper \in SUBSET Nat
    BY CompactionAssumption
  <2> HIDE DEF deeper
  <2>3. IsFiniteSet(deeper)
    BY <2>1, <2>2, FS_Subset
  <2> QED
    BY <2>2, <2>3, NumbersInOrder
<1>4. \A level \in deeper : /\ level \in 1 .. kNumLevels - 1
                            /\ place(level) \in DOMAIN version[level]
  OBVIOUS
<1> HIDE DEF newest, levels, deeper, place
<1>5. /\ Len(newest) \in Nat /\ DOMAIN newest = 1 .. Len(newest)
      /\ Len(levels) \in Nat /\ DOMAIN levels = 1 .. Len(levels)
  BY <1>2, <1>3
<1>6. PICK A : front \in Seq(A) /\ back \in Seq(A)
               /\ Len(front) = Len(newest) /\ Len(back) = Len(levels)
  <2> DEFINE A == {front[i] : i \in 1 .. Len(newest)} \cup {back[i] : i \in 1 .. Len(levels)}
  <2>1. \A i \in 1 .. Len(newest) : front[i] \in A
    OBVIOUS
  <2>2. \A i \in 1 .. Len(levels) : back[i] \in A
    OBVIOUS
  <2>3. DOMAIN front = 1 .. Len(newest) /\ front = [i \in 1 .. Len(newest) |-> front[i]]
    BY <1>5
  <2>4. DOMAIN back = 1 .. Len(levels) /\ back = [i \in 1 .. Len(levels) |-> back[i]]
    BY <1>5
  <2> HIDE DEF front, back, A
  <2>5. front \in Seq(A) /\ Len(front) = Len(newest)
    BY <1>5, <2>1, <2>3
  <2>6. back \in Seq(A) /\ Len(back) = Len(levels)
    BY <1>5, <2>2, <2>4
  <2> QED
    BY <2>5, <2>6
<1>7. /\ Len(front \o back) = Len(newest) + Len(levels)
      /\ Len(newest) > 0 => (front \o back)[1] = front[1]
      /\ Len(newest) = 0 /\ Len(levels) > 0 => (front \o back)[1] = back[1]
  <2> HIDE DEF front, back
  <2>1. /\ Len(front \o back) = Len(front) + Len(back)
        /\ \A i \in 1 .. Len(front) + Len(back) :
             (front \o back)[i] = IF i <= Len(front) THEN front[i] ELSE back[i - Len(front)]
    <3>1. ASSUME NEW a \in Seq(A), NEW b \in Seq(A)
          PROVE  /\ Len(a \o b) = Len(a) + Len(b)
                 /\ \A i \in 1 .. Len(a) + Len(b) :
                      (a \o b)[i] = IF i <= Len(a) THEN a[i] ELSE b[i - Len(a)]
      BY ConcatProperties
    <3> QED
      BY <1>6, <3>1
  <2>2. Len(newest) > 0 => (front \o back)[1] = front[1]
    <3> SUFFICES ASSUME Len(newest) > 0
                 PROVE  (front \o back)[1] = front[1]
      OBVIOUS
    <3>1. 1 \in 1 .. Len(front) + Len(back) /\ 1 <= Len(front)
      BY <1>5, <1>6
    <3> QED
      BY <2>1, <3>1
  <2>3. Len(newest) = 0 /\ Len(levels) > 0 => (front \o back)[1] = back[1]
    <3> SUFFICES ASSUME Len(newest) = 0, Len(levels) > 0
                 PROVE  (front \o back)[1] = back[1]
      OBVIOUS
    <3>1. 1 \in 1 .. Len(front) + Len(back) /\ ~ (1 <= Len(front)) /\ 1 - Len(front) = 1
      BY <1>5, <1>6
    <3> QED
      BY <2>1, <3>1
  <2> QED
    BY <1>6, <2>1, <2>2, <2>3
<1>8. files \in Seq(Range(files))
  <2> HIDE DEF front, back
  <2>1. \A a, b \in Seq(A) : a \o b \in Seq(A)
    OBVIOUS
  <2> QED
    BY <1>1, <1>6, <2>1, RangeFacts
<1>9. ASSUME Len(files) >= 2
      PROVE  /\ files[1].level \in 0 .. kNumLevels - 2
             /\ files[1].file \in Range(version[files[1].level])
  <2>1. CASE Len(newest) > 0
    <3>1. 1 \in DOMAIN newest /\ newest[1] \in zero
      BY <1>2, <1>5, <2>1
    <3>2. files[1] = [level |-> 0, file |-> newest[1]]
      BY <1>1, <1>7, <2>1, <3>1
    <3> QED
      BY <3>1, <3>2, CompactionAssumption
  <2>2. CASE Len(newest) = 0
    <3>1. Len(levels) >= 2
      BY <1>1, <1>5, <1>7, <1>9, <2>2
    <3>2. 1 \in DOMAIN levels /\ 2 \in DOMAIN levels /\ levels[1] < levels[2]
      BY <1>3, <1>5, <3>1
    <3>3. levels[1] \in deeper /\ levels[2] \in deeper
      BY <1>3, <3>2
    <3>4. levels[1] \in 1 .. kNumLevels - 1 /\ levels[2] \in 1 .. kNumLevels - 1
          /\ place(levels[1]) \in DOMAIN version[levels[1]]
      BY <1>4, <3>3
    <3>5. files[1] = [level |-> levels[1], file |-> version[levels[1]][place(levels[1])]]
      BY <1>1, <1>5, <1>7, <2>2, <3>1, <3>2
    <3>6. levels[1] \in 0 .. kNumLevels - 2
      BY <3>2, <3>4, CompactionAssumption
    <3> QED
      BY <3>4, <3>5, <3>6 DEF Range
  <2> QED
    BY <1>5, <2>1, <2>2
<1> QED
  BY <1>8, <1>9

(* Building a version from a set of files of each level.                   *)
LEMMA LevelsInOrder ==
  ASSUME NEW T, TablesRight(T), NEW at \in [Levels -> SUBSET Files(T)],
         \A level \in Levels : IsFiniteSet(at[level]),
         NEW v, v = [level \in Levels |-> InOrder(at[level], BySmallestKey)]
  PROVE  VersionRight(v, T) /\ \A level \in Levels : Range(v[level]) = at[level]
<1>1. ASSUME NEW level \in Levels
      PROVE  /\ v[level] \in Seq(at[level])
             /\ \A i, j \in 1 .. Len(v[level]) :
                  i < j => BySmallestKey(v[level][i], v[level][j])
             /\ Range(v[level]) = at[level]
  <2> DEFINE S == at[level]
  <2>1. S \subseteq Files(T) /\ IsFiniteSet(S)
    OBVIOUS
  <2> HIDE DEF S
  <2>2. /\ InOrder(S, BySmallestKey) \in Seq(S)
        /\ \A i, j \in 1 .. Len(InOrder(S, BySmallestKey)) :
             i < j => BySmallestKey(InOrder(S, BySmallestKey)[i], InOrder(S, BySmallestKey)[j])
        /\ Range(InOrder(S, BySmallestKey)) = S
    BY <2>1, FilesInOrder
  <2> DEFINE s == InOrder(S, BySmallestKey)
  <2>3. v[level] = s
    BY DEF S
  <2> HIDE DEF s
  <2> QED
    BY <2>2, <2>3 DEF s, S
<1>2. v \in [Levels -> Seq(Files(T))]
  <2>1. ASSUME NEW level \in Levels
        PROVE  v[level] \in Seq(Files(T))
    <3> DEFINE F == Files(T)
               S == at[level]
    <3>1. S \subseteq F /\ v[level] \in Seq(S)
      BY <1>1
    <3> HIDE DEF F, S
    <3> QED
      BY <3>1 DEF F
  <2> DEFINE e(level) == InOrder(at[level], BySmallestKey)
  <2>2. v = [level \in Levels |-> e(level)]
    OBVIOUS
  <2> HIDE DEF e
  <2>3. v = [level \in Levels |-> v[level]]
    BY <2>2
  <2> QED
    BY <2>1, <2>3
<1>3. \A level \in Levels : Range(v[level]) = at[level]
  BY <1>1
<1> QED
  BY <1>1, <1>2, <1>3 DEF VersionRight

(* SaveTo, from a version and the files added to it.                       *)
LEMMA SaveToFacts ==
  ASSUME NEW T, TablesRight(T), NEW base, VersionRight(base, T),
         NEW edit, IsFiniteSet(edit.added),
         \A a \in edit.added : a[2] \in Files(T)
  PROVE  /\ VersionRight(ApplyEdit(base, edit), T)
         /\ NumbersIn(ApplyEdit(base, edit))
              \subseteq NumbersIn(base) \cup {a[2].number : a \in edit.added}
         /\ \A level \in Levels :
              Range(ApplyEdit(base, edit)[level])
                = {f \in Range(base[level]) \cup {a[2] : a \in {x \in edit.added : x[1] = level}} :
                     <<level, f.number>> \notin edit.deleted
                                               \ {<<a[1], a[2].number>> : a \in edit.added}}
<1> DEFINE b == Apply(Builder, edit)
           mine(level) == {a[2] : a \in {x \in b.added : x[1] = level}}
           at == [level \in Levels |->
                    {f \in Range(base[level]) \cup mine(level) :
                       <<level, f.number>> \notin b.deleted}]
           v == ApplyEdit(base, edit)
<1>1. b.added = edit.added
      /\ b.deleted = edit.deleted \ {<<a[1], a[2].number>> : a \in edit.added}
  BY DEF Apply, Builder
<1>2. v = [level \in Levels |-> InOrder(at[level], BySmallestKey)]
  <2>1. v = [level \in Levels |->
               InOrder({f \in Range(base[level]) \cup mine(level) :
                          <<level, f.number>> \notin b.deleted}, BySmallestKey)]
    BY DEF ApplyEdit, SaveTo
  <2>2. \A level \in Levels :
          at[level] = {f \in Range(base[level]) \cup mine(level) :
                         <<level, f.number>> \notin b.deleted}
    OBVIOUS
  <2> QED
    BY <2>1, <2>2, Zenon
<1>3. ASSUME NEW level \in Levels
      PROVE  /\ at[level] \subseteq Files(T) /\ IsFiniteSet(at[level])
             /\ at[level] \subseteq Range(base[level]) \cup {a[2] : a \in edit.added}
  <2>1. base[level] \in Seq(Files(T))
    BY DEF VersionRight
  <2>2. Range(base[level]) \subseteq Files(T) /\ IsFiniteSet(Range(base[level]))
    BY <2>1, RangeFacts, RangeIsFinite
  <2>3. mine(level) \subseteq {a[2] : a \in edit.added} /\ mine(level) \subseteq Files(T)
    BY <1>1
  <2>4. IsFiniteSet({a[2] : a \in edit.added})
    <3> DEFINE second == [a \in edit.added |-> a[2]]
    <3>1. second \in Surjection(edit.added, {a[2] : a \in edit.added})
      BY DEF Surjection
    <3> QED
      BY <3>1, FS_Surjection
  <2>5. IsFiniteSet(mine(level))
    BY <2>3, <2>4, FS_Subset
  <2>6. IsFiniteSet(Range(base[level]) \cup mine(level))
    BY <2>2, <2>5, FS_Union
  <2>7. at[level] \in SUBSET (Range(base[level]) \cup mine(level))
    OBVIOUS
  <2> HIDE DEF at, mine
  <2> QED
    BY <2>2, <2>3, <2>6, <2>7, FS_Subset
<1>4. DOMAIN at = Levels /\ at = [level \in Levels |-> at[level]]
  OBVIOUS
<1>8. \A level \in Levels :
        at[level] = {f \in Range(base[level]) \cup {a[2] : a \in {x \in edit.added : x[1] = level}} :
                       <<level, f.number>> \notin edit.deleted
                                                 \ {<<a[1], a[2].number>> : a \in edit.added}}
  <2> HIDE DEF b
  <2> QED
    BY <1>1
<1> HIDE DEF at, v
<1>5. at \in [Levels -> SUBSET Files(T)]
  BY <1>3, <1>4
<1>6. VersionRight(v, T) /\ \A level \in Levels : Range(v[level]) = at[level]
  BY <1>2, <1>3, <1>5, LevelsInOrder
<1>7. NumbersIn(v) \subseteq NumbersIn(base) \cup {a[2].number : a \in edit.added}
  <2> SUFFICES ASSUME NEW level \in Levels, NEW f \in Range(v[level])
               PROVE  f.number \in NumbersIn(base) \cup {a[2].number : a \in edit.added}
    BY DEF NumbersIn, FilesOf
  <2>1. f \in Range(base[level]) \cup {a[2] : a \in edit.added}
    BY <1>3, <1>6
  <2> QED
    BY <2>1 DEF NumbersIn, FilesOf
<1> QED
  BY <1>6, <1>7, <1>8 DEF v

(* A version stays right so long as its own tables do.                     *)
LEMMA VersionStays ==
  ASSUME NEW T, NEW T2, NEW v, VersionRight(v, T),
         \A n \in NumbersIn(v) : n \in DOMAIN T2 /\ T2[n] = T[n]
  PROVE  VersionRight(v, T2)
<1>1. ASSUME NEW level \in Levels
      PROVE  v[level] \in Seq(Files(T2))
  <2>1. v[level] \in Seq(Files(T))
    BY DEF VersionRight
  <2>2. v[level] \in Seq(Range(v[level])) /\ Range(v[level]) \subseteq Files(T)
    BY <2>1, RangeFacts
  <2>3. ASSUME NEW f \in Range(v[level])
        PROVE  f \in Files(T2)
    <3>1. PICK n \in DOMAIN T : f = TableFile(n, T[n])
      BY <2>2, <2>3 DEF Files
    <3>2. f.number = n
      BY <3>1 DEF TableFile, FileMetaData
    <3>3. n \in NumbersIn(v)
      BY <3>2 DEF NumbersIn, FilesOf
    <3> QED
      BY <3>1, <3>3 DEF Files
  <2> QED
    BY <2>2, <2>3
<1> QED
  BY <1>1 DEF VersionRight

-----------------------------------------------------------------------------
(* The steps keep the invariant.                                           *)

(* DeleteObsoleteFiles keeps the tables of the versions it is given, of    *)
(* the reader's, and those being written.                                  *)
LEMMA KeptFacts ==
  ASSUME NEW T, TablesRight(T), NEW versions, NEW pending, NEW error,
         NEW K, K = Kept(T, versions, pending, error)
  PROVE  /\ TablesRight(K) /\ DOMAIN K \subseteq DOMAIN T
         /\ \A n \in DOMAIN K : K[n] = T[n]
         /\ \A n \in pending : n \in DOMAIN T => n \in DOMAIN K
         /\ \A v \in versions \cup {r.version : r \in reader} :
              \A n \in NumbersIn(v) : n \in DOMAIN T => n \in DOMAIN K
<1> DEFINE live == pending \cup AddLiveFiles(versions \cup {r.version : r \in reader})
<1>1. \A v \in versions \cup {r.version : r \in reader} : NumbersIn(v) \subseteq live
  BY DEF NumbersIn, AddLiveFiles
<1>2. pending \subseteq live
  OBVIOUS
<1>3. K = IF error THEN T ELSE [n \in DOMAIN T \cap live |-> T[n]]
  BY DEF Kept
<1> HIDE DEF live
<1>4. /\ DOMAIN K \subseteq DOMAIN T
      /\ \A n \in DOMAIN K : K[n] = T[n]
      /\ \A n \in live : n \in DOMAIN T => n \in DOMAIN K
  BY <1>3
<1>5. TablesRight(K)
  BY <1>4 DEF TablesRight
<1> QED
  BY <1>1, <1>2, <1>4, <1>5

(* A table that is written where no version looks.                         *)
LEMMA WrittenFacts ==
  ASSUME NEW T, TablesRight(T), NEW n \in Nat, NEW entries, Memtable(entries), entries # {},
         NEW T2, T2 = WithTable(T, n, entries)
  PROVE  /\ TablesRight(T2)
         /\ DOMAIN T2 = DOMAIN T \cup {n} /\ T2[n] = entries
         /\ \A m \in DOMAIN T : m # n => T2[m] = T[m]
         /\ \A v : VersionRight(v, T) /\ n \notin NumbersIn(v) => VersionRight(v, T2)
<1>1. /\ DOMAIN T2 = DOMAIN T \cup {n} /\ T2[n] = entries
      /\ \A m \in DOMAIN T : m # n => T2[m] = T[m]
  BY DEF WithTable
<1>2. TablesRight(T2)
  BY <1>1 DEF TablesRight
<1>3. ASSUME NEW v, VersionRight(v, T), n \notin NumbersIn(v)
      PROVE  VersionRight(v, T2)
  <2>1. \A m \in NumbersIn(v) : m \in DOMAIN T
    <3> SUFFICES ASSUME NEW level \in Levels, NEW f \in Range(v[level])
                 PROVE  f.number \in DOMAIN T
      BY DEF NumbersIn, FilesOf
    <3>1. v[level] \in Seq(Files(T))
      BY <1>3 DEF VersionRight
    <3>2. f \in Files(T)
      BY <3>1, RangeFacts
    <3> QED
      BY <3>2, FilesFacts
  <2>2. \A m \in NumbersIn(v) : m \in DOMAIN T2 /\ T2[m] = T[m]
    BY <1>1, <1>3, <2>1
  <2> QED
    BY <1>3, <2>2, VersionStays
<1> QED
  BY <1>1, <1>2, <1>3

(* The files of a version and their tables.                                *)
LEMMA FilesOfFacts ==
  ASSUME NEW T, TablesRight(T), NEW v, VersionRight(v, T)
  PROVE  /\ FilesOf(v) \subseteq Files(T)
         /\ \A f \in FilesOf(v) : f.number \in NumbersIn(v)
         /\ NumbersIn(v) \subseteq DOMAIN T
<1>1. ASSUME NEW level \in Levels, NEW f \in Range(v[level])
      PROVE  f \in Files(T) /\ f.number \in DOMAIN T
  <2>1. v[level] \in Seq(Files(T))
    BY DEF VersionRight
  <2>2. f \in Files(T)
    BY <2>1, RangeFacts
  <2> QED
    BY <2>2, FilesFacts
<1> QED
  BY <1>1 DEF NumbersIn, FilesOf

(* Steps that leave the tables and the versions as they are.               *)
LEMMA StillLive ==
  ASSUME LiveInv, UNCHANGED <<tables, next_file_number, pending_outputs, flush, work>>,
         Referenced' \subseteq Referenced, imm # {} => imm' # {}
  PROVE  VersionsInv' /\ FlushInv' /\ OutputsInv'
<1>1. VersionsInv'
  BY DEF LiveInv, VersionsInv
<1>2. FlushInv'
  BY DEF LiveInv, FlushInv
<1>3. OutputsInv'
  BY DEF LiveInv, OutputsInv
<1> QED
  BY <1>1, <1>2, <1>3

(* A full memtable is put aside.                                           *)
LEMMA SwitchKeepsLive ==
  ASSUME LiveInv, SwitchMemTable
  PROVE  MemInv' /\ VersionsInv' /\ ReaderInv' /\ FlushInv' /\ OutputsInv'
<1> USE DEF clientVars, memVars, fileVars, versionVars, bgVars, callVars
<1>1. /\ UNCHANGED <<last_sequence, reader, tables, next_file_number, pending_outputs, current,
                    file_to_compact, flush, work>>
      /\ imm = {} /\ imm' = {mem} /\ mem' = {}
  BY DEF SwitchMemTable
<1>2. MemInv'
  <2>1. Memtable({})
    BY FS_EmptySet DEF Memtable
  <2> QED
    BY <1>1, <2>1 DEF LiveInv, MemInv
<1>3. Referenced' = Referenced
  BY <1>1 DEF Referenced, InputVersions
<1>4. ReaderInv'
  BY <1>1 DEF LiveInv, ReaderInv
<1> QED
  BY <1>1, <1>2, <1>3, <1>4, StillLive

(* What a write puts into the memtable.                                    *)
LEMMA EntryFacts ==
  ASSUME NEW k \in Keys, NEW s \in Nat, NEW type \in {kTypeDeletion, kTypeValue}
  PROVE  InternalKey(k, s, type) \in Entry
BY DEF InternalKey, Entry

(* UpdateStats and RecordReadSample charge files of the version read.      *)
LEMMA ChargedFacts ==
  ASSUME LiveInv, NEW version \in Referenced, NEW k, NEW s,
         NEW c \in VersionGet(version, tables, k, s).charged
  PROVE  c.level \in 0 .. kNumLevels - 2 /\ c.file \in Range(version[c.level])
<1> DEFINE files == FilesFor(version, k, LookupKey(k, s))
           hits == {i \in DOMAIN files : Find(tables[files[i].file.number], k, s) # {}}
           last == IF hits = {} THEN Len(files) ELSE CHOOSE i \in hits : \A j \in hits : i <= j
<1>1. TablesRight(tables) /\ version \in [Levels -> Seq(Files(tables))]
  BY DEF LiveInv, VersionsInv, VersionRight
<1>2. VersionGet(version, tables, k, s).charged = IF last >= 2 THEN {files[1]} ELSE {}
  BY DEF VersionGet
<1>3. c = files[1] /\ last >= 2
  BY <1>2
<1>4. files \in Seq(Range(files)) /\ Len(files) \in Nat
  BY <1>1, FilesForFacts
<1>5. hits \in SUBSET Nat /\ hits \subseteq 1 .. Len(files)
  BY <1>4
<1>6. hits # {} => (CHOOSE i \in hits : \A j \in hits : i <= j) \in 1 .. Len(files)
  <2> HIDE DEF hits
  <2> QED
    BY <1>5, LeastFacts DEF LeastOf
<1> HIDE DEF hits
<1>7. Len(files) >= 2
  BY <1>3, <1>4, <1>6
<1> QED
  BY <1>1, <1>3, <1>7, FilesForFacts

(* The same for a sample.                                                  *)
LEMMA SampledFacts ==
  ASSUME LiveInv, NEW ikey, NEW c \in ReadSample(current, ikey)
  PROVE  c.level \in 0 .. kNumLevels - 2 /\ c.file \in Range(current[c.level])
<1>1. TablesRight(tables) /\ current \in [Levels -> Seq(Files(tables))]
  BY DEF LiveInv, VersionsInv, VersionRight, Referenced
<1>2. /\ Len(FilesFor(current, ikey.key, ikey)) >= 2
      /\ c = FilesFor(current, ikey.key, ikey)[1]
  BY DEF ReadSample
<1> DEFINE files == FilesFor(current, ikey.key, ikey)
<1>3. Len(files) >= 2 => /\ files[1].level \in 0 .. kNumLevels - 2
                         /\ files[1].file \in Range(current[files[1].level])
  BY <1>1, FilesForFacts
<1> QED
  BY <1>2, <1>3

(* Calls of the interface.                                                 *)
LEMMA ClientKeepsLive ==
  ASSUME LiveInv, Client
  PROVE  LiveInv'
<1> USE DEF clientVars, memVars, fileVars, versionVars, bgVars, callVars
<1>1. ASSUME NEW k \in Keys, NEW type \in {kTypeDeletion, kTypeValue}, Write(k, type)
      PROVE  LiveInv'
  <2>1. /\ UNCHANGED <<imm, reader, tables, next_file_number, pending_outputs, current,
                      file_to_compact, flush, work, caller>>
        /\ last_sequence' = last_sequence + 1
        /\ mem' = mem \cup {InternalKey(k, last_sequence + 1, type)}
    BY <1>1 DEF Write
  <2>2. Memtable(mem')
    <3>1. last_sequence + 1 \in Nat /\ Memtable(mem)
      BY DEF LiveInv, MemInv
    <3>2. InternalKey(k, last_sequence + 1, type) \in Entry
      BY <3>1, EntryFacts
    <3> QED
      BY <2>1, <3>1, <3>2, FS_AddElement DEF Memtable
  <2>3. MemInv'
    BY <2>1, <2>2 DEF LiveInv, MemInv
  <2>4. Referenced' = Referenced
    BY <2>1 DEF Referenced, InputVersions
  <2>5. ReaderInv' /\ CallerInv'
    BY <2>1 DEF LiveInv, ReaderInv, CallerInv
  <2> QED
    BY <2>1, <2>3, <2>4, <2>5, StillLive DEF LiveInv
<1>2. ASSUME WriteFails \/ GetSnapshot \/ (\E i \in DOMAIN snapshots : ReleaseSnapshot(i))
      PROVE  LiveInv'
  <2>1. /\ UNCHANGED <<mem, imm, reader, tables, next_file_number, pending_outputs, current,
                      file_to_compact, flush, work, caller>>
        /\ last_sequence' = last_sequence \/ last_sequence' = last_sequence + 1
    BY <1>2 DEF WriteFails, GetSnapshot, ReleaseSnapshot
  <2>2. MemInv'
    BY <2>1 DEF LiveInv, MemInv
  <2>3. Referenced' = Referenced
    BY <2>1 DEF Referenced, InputVersions
  <2>4. ReaderInv' /\ CallerInv'
    BY <2>1 DEF LiveInv, ReaderInv, CallerInv
  <2> QED
    BY <2>1, <2>2, <2>3, <2>4, StillLive DEF LiveInv
<1>3. ASSUME BeginRead
      PROVE  LiveInv'
  <2>1. /\ UNCHANGED <<mem, imm, last_sequence, tables, next_file_number, pending_outputs, current,
                      file_to_compact, flush, work, caller>>
        /\ reader' = {[version |-> current, newest |-> TRUE]}
    BY <1>3 DEF BeginRead
  <2>2. Referenced' \subseteq Referenced
    BY <2>1 DEF Referenced, InputVersions
  <2>3. ReaderInv'
    BY <2>1 DEF LiveInv, ReaderInv
  <2>4. MemInv' /\ CallerInv'
    BY <2>1 DEF LiveInv, MemInv, CallerInv
  <2> QED
    BY <2>1, <2>2, <2>3, <2>4, StillLive DEF LiveInv
<1>4. ASSUME NEW r \in reader, NEW k, NEW s,
             EndRead(r, VersionGet(r.version, tables, k, s).charged)
      PROVE  LiveInv'
  <2> DEFINE charged == VersionGet(r.version, tables, k, s).charged
  <2>1. /\ UNCHANGED <<mem, imm, last_sequence, tables, next_file_number, pending_outputs, current,
                      flush, work, caller>>
        /\ reader' = {}
        /\ UNCHANGED file_to_compact \/ (r.newest /\ file_to_compact' = charged)
    BY <1>4 DEF EndRead, UpdateStats
  <2>2. Referenced' \subseteq Referenced
    BY <2>1 DEF Referenced, InputVersions
  <2>3. r.newest => r.version = current
    BY DEF LiveInv, ReaderInv
  <2>4. \A c \in charged : c.level \in 0 .. kNumLevels - 2 /\ c.file \in Range(r.version[c.level])
    BY ChargedFacts DEF Referenced
  <2> HIDE DEF charged
  <2>5. ReaderInv'
    BY <2>1, <2>3, <2>4 DEF LiveInv, ReaderInv
  <2>6. MemInv' /\ CallerInv'
    BY <2>1 DEF LiveInv, MemInv, CallerInv
  <2> QED
    BY <2>1, <2>2, <2>5, <2>6, StillLive DEF LiveInv
<1>5. ASSUME NEW ikey, RecordReadSample(ikey)
      PROVE  LiveInv'
  <2>1. /\ UNCHANGED <<mem, imm, last_sequence, reader, tables, next_file_number, pending_outputs,
                      current, flush, work, caller>>
        /\ file_to_compact' = ReadSample(current, ikey)
    BY <1>5 DEF RecordReadSample
  <2>2. Referenced' = Referenced
    BY <2>1 DEF Referenced, InputVersions
  <2>3. ReaderInv'
    BY <2>1, SampledFacts DEF LiveInv, ReaderInv
  <2>4. MemInv' /\ CallerInv'
    BY <2>1 DEF LiveInv, MemInv, CallerInv
  <2> QED
    BY <2>1, <2>2, <2>3, <2>4, StillLive DEF LiveInv
<1>6. ASSUME MakeRoomForWrite
      PROVE  LiveInv'
  BY <1>6, SwitchKeepsLive DEF MakeRoomForWrite, LiveInv, CallerInv
<1>7. ASSUME NEW begin, NEW end, CompactRangeCall(begin, end)
      PROVE  LiveInv'
  <2> DEFINE full == {level \in 1 .. kNumLevels - 1 : OverlapInLevel(current, level, begin, end)}
  <2>1. /\ UNCHANGED <<mem, imm, last_sequence, reader, tables, next_file_number, pending_outputs,
                      current, file_to_compact, flush, work>>
        /\ caller' = [pc |-> "write", level |-> 0,
                      max |-> GreatestOf(full \cup {1}), begin |-> begin, end |-> end,
                      from |-> begin, done |-> FALSE]
    BY <1>7 DEF CompactRangeCall
  <2>2. GreatestOf(full \cup {1}) \in 0 .. kNumLevels - 1
    <3>1. full \cup {1} \subseteq 0 .. kNumLevels - 1 /\ full \cup {1} # {}
      BY CompactionAssumption
    <3> DEFINE S == full \cup {1}
               n == kNumLevels - 1
    <3>2. n \in Nat /\ S \in SUBSET (0 .. n) /\ S # {}
      BY <3>1, CompactionAssumption
    <3> HIDE DEF S, n
    <3>3. GreatestOf(S) \in 0 .. n
      BY <3>2, GreatestFacts
    <3> QED
      BY <3>3 DEF S, n
  <2> HIDE DEF full
  <2>3. CallerInv'
    BY <2>1, <2>2, CompactionAssumption DEF CallerInv
  <2>4. Referenced' = Referenced
    BY <2>1 DEF Referenced, InputVersions
  <2>5. MemInv' /\ ReaderInv'
    BY <2>1 DEF LiveInv, MemInv, ReaderInv
  <2> QED
    BY <2>1, <2>3, <2>4, <2>5, StillLive DEF LiveInv
<1> QED
  BY <1>1, <1>2, <1>3, <1>4, <1>5, <1>6, <1>7 DEF Client

(* A call of CompactRange.                                                 *)
LEMMA CallerKeepsLive ==
  ASSUME LiveInv, Caller
  PROVE  LiveInv'
<1> USE DEF clientVars, memVars, fileVars, versionVars, bgVars, callVars
<1>1. CASE CallerWrites
  <2>1. caller' = [caller EXCEPT !.pc = "memtable"]
    BY <1>1 DEF CallerWrites
  <2>2. CallerInv'
    BY <2>1 DEF LiveInv, CallerInv
  <2>3. CASE SwitchMemTable
    BY <2>2, <2>3, SwitchKeepsLive DEF LiveInv
  <2>4. CASE ~ SwitchMemTable
    <3>1. UNCHANGED <<mem, imm, last_sequence, reader, tables, next_file_number,
                      pending_outputs, current, file_to_compact, flush, work>>
      BY <1>1, <2>4 DEF CallerWrites
    <3>2. Referenced' = Referenced
      BY <3>1 DEF Referenced, InputVersions
    <3>3. MemInv' /\ ReaderInv'
      BY <3>1 DEF LiveInv, MemInv, ReaderInv
    <3> QED
      BY <2>2, <3>1, <3>2, <3>3, StillLive DEF LiveInv
  <2> QED
    BY <2>3, <2>4
<1>2. CASE CallerMemTableDone \/ CallerRegisters \/ CallerLevelDone
  <2>1. UNCHANGED <<mem, imm, last_sequence, reader, tables, next_file_number,
                    pending_outputs, current, file_to_compact, flush, work>>
    BY <1>2 DEF CallerMemTableDone, CallerRegisters, CallerLevelDone
  <2>2. Referenced' = Referenced
    BY <2>1 DEF Referenced, InputVersions
  <2>3. MemInv' /\ ReaderInv'
    BY <2>1 DEF LiveInv, MemInv, ReaderInv
  <2>4. CallerInv'
    <3>1. CASE CallerMemTableDone \/ CallerRegisters
      <4>1. caller' = caller \/ caller' = [caller EXCEPT !.pc = "range"]
        BY <3>1 DEF CallerMemTableDone, CallerRegisters
      <4> QED
        BY <4>1 DEF LiveInv, CallerInv
    <3>2. CASE CallerLevelDone
      <4>1. caller' = IF caller.level + 1 < caller.max
                      THEN [caller EXCEPT !.level = @ + 1, !.from = caller.begin, !.done = FALSE]
                      ELSE [caller EXCEPT !.pc = "idle"]
        BY <3>2 DEF CallerLevelDone
      <4>2. CASE caller.level + 1 < caller.max
        <5>1. caller'.level = caller.level + 1 /\ caller'.max = caller.max
              /\ DOMAIN caller' = DOMAIN caller
          BY <4>1, <4>2 DEF LiveInv, CallerInv
        <5> QED
          BY <4>2, <5>1, CompactionAssumption DEF LiveInv, CallerInv
      <4>3. CASE ~ (caller.level + 1 < caller.max)
        <5>1. caller' = [caller EXCEPT !.pc = "idle"]
          BY <4>1, <4>3
        <5> QED
          BY <5>1 DEF LiveInv, CallerInv
      <4> QED
        BY <4>2, <4>3
    <3> QED
      BY <1>2, <3>1, <3>2
  <2> QED
    BY <2>1, <2>2, <2>3, <2>4, StillLive DEF LiveInv
<1> QED
  BY <1>1, <1>2 DEF Caller

(* A version is installed: the reader keeps its own.                       *)
LEMMA InstallFacts ==
  ASSUME LiveInv, NEW version, Install(version)
  PROVE  /\ current' = version /\ ReaderInv'
         /\ {r.version : r \in reader'} = {r.version : r \in reader}
<1>1. /\ current' = version /\ file_to_compact' = {}
      /\ reader' = {[r EXCEPT !.newest = FALSE] : r \in reader}
  BY DEF Install
<1>2. \A r \in reader : /\ {"version", "newest"} \subseteq DOMAIN [r EXCEPT !.newest = FALSE]
                        /\ ~ [r EXCEPT !.newest = FALSE].newest
                        /\ [r EXCEPT !.newest = FALSE].version = r.version
  BY DEF LiveInv, ReaderInv
<1>3. ReaderInv'
  BY <1>1, <1>2 DEF ReaderInv
<1>4. {r.version : r \in reader'} = {r.version : r \in reader}
  BY <1>1, <1>2
<1> QED
  BY <1>1, <1>3, <1>4

(* CompactMemTable: the new table has a number no version names.           *)
LEMMA FlushKeepsLive ==
  ASSUME LiveInv, NEW fl \in flush, FlushInstalls(fl) \/ FlushFails(fl)
  PROVE  LiveInv'
<1> USE DEF clientVars, memVars, fileVars, versionVars, bgVars, callVars
<1>1. CASE FlushFails(fl)
  <2>1. /\ UNCHANGED <<mem, imm, last_sequence, reader, tables, next_file_number,
                       current, file_to_compact, work, caller>>
        /\ flush' = {} /\ pending_outputs' = pending_outputs \ {fl.number}
    BY <1>1 DEF FlushFails
  <2>2. Referenced' = Referenced
    BY <2>1 DEF Referenced, InputVersions
  <2>3. MemInv' /\ ReaderInv' /\ CallerInv' /\ FlushInv'
    BY <2>1 DEF LiveInv, MemInv, ReaderInv, CallerInv, FlushInv
  <2>4. VersionsInv'
    BY <2>1, <2>2 DEF LiveInv, VersionsInv
  <2>5. OutputsInv'
    BY <2>1, <2>2 DEF LiveInv, OutputsInv
  <2> QED
    BY <2>3, <2>4, <2>5 DEF LiveInv
<1>2. CASE FlushInstalls(fl)
  <2> DEFINE entries == CHOOSE m \in imm : TRUE
             file == TableFile(fl.number, entries)
             level == PickLevelForMemTableOutput(fl.base, file.smallest.key, file.largest.key)
             pending == pending_outputs \ {fl.number}
             added == {<<level, file>>}
             version == IF entries = {} THEN current ELSE ApplyEdit(current, Edit({}, added))
             written == IF entries = {} THEN tables ELSE WithTable(tables, fl.number, entries)
             versions == {current'} \cup {w.c.version : w \in work}
  <2>1. /\ flush' = {} /\ imm' = {} /\ pending_outputs' = pending /\ Install(version)
        /\ tables' = Kept(written, versions, pending, bg_error)
        /\ UNCHANGED <<mem, last_sequence, next_file_number, work, caller>>
    BY <1>2 DEF FlushInstalls
  <2>2. Memtable(entries)
    BY DEF LiveInv, MemInv, FlushInv
  <2>3. /\ TablesRight(tables) /\ next_file_number \in Nat
        /\ \A v \in Referenced : /\ VersionRight(v, tables)
                                 /\ \A n \in NumbersIn(v) : n < next_file_number
        /\ fl.number \in Nat /\ fl.number < next_file_number
        /\ \A v \in Referenced : fl.number \notin NumbersIn(v)
    BY DEF LiveInv, VersionsInv, FlushInv
  <2> HIDE DEF entries, level
  <2>4. /\ TablesRight(written) /\ DOMAIN tables \subseteq DOMAIN written
        /\ \A v \in Referenced : VersionRight(v, written)
        /\ entries # {} => fl.number \in DOMAIN written /\ written[fl.number] = entries
    <3>1. CASE entries = {}
      BY <2>3, <3>1
    <3>2. CASE entries # {}
      <4>1. written = WithTable(tables, fl.number, entries)
        BY <3>2
      <4> DEFINE n == fl.number
      <4> HIDE DEF written, n
      <4>2. n \in Nat /\ written = WithTable(tables, n, entries)
        BY <2>3, <4>1 DEF n
      <4>3. /\ TablesRight(written) /\ DOMAIN written = DOMAIN tables \cup {n}
            /\ written[n] = entries
            /\ \A v : VersionRight(v, tables) /\ n \notin NumbersIn(v) => VersionRight(v, written)
        BY <2>2, <2>3, <3>2, <4>2, WrittenFacts
      <4> QED
        BY <2>3, <4>3 DEF n
    <3> QED
      BY <3>1, <3>2
  <2>5. current \in Referenced
    BY DEF Referenced
  <2>6. /\ VersionRight(version, written)
        /\ NumbersIn(version) \subseteq NumbersIn(current) \cup {fl.number}
    <3>1. CASE entries = {}
      BY <2>4, <2>5, <3>1
    <3>2. CASE entries # {}
      <4>1. file \in Files(written) /\ file.number = fl.number
        BY <2>4, <3>2 DEF Files, TableFile, FileMetaData
      <4> HIDE DEF file, written
      <4> DEFINE edit == Edit({}, added)
      <4>2. edit.added = added
        BY DEF Edit
      <4>3. IsFiniteSet(edit.added) /\ \A a \in edit.added : a[2] = file
        <5>1. IsFiniteSet({<<level, file>>})
          BY FS_Singleton
        <5> QED
          BY <4>2, <5>1
      <4>4. version = ApplyEdit(current, edit)
        BY <3>2
      <4> HIDE DEF edit, version
      <4>5. /\ VersionRight(version, written)
            /\ NumbersIn(version) \subseteq NumbersIn(current) \cup {a[2].number : a \in edit.added}
        BY <2>4, <2>5, <4>1, <4>3, <4>4, SaveToFacts
      <4> QED
        BY <4>1, <4>3, <4>5
    <3> QED
      BY <3>1, <3>2
  <2> HIDE DEF written, version
  <2>7. /\ current' = version /\ ReaderInv'
        /\ {r.version : r \in reader'} = {r.version : r \in reader}
    BY <2>1, InstallFacts
  <2>8. Referenced' = versions \cup {r.version : r \in reader}
    BY <2>1, <2>7 DEF Referenced, InputVersions
  <2>9. \A v \in Referenced' : v = version \/ v \in Referenced
    BY <2>7, <2>8 DEF Referenced, InputVersions
  <2> HIDE DEF versions
  <2>10. /\ TablesRight(tables') /\ DOMAIN tables' \subseteq DOMAIN written
         /\ \A n \in DOMAIN tables' : tables'[n] = written[n]
         /\ \A n \in pending : n \in DOMAIN written => n \in DOMAIN tables'
         /\ \A v \in Referenced' :
              \A n \in NumbersIn(v) : n \in DOMAIN written => n \in DOMAIN tables'
    BY <2>1, <2>4, <2>8, KeptFacts
  <2> HIDE DEF pending
  <2>11. VersionsInv'
    <3>1. ASSUME NEW v \in Referenced'
          PROVE  VersionRight(v, tables') /\ \A n \in NumbersIn(v) : n < next_file_number
      <4>1. VersionRight(v, written)
        BY <2>4, <2>6, <2>9
      <4>2. NumbersIn(v) \subseteq DOMAIN written
        BY <2>4, <4>1, FilesOfFacts
      <4>3. \A n \in NumbersIn(v) : n \in DOMAIN tables' /\ tables'[n] = written[n]
        BY <2>10, <4>2
      <4>4. VersionRight(v, tables')
        BY <4>1, <4>3, VersionStays
      <4>5. \A n \in NumbersIn(v) : n < next_file_number
        BY <2>3, <2>5, <2>6, <2>9
      <4> QED
        BY <4>4, <4>5
    <3> QED
      BY <2>1, <2>3, <2>10, <3>1 DEF VersionsInv
  <2>12. OutputsInv'
    <3>1. ASSUME NEW w \in work, NEW n \in Range(w.outputs)
          PROVE  /\ n \in DOMAIN tables' /\ n \in pending_outputs' /\ n < next_file_number
                 /\ \A v \in Referenced' : n \notin NumbersIn(v)
      <4>1. /\ n \in DOMAIN tables /\ n \in pending_outputs /\ n < next_file_number
            /\ \A v \in Referenced : n \notin NumbersIn(v)
            /\ n # fl.number
        BY DEF LiveInv, OutputsInv
      <4>2. n \in pending
        BY <4>1 DEF pending
      <4>3. n \in DOMAIN tables'
        BY <2>4, <2>10, <4>1, <4>2
      <4>4. n \notin NumbersIn(version)
        BY <2>5, <2>6, <4>1
      <4> QED
        BY <2>1, <2>9, <4>1, <4>2, <4>3, <4>4
    <3> QED
      BY <2>1, <3>1 DEF LiveInv, OutputsInv
  <2>13. MemInv' /\ CallerInv' /\ FlushInv'
    BY <2>1 DEF LiveInv, MemInv, CallerInv, FlushInv
  <2> QED
    BY <2>7, <2>11, <2>12, <2>13 DEF LiveInv
<1> QED
  BY <1>1, <1>2

(* What BackgroundCompaction picks.                                        *)
LEMMA PickedFacts ==
  ASSUME LiveInv, NEW c \in Picked
  PROVE  ReadsFrom(c, current)
<1>1. current \in [Levels -> Seq(Files(tables))]
  BY DEF LiveInv, VersionsInv, VersionRight, Referenced
<1>2. CASE manual
  <2>1. c \in CompactRange(current, caller.level, caller.from, caller.end)
    BY <1>2 DEF Picked
  <2>2. caller.level \in 0 .. kNumLevels - 2
    BY DEF LiveInv, CallerInv
  <2> QED
    BY <1>1, <2>1, <2>2, CompactRangeFacts
<1>3. CASE ~ manual
  <2>1. c \in PickCompaction(current, compact_pointer, file_to_compact)
    BY <1>3 DEF Picked
  <2>2. \A d \in file_to_compact :
          d.level \in 0 .. kNumLevels - 2 /\ d.file \in Range(current[d.level])
    BY DEF LiveInv, ReaderInv
  <2> QED
    BY <1>1, <2>1, <2>2, PickFacts
<1> QED
  BY <1>2, <1>3

(* What MakeInputIterator gives.                                           *)
LEMMA InputFacts ==
  ASSUME LiveInv, NEW c, ReadsFrom(c, current)
  PROVE  Memtable(InputOf(c))
<1> DEFINE files == Range(c.inputs[1]) \cup Range(c.inputs[2])
<1>1. /\ files \subseteq FilesOf(current) /\ IsFiniteSet(files)
  <2>1. c.inputs[1] \in Seq(FilesOf(current)) /\ c.inputs[2] \in Seq(FilesOf(current))
    BY DEF ReadsFrom
  <2>2. /\ IsFiniteSet(Range(c.inputs[1])) /\ IsFiniteSet(Range(c.inputs[2]))
        /\ Range(c.inputs[1]) \subseteq FilesOf(current)
        /\ Range(c.inputs[2]) \subseteq FilesOf(current)
    BY <2>1, RangeIsFinite, RangeFacts
  <2> QED
    BY <2>2, FS_Union
<1>2. TablesRight(tables) /\ VersionRight(current, tables)
  BY DEF LiveInv, VersionsInv, Referenced
<1>3. \A f \in files : Memtable(tables[f.number])
  <2> TAKE f \in files
  <2>1. f \in Files(tables)
    BY <1>1, <1>2, FilesOfFacts
  <2>2. f.number \in DOMAIN tables
    BY <1>2, <2>1, FilesFacts
  <2> QED
    BY <1>2, <2>2 DEF TablesRight
<1> HIDE DEF files
<1>4. IsFiniteSet({tables[f.number] : f \in files})
  <2> DEFINE table == [f \in files |-> tables[f.number]]
  <2>1. table \in Surjection(files, {tables[f.number] : f \in files})
    BY DEF Surjection
  <2> QED
    BY <1>1, <2>1, FS_Surjection
<1>5. IsFiniteSet(UNION {tables[f.number] : f \in files})
  BY <1>3, <1>4, FS_UNION DEF Memtable
<1>6. UNION {tables[f.number] : f \in files} \subseteq Entry
  BY <1>3 DEF Memtable
<1> QED
  BY <1>5, <1>6 DEF InputOf, files, Memtable

(* What is left of an input once an entry is taken from it.                *)
LEMMA TakenFacts ==
  ASSUME NEW S, Memtable(S), NEW x
  PROVE  Memtable(S \ {x})
<1>1. S \ {x} \in SUBSET S
  OBVIOUS
<1> QED
  BY <1>1, FS_Subset DEF Memtable

(* One round of the loop: an output is written over only while it is open, *)
(* and no version names it then.                                           *)
LEMMA CompactKeyKeepsLive ==
  ASSUME LiveInv, NEW w \in work, CompactKey(w)
  PROVE  LiveInv'
<1> USE DEF clientVars, memVars, fileVars, versionVars, bgVars, callVars
<1> DEFINE ikey == Smallest(w.input)
           stop == ShouldStopBefore(w.c, w.scan, ikey)
           open == w.open /\ ~ stop.stop
           drop == Drop(w, ikey)
           number == IF open THEN Last(w.outputs) ELSE next_file_number
           entries == IF open THEN tables[number] \cup {ikey} ELSE {ikey}
           input == w.input \ {ikey}
           outputs == IF drop \/ open THEN w.outputs ELSE Append(w.outputs, number)
           opened == IF drop THEN open ELSE Cardinality(entries) < TargetFileSize
<1>1. /\ w.input # {} /\ flush = {} /\ flush' = {}
      /\ IF drop THEN UNCHANGED <<tables, next_file_number, pending_outputs>>
         ELSE /\ tables' = WithTable(tables, number, entries)
              /\ IF open THEN UNCHANGED <<next_file_number, pending_outputs>>
                 ELSE /\ next_file_number' = number + 1
                      /\ pending_outputs' = pending_outputs \cup {number}
      /\ UNCHANGED <<mem, imm, last_sequence, reader, current, file_to_compact, caller>>
  BY DEF CompactKey, OpenCompactionOutputFile
<1>2. PICK v : /\ work' = {v} /\ {"c", "input", "outputs", "open"} \subseteq DOMAIN v
               /\ v.c = w.c /\ v.input = input /\ v.outputs = outputs /\ v.open = opened
  <2>1. PICK key, last, scan :
          work' = {[w EXCEPT !.input = input, !.key = key, !.last_sequence_for_key = last,
                             !.scan = scan, !.outputs = outputs, !.open = opened]}
    BY DEF CompactKey
  <2> HIDE DEF input, outputs, opened
  <2> DEFINE v == [w EXCEPT !.input = input, !.key = key, !.last_sequence_for_key = last,
                            !.scan = scan, !.outputs = outputs, !.open = opened]
  <2>2. {"c", "input", "outputs", "open"} \subseteq DOMAIN w
    BY DEF LiveInv, OutputsInv
  <2>3. /\ {"c", "input", "outputs", "open"} \subseteq DOMAIN v
        /\ v.c = w.c /\ v.input = input /\ v.outputs = outputs /\ v.open = opened
    BY <2>2
  <2> HIDE DEF v
  <2>4. work' = {v}
    BY <2>1 DEF v
  <2> QED
    BY <2>3, <2>4
<1>3. /\ Memtable(w.input) /\ w.outputs \in Seq(Nat) /\ (w.open => w.outputs # << >>)
      /\ \A n \in Range(w.outputs) :
            /\ n \in DOMAIN tables /\ n \in pending_outputs /\ n < next_file_number
            /\ \A u \in Referenced : n \notin NumbersIn(u)
      /\ work = {w}
  BY DEF LiveInv, OutputsInv
<1>4. /\ TablesRight(tables) /\ next_file_number \in Nat
      /\ \A u \in Referenced : /\ VersionRight(u, tables)
                               /\ \A n \in NumbersIn(u) : n < next_file_number
  BY DEF LiveInv, VersionsInv
<1>5. ikey \in w.input /\ ikey \in Entry
  BY <1>1, <1>3, SmallestFacts DEF Memtable
<1>6. Memtable(input)
  BY <1>3, TakenFacts
<1> HIDE DEF ikey, stop, drop, input
<1>7. open => number \in Range(w.outputs)
  <2> SUFFICES ASSUME open
               PROVE  Last(w.outputs) \in Range(w.outputs)
    BY DEF number
  <2>1. w.outputs \in Seq(Nat) /\ w.outputs # << >>
    BY <1>3
  <2>2. Len(w.outputs) \in DOMAIN w.outputs
    BY <2>1
  <2> QED
    BY <2>2 DEF Range, Last
<1>8. number \in Nat /\ (~ open => number = next_file_number)
  BY <1>3, <1>4, <1>7, RangeFacts
<1>9. \A u \in Referenced : number \notin NumbersIn(u)
  BY <1>3, <1>4, <1>7, <1>8
<1>10. Memtable(entries) /\ entries # {}
  <2>1. open => Memtable(tables[number])
    BY <1>3, <1>4, <1>7 DEF TablesRight
  <2> HIDE DEF open, number
  <2>2. Memtable({ikey})
    BY <1>5, FS_Singleton DEF Memtable
  <2> QED
    BY <1>5, <2>1, <2>2, FS_AddElement DEF Memtable
<1> HIDE DEF number, entries, open
<1>11. Referenced' = Referenced
  BY <1>1, <1>2, <1>3 DEF Referenced, InputVersions
<1>12. next_file_number' \in Nat /\ next_file_number <= next_file_number'
  BY <1>1, <1>4, <1>8
<1>13. /\ TablesRight(tables') /\ DOMAIN tables \subseteq DOMAIN tables'
       /\ \A u \in Referenced : VersionRight(u, tables')
       /\ ~ drop => number \in DOMAIN tables'
  <2>1. CASE drop
    BY <1>1, <1>4, <2>1
  <2>2. CASE ~ drop
    <3>1. tables' = WithTable(tables, number, entries) /\ number \in Nat
      BY <1>1, <1>8, <2>2
    <3>2. /\ TablesRight(tables') /\ DOMAIN tables' = DOMAIN tables \cup {number}
          /\ \A u : VersionRight(u, tables) /\ number \notin NumbersIn(u)
                    => VersionRight(u, tables')
      BY <1>4, <1>10, <3>1, WrittenFacts
    <3> QED
      BY <1>4, <1>9, <3>2
  <2> QED
    BY <2>1, <2>2
<1>14. VersionsInv'
  <2>1. \A u \in Referenced : \A n \in NumbersIn(u) : n \in Nat /\ n < next_file_number'
    <3>1. \A u \in Referenced : NumbersIn(u) \subseteq DOMAIN tables
      BY <1>4, FilesOfFacts
    <3>2. DOMAIN tables \subseteq Nat
      BY <1>4 DEF TablesRight
    <3> QED
      BY <1>4, <1>12, <3>1, <3>2
  <2> QED
    BY <1>11, <1>12, <1>13, <2>1 DEF VersionsInv
<1>15. OutputsInv'
  <2>1. /\ outputs \in Seq(Nat)
        /\ \A n \in Range(outputs) : n \in Range(w.outputs) \/ (~ drop /\ ~ open /\ n = number)
    <3>1. CASE drop \/ open
      BY <1>3, <3>1
    <3>2. CASE ~ (drop \/ open)
      <4>1. outputs = Append(w.outputs, number)
        BY <3>2
      <4>2. outputs \in Seq(Nat) /\ \A i \in DOMAIN outputs :
                                      \/ i \in DOMAIN w.outputs /\ outputs[i] = w.outputs[i]
                                      \/ outputs[i] = number
        BY <1>3, <1>8, <4>1
      <4> HIDE DEF outputs
      <4> QED
        BY <3>2, <4>2 DEF Range
    <3> QED
      BY <3>1, <3>2
  <2>2. opened => outputs # << >>
    <3>1. CASE drop
      BY <1>3, <3>1 DEF open
    <3>2. CASE ~ drop /\ open
      BY <1>3, <3>2 DEF open
    <3>3. CASE ~ drop /\ ~ open
      <4>1. outputs = Append(w.outputs, number) /\ w.outputs \in Seq(Nat)
        BY <1>3, <3>3
      <4>2. Append(w.outputs, number) # << >>
        BY <1>8, <4>1
      <4> QED
        BY <4>1, <4>2
    <3> QED
      BY <3>1, <3>2, <3>3
  <2> HIDE DEF outputs, opened
  <2>3. ASSUME NEW n \in Range(outputs)
        PROVE  /\ n \in DOMAIN tables' /\ n \in pending_outputs' /\ n < next_file_number'
               /\ \A u \in Referenced : n \notin NumbersIn(u)
    <3>1. CASE n \in Range(w.outputs)
      <4>1. n \in Nat
        BY <1>3, <3>1, RangeFacts
      <4> QED
        BY <1>1, <1>3, <1>4, <1>12, <1>13, <3>1, <4>1
    <3>2. CASE ~ drop /\ ~ open /\ n = number
      BY <1>1, <1>8, <1>9, <1>13, <3>2
    <3> QED
      BY <2>1, <3>1, <3>2
  <2> QED
    BY <1>1, <1>2, <1>6, <1>11, <2>1, <2>2, <2>3 DEF OutputsInv
<1>16. MemInv' /\ ReaderInv' /\ CallerInv' /\ FlushInv'
  BY <1>1 DEF LiveInv, MemInv, ReaderInv, CallerInv, FlushInv
<1> QED
  BY <1>14, <1>15, <1>16 DEF LiveInv

(* The end of a compaction.                                                *)
LEMMA WorkEndKeepsLive ==
  ASSUME LiveInv, NEW w \in work, WorkInstalls(w) \/ WorkFails(w)
  PROVE  LiveInv'
<1> USE DEF clientVars, memVars, fileVars, versionVars, bgVars, callVars
<1> DEFINE pending == pending_outputs \ Range(w.outputs)
<1>1. /\ flush = {} /\ flush' = {} /\ work' = {} /\ pending_outputs' = pending
      /\ UNCHANGED <<mem, imm, last_sequence, next_file_number>>
      /\ \/ caller' = caller
         \/ \E key : caller' = [caller EXCEPT !.from = key]
         \/ caller' = [caller EXCEPT !.done = TRUE]
  <2>1. PICK ok \in BOOLEAN : FinishWork(w, ok)
    BY DEF WorkInstalls, WorkFails
  <2>2. flush = {}
    BY DEF WorkInstalls, WorkFails
  <2> QED
    BY <2>1, <2>2 DEF FinishWork
<1>2. CallerInv'
  BY <1>1 DEF LiveInv, CallerInv
<1>3. MemInv' /\ FlushInv' /\ OutputsInv'
  BY <1>1 DEF LiveInv, MemInv, FlushInv, OutputsInv
<1>4. /\ TablesRight(tables) /\ next_file_number \in Nat
      /\ \A v \in Referenced : /\ VersionRight(v, tables)
                               /\ \A n \in NumbersIn(v) : n < next_file_number
  BY DEF LiveInv, VersionsInv
<1>5. CASE WorkFails(w)
  <2>1. UNCHANGED <<tables, current, file_to_compact, reader>>
    BY <1>5 DEF WorkFails
  <2>2. Referenced' \subseteq Referenced
    BY <1>1, <2>1 DEF Referenced, InputVersions
  <2>3. VersionsInv' /\ ReaderInv'
    BY <1>1, <1>4, <2>1, <2>2 DEF LiveInv, VersionsInv, ReaderInv
  <2> QED
    BY <1>2, <1>3, <2>3 DEF LiveInv
<1>6. CASE WorkInstalls(w)
  <2> DEFINE added == {<<w.c.level + 1, TableFile(n, tables[n])>> : n \in Range(w.outputs)}
             edit == Edit(AddInputDeletions(w.c), added)
             version == ApplyEdit(current, edit)
  <2>1. /\ Install(version)
        /\ tables' = Kept(tables, {current'}, pending, bg_error)
    BY <1>6 DEF WorkInstalls
  <2>2. current \in Referenced
    BY DEF Referenced
  <2>3. /\ IsFiniteSet(Range(w.outputs))
        /\ \A n \in Range(w.outputs) : n \in DOMAIN tables /\ n < next_file_number
    <3>1. /\ w.outputs \in Seq(Nat)
          /\ \A n \in Range(w.outputs) : n \in DOMAIN tables /\ n < next_file_number
      BY DEF LiveInv, OutputsInv
    <3> QED
      BY <3>1, RangeIsFinite
  <2>4. /\ IsFiniteSet(added)
        /\ \A a \in added : a[2] \in Files(tables) /\ a[2].number < next_file_number
    <3> DEFINE add == [n \in Range(w.outputs) |-> <<w.c.level + 1, TableFile(n, tables[n])>>]
    <3>1. add \in Surjection(Range(w.outputs), added)
      BY DEF Surjection
    <3>2. IsFiniteSet(added)
      BY <2>3, <3>1, FS_Surjection
    <3>3. \A n \in Range(w.outputs) : /\ TableFile(n, tables[n]) \in Files(tables)
                                      /\ TableFile(n, tables[n]).number = n
      BY <2>3 DEF Files, TableFile, FileMetaData
    <3> QED
      BY <2>3, <3>2, <3>3
  <2>5. edit.added = added
    BY DEF Edit
  <2> HIDE DEF added, edit, version
  <2>6. /\ VersionRight(version, tables)
        /\ NumbersIn(version) \subseteq NumbersIn(current) \cup {a[2].number : a \in edit.added}
    BY <1>4, <2>2, <2>4, <2>5, SaveToFacts DEF version
  <2>7. /\ current' = version /\ ReaderInv'
        /\ {r.version : r \in reader'} = {r.version : r \in reader}
    BY <2>1, InstallFacts
  <2>8. Referenced' = {current'} \cup {r.version : r \in reader}
    BY <1>1, <2>7 DEF Referenced, InputVersions
  <2>9. \A v \in Referenced' : v = version \/ v \in Referenced
    BY <2>7, <2>8 DEF Referenced
  <2> DEFINE versions == {current'}
  <2> HIDE DEF versions, pending
  <2>10. /\ TablesRight(tables')
         /\ \A n \in DOMAIN tables' : tables'[n] = tables[n]
         /\ \A v \in Referenced' :
              \A n \in NumbersIn(v) : n \in DOMAIN tables => n \in DOMAIN tables'
    <3>1. tables' = Kept(tables, versions, pending, bg_error)
      BY <2>1 DEF versions
    <3>2. /\ TablesRight(tables')
          /\ \A n \in DOMAIN tables' : tables'[n] = tables[n]
          /\ \A v \in versions \cup {r.version : r \in reader} :
               \A n \in NumbersIn(v) : n \in DOMAIN tables => n \in DOMAIN tables'
      BY <1>4, <3>1, KeptFacts
    <3> QED
      BY <2>8, <3>2 DEF versions
  <2>11. ASSUME NEW v \in Referenced'
         PROVE  VersionRight(v, tables') /\ \A n \in NumbersIn(v) : n < next_file_number
    <3>1. VersionRight(v, tables)
      BY <1>4, <2>6, <2>9
    <3>2. NumbersIn(v) \subseteq DOMAIN tables
      BY <1>4, <3>1, FilesOfFacts
    <3>3. \A n \in NumbersIn(v) : n \in DOMAIN tables' /\ tables'[n] = tables[n]
      BY <2>10, <3>2
    <3>4. VersionRight(v, tables')
      BY <3>1, <3>3, VersionStays
    <3>5. \A n \in NumbersIn(v) : n < next_file_number
      BY <1>4, <2>2, <2>4, <2>5, <2>6, <2>9
    <3> QED
      BY <3>4, <3>5
  <2>12. VersionsInv'
    BY <1>1, <1>4, <2>10, <2>11 DEF VersionsInv
  <2> QED
    BY <1>2, <1>3, <2>7, <2>12 DEF LiveInv
<1> QED
  BY <1>5, <1>6

(* A trivial move gives one file another level.                            *)
LEMMA TrivialMoveKeepsLive ==
  ASSUME LiveInv, NEW c \in Picked, TrivialMove(c)
  PROVE  LiveInv'
<1> USE DEF clientVars, memVars, fileVars, versionVars, bgVars, callVars
<1> DEFINE f == c.inputs[1][1]
           added == {<<c.level + 1, f>>}
           edit == Edit({<<c.level, f.number>>}, added)
           version == ApplyEdit(current, edit)
<1>1. /\ UNCHANGED <<mem, imm, last_sequence, tables, next_file_number, pending_outputs,
                    flush, work, caller>>
      /\ flush = {} /\ work = {}
      /\ IsTrivialMove(c)
      /\ Install(version) \/ UNCHANGED <<current, file_to_compact, reader>>
  BY DEF TrivialMove, BackgroundStarts
<1>2. MemInv' /\ CallerInv' /\ FlushInv' /\ OutputsInv'
  BY <1>1 DEF LiveInv, MemInv, CallerInv, FlushInv, OutputsInv
<1>3. /\ TablesRight(tables) /\ next_file_number \in Nat
      /\ \A v \in Referenced : /\ VersionRight(v, tables)
                               /\ \A n \in NumbersIn(v) : n < next_file_number
  BY DEF LiveInv, VersionsInv
<1>4. CASE UNCHANGED <<current, file_to_compact, reader>>
  <2>1. Referenced' = Referenced
    BY <1>1, <1>4 DEF Referenced, InputVersions
  <2>2. VersionsInv' /\ ReaderInv'
    BY <1>1, <1>3, <1>4, <2>1 DEF LiveInv, VersionsInv, ReaderInv
  <2> QED
    BY <1>2, <2>2 DEF LiveInv
<1>5. CASE Install(version)
  <2>1. current \in Referenced
    BY DEF Referenced
  <2>2. f \in FilesOf(current)
    <3>1. c.inputs[1] \in Seq(FilesOf(current)) /\ Len(c.inputs[1]) = 1
      BY <1>1, PickedFacts DEF ReadsFrom, IsTrivialMove
    <3> QED
      BY <3>1
  <2> HIDE DEF f
  <2>3. f \in Files(tables) /\ f.number \in NumbersIn(current)
    BY <1>3, <2>1, <2>2, FilesOfFacts
  <2>4. edit.added = added
    BY DEF Edit
  <2>5. IsFiniteSet(added) /\ \A a \in added : a[2] = f
    <3>1. IsFiniteSet({<<c.level + 1, f>>})
      BY FS_Singleton
    <3> QED
      BY <3>1
  <2> HIDE DEF edit, added, version
  <2>6. /\ VersionRight(version, tables)
        /\ NumbersIn(version) \subseteq NumbersIn(current) \cup {a[2].number : a \in edit.added}
    BY <1>3, <2>1, <2>3, <2>4, <2>5, SaveToFacts DEF version
  <2>7. NumbersIn(version) \subseteq NumbersIn(current)
    BY <2>3, <2>4, <2>5, <2>6
  <2>8. /\ current' = version /\ ReaderInv'
        /\ {r.version : r \in reader'} = {r.version : r \in reader}
    BY <1>5, InstallFacts
  <2>9. \A v \in Referenced' : v = version \/ v \in Referenced
    BY <1>1, <2>8 DEF Referenced, InputVersions
  <2>10. \A v \in Referenced' : /\ VersionRight(v, tables)
                                /\ \A n \in NumbersIn(v) : n < next_file_number
    BY <1>3, <2>1, <2>6, <2>7, <2>9
  <2>11. VersionsInv'
    BY <1>1, <1>3, <2>10 DEF VersionsInv
  <2> QED
    BY <1>2, <2>8, <2>11 DEF LiveInv
<1> QED
  BY <1>1, <1>4, <1>5

(* A compaction begins: it holds a reference to the current version.       *)
LEMMA WorkStartKeepsLive ==
  ASSUME LiveInv, NEW c \in Picked, DoCompactionWork(c)
  PROVE  LiveInv'
<1> USE DEF clientVars, memVars, fileVars, versionVars, bgVars, callVars
<1>1. /\ UNCHANGED <<mem, imm, last_sequence, reader, tables, next_file_number, pending_outputs,
                    current, file_to_compact, flush, caller>>
      /\ flush = {} /\ work = {}
  BY DEF DoCompactionWork, BackgroundStarts
<1>2. PICK v : /\ work' = {v} /\ {"c", "input", "outputs", "open"} \subseteq DOMAIN v
               /\ v.c = c /\ v.input = InputOf(c) /\ v.outputs = << >> /\ ~ v.open
  <2>1. PICK smallest, last, scan :
          work' = {[c |-> c, is_manual |-> manual, input |-> InputOf(c),
                    smallest_snapshot |-> smallest, key |-> 0, last_sequence_for_key |-> last,
                    scan |-> scan, outputs |-> << >>, open |-> FALSE]}
    BY DEF DoCompactionWork
  <2> DEFINE v == [c |-> c, is_manual |-> manual, input |-> InputOf(c),
                   smallest_snapshot |-> smallest, key |-> 0, last_sequence_for_key |-> last,
                   scan |-> scan, outputs |-> << >>, open |-> FALSE]
  <2>2. /\ {"c", "input", "outputs", "open"} \subseteq DOMAIN v
        /\ v.c = c /\ v.input = InputOf(c) /\ v.outputs = << >> /\ ~ v.open
    OBVIOUS
  <2> HIDE DEF v
  <2>3. work' = {v}
    BY <2>1 DEF v
  <2> QED
    BY <2>2, <2>3
<1>3. ReadsFrom(c, current)
  BY PickedFacts
<1>4. Memtable(v.input) /\ v.c.version = current
  BY <1>2, <1>3, InputFacts DEF ReadsFrom
<1>5. Referenced' = Referenced
  BY <1>1, <1>2, <1>4 DEF Referenced, InputVersions
<1>6. VersionsInv'
  BY <1>1, <1>5 DEF LiveInv, VersionsInv
<1>7. OutputsInv'
  <2>1. v.outputs \in Seq(Nat) /\ Range(v.outputs) = {}
    BY <1>2 DEF Range
  <2> QED
    BY <1>2, <1>4, <2>1 DEF OutputsInv
<1>8. MemInv' /\ ReaderInv' /\ CallerInv' /\ FlushInv'
  BY <1>1 DEF LiveInv, MemInv, ReaderInv, CallerInv, FlushInv
<1> QED
  BY <1>6, <1>7, <1>8 DEF LiveInv

(* The background thread.                                                  *)
LEMMA BackgroundKeepsLive ==
  ASSUME LiveInv, Background
  PROVE  LiveInv'
<1> USE DEF clientVars, memVars, fileVars, versionVars, bgVars, callVars
<1>1. CASE FlushBegins
  <2>1. /\ UNCHANGED <<mem, imm, last_sequence, reader, tables, current, file_to_compact,
                       work, caller>>
        /\ imm # {}
        /\ flush' = {[number |-> next_file_number, base |-> current]}
        /\ next_file_number' = next_file_number + 1
        /\ pending_outputs' = pending_outputs \cup {next_file_number}
    BY <1>1 DEF FlushBegins
  <2>2. Referenced' = Referenced
    BY <2>1 DEF Referenced, InputVersions
  <2>3. /\ TablesRight(tables) /\ next_file_number \in Nat
        /\ \A v \in Referenced :
             VersionRight(v, tables) /\ \A n \in NumbersIn(v) : n < next_file_number
    BY DEF LiveInv, VersionsInv
  <2>4. \A v \in Referenced : NumbersIn(v) \subseteq Nat
    BY <2>3, FilesOfFacts DEF TablesRight
  <2>5. VersionsInv'
    BY <2>1, <2>2, <2>3, <2>4 DEF VersionsInv
  <2>6. FlushInv'
    <3>1. \A v \in Referenced : next_file_number \notin NumbersIn(v)
      BY <2>3, <2>4
    <3> QED
      BY <2>1, <2>2, <2>3, <3>1 DEF FlushInv
  <2>7. OutputsInv'
    <3>1. ASSUME NEW w \in work, NEW n \in Range(w.outputs)
          PROVE  /\ n \in DOMAIN tables /\ n \in pending_outputs'
                 /\ n < next_file_number + 1 /\ n # next_file_number
                 /\ \A v \in Referenced : n \notin NumbersIn(v)
      <4>1. /\ n \in DOMAIN tables /\ n \in pending_outputs /\ n < next_file_number
            /\ \A v \in Referenced : n \notin NumbersIn(v)
        BY DEF LiveInv, OutputsInv
      <4>2. n \in Nat
        BY <2>3, <4>1 DEF TablesRight
      <4> QED
        BY <2>1, <2>3, <4>1, <4>2
    <3> QED
      BY <2>1, <2>2, <3>1 DEF LiveInv, OutputsInv
  <2>8. MemInv' /\ ReaderInv' /\ CallerInv'
    BY <2>1 DEF LiveInv, MemInv, ReaderInv, CallerInv
  <2> QED
    BY <2>5, <2>6, <2>7, <2>8 DEF LiveInv
<1>2. CASE BackgroundIdles \/ NothingToCompact
  <2>1. /\ UNCHANGED <<mem, imm, last_sequence, reader, tables, next_file_number,
                       pending_outputs, current, file_to_compact, flush, work>>
        /\ caller' = caller \/ caller' = [caller EXCEPT !.done = TRUE]
    BY <1>2 DEF BackgroundIdles, NothingToCompact
  <2>2. Referenced' = Referenced
    BY <2>1 DEF Referenced, InputVersions
  <2>3. MemInv' /\ ReaderInv' /\ CallerInv'
    BY <2>1 DEF LiveInv, MemInv, ReaderInv, CallerInv
  <2> QED
    BY <2>1, <2>2, <2>3, StillLive DEF LiveInv
<1> QED
  BY <1>1, <1>2, FlushKeepsLive, TrivialMoveKeepsLive, WorkStartKeepsLive, CompactKeyKeepsLive,
     WorkEndKeepsLive DEF Background

(* What Recover leaves is right.                                           *)
LEMMA RecoveredIsLive ==
  Init => LiveInv
<1> SUFFICES ASSUME Init
             PROVE  LiveInv
  OBVIOUS
<1>1. PICK db \in Recovered :
        /\ tables = db.tables /\ current = VersionOf(db)
        /\ last_sequence = db.last_sequence
        /\ next_file_number = Cardinality(DOMAIN db.tables) + 1
  BY DEF Init
<1>2. /\ db.last_sequence \in Nat /\ db.tables \in Seq(SUBSET Entry)
      /\ \A n \in DOMAIN db.tables : IsFiniteSet(db.tables[n]) /\ db.tables[n] # {}
  BY CompactionAssumption
<1>3. /\ mem = {} /\ imm = {} /\ reader = {} /\ file_to_compact = {} /\ flush = {} /\ work = {}
      /\ caller = [pc |-> "idle", level |-> 0, max |-> 1, begin |-> 0, end |-> 0,
                   from |-> 0, done |-> FALSE]
  BY DEF Init
<1>4. DOMAIN tables = 1 .. Len(tables) /\ Len(tables) \in Nat /\ next_file_number = Len(tables) + 1
  <2>1. DOMAIN tables = 1 .. Len(tables) /\ Len(tables) \in Nat
    BY <1>1, <1>2
  <2>2. Cardinality(1 .. Len(tables)) = Len(tables)
    <3> DEFINE n == Len(tables)
    <3>1. n \in Nat
      BY <2>1
    <3> HIDE DEF n
    <3>2. Cardinality(1 .. n) = n
      BY <3>1, FS_Interval
    <3> QED
      BY <3>2 DEF n
  <2> QED
    BY <1>1, <2>1, <2>2
<1>5. TablesRight(tables)
  BY <1>1, <1>2, <1>4 DEF TablesRight, Memtable
<1>6. VersionRight(current, tables)
  <2> DEFINE file == [n \in DOMAIN tables |-> TableFile(n, tables[n])]
             mine(level) == {m \in DOMAIN tables : db.level[m] = level}
             at == [level \in Levels |-> {TableFile(n, tables[n]) : n \in mine(level)}]
  <2>1. current = [level \in Levels |-> InOrder(at[level], BySmallestKey)]
    <3>1. current = [level \in Levels |->
                       InOrder({TableFile(n, tables[n]) : n \in mine(level)}, BySmallestKey)]
      BY <1>1 DEF VersionOf
    <3>2. \A level \in Levels : at[level] = {TableFile(n, tables[n]) : n \in mine(level)}
      OBVIOUS
    <3> QED
      BY <3>1, <3>2, Zenon
  <2>2. IsFiniteSet(Files(tables))
    <3>1. file \in Surjection(DOMAIN tables, Files(tables))
      BY DEF Surjection, Files
    <3> QED
      BY <1>4, <3>1, FS_Interval, FS_Surjection
  <2>3. ASSUME NEW level \in Levels
        PROVE  at[level] \subseteq Files(tables) /\ IsFiniteSet(at[level])
    <3>1. at[level] \in SUBSET Files(tables)
      BY DEF Files
    <3> HIDE DEF at
    <3> QED
      BY <2>2, <3>1, FS_Subset
  <2>4. at \in [Levels -> SUBSET Files(tables)]
    BY <2>3
  <2> HIDE DEF at
  <2> QED
    BY <1>5, <2>1, <2>3, <2>4, LevelsInOrder
<1>7. Referenced = {current}
  BY <1>3 DEF Referenced, InputVersions
<1>8. \A n \in NumbersIn(current) : n < next_file_number
  <2>1. NumbersIn(current) \subseteq DOMAIN tables
    BY <1>5, <1>6, FilesOfFacts
  <2> QED
    BY <1>4, <2>1
<1>9. VersionsInv
  BY <1>4, <1>5, <1>6, <1>7, <1>8 DEF VersionsInv
<1>10. MemInv
  BY <1>1, <1>2, <1>3, FS_EmptySet DEF MemInv, Memtable
<1>11. ReaderInv /\ FlushInv /\ OutputsInv
  BY <1>3 DEF ReaderInv, FlushInv, OutputsInv
<1>12. CallerInv
  BY <1>3, CompactionAssumption DEF CallerInv
<1> QED
  BY <1>9, <1>10, <1>11, <1>12 DEF LiveInv

(* The invariant holds of every reachable state.                           *)
LEMMA LiveHolds == Spec => []LiveInv
<1>1. LiveInv /\ [Next]_vars => LiveInv'
  <2>1. ASSUME LiveInv, UNCHANGED vars
        PROVE  LiveInv'
    <3>1. /\ UNCHANGED <<mem, imm, last_sequence, reader, tables, next_file_number,
                         pending_outputs, current, file_to_compact, flush, work, caller>>
      BY <2>1 DEF vars, clientVars, memVars, fileVars, versionVars, bgVars, callVars
    <3>2. Referenced' = Referenced
      BY <3>1 DEF Referenced, InputVersions
    <3>3. MemInv' /\ ReaderInv' /\ CallerInv'
      BY <2>1, <3>1 DEF LiveInv, MemInv, ReaderInv, CallerInv
    <3> QED
      BY <2>1, <3>1, <3>2, <3>3, StillLive DEF LiveInv
  <2> QED
    BY <2>1, ClientKeepsLive, CallerKeepsLive, BackgroundKeepsLive DEF Next
<1> QED
  BY <1>1, RecoveredIsLive, PTL DEF Spec

(* DeleteObsoleteFiles never deletes a table that the current version, a   *)
(* reader's, or the compaction under way names, and no such table is       *)
(* written over: whatever flushes, merges, moves, failures and reads fall  *)
(* between the steps, a version's metadata describe its tables.            *)
THEOREM LiveFilesStay == Spec => []LiveFilesExist
<1>1. LiveInv => LiveFilesExist
  <2> SUFFICES ASSUME LiveInv
               PROVE  LiveFilesExist
    OBVIOUS
  <2>1. ASSUME NEW v \in Referenced, NEW f \in FilesOf(v)
        PROVE  f.number \in DOMAIN tables /\ f = TableFile(f.number, tables[f.number])
    <3>1. TablesRight(tables) /\ VersionRight(v, tables)
      BY DEF LiveInv, VersionsInv
    <3>2. f \in Files(tables)
      BY <3>1, FilesOfFacts
    <3> QED
      BY <3>1, <3>2, FilesFacts
  <2>2. \A w \in work : Range(w.outputs) \subseteq DOMAIN tables
    BY DEF LiveInv, OutputsInv
  <2> QED
    BY <2>1, <2>2 DEF LiveFilesExist, Referenced, InputVersions
<1> QED
  BY <1>1, LiveHolds, PTL

(* The files of every level lie in the order of SaveTo's BySmallestKey,    *)
(* which the binary searches rely on, whatever is flushed, moved, merged   *)
(* or restarted from; and there is one memtable put aside, one flush and   *)
(* one compaction at a time, with the background thread scheduled.         *)
THEOREM LevelsStaySorted == Spec => []DBTypeOK
<1>1. LiveInv /\ WorkInv => DBTypeOK
  <2> SUFFICES ASSUME LiveInv, WorkInv
               PROVE  DBTypeOK
    OBVIOUS
  <2>1. last_sequence \in Nat
    BY DEF LiveInv, MemInv
  <2>2. \A S : (S = {} \/ \E x \in S : S = {x}) => Cardinality(S) <= 1
    BY FS_EmptySet, FS_Singleton
  <2>3. Cardinality(imm) <= 1 /\ Cardinality(flush) <= 1 /\ Cardinality(work) <= 1
    BY <2>2 DEF LiveInv, MemInv, FlushInv, OutputsInv
  <2>4. (flush # {} \/ work # {}) => scheduled
    BY DEF WorkInv
  <2>5. ASSUME NEW level \in Levels, NEW i \in 1 .. Len(current[level]) - 1
        PROVE  BySmallestKey(current[level][i], current[level][i + 1])
    <3>1. /\ current[level] \in Seq(Files(tables))
          /\ \A a, b \in 1 .. Len(current[level]) :
               a < b => BySmallestKey(current[level][a], current[level][b])
      BY DEF LiveInv, VersionsInv, VersionRight, Referenced
    <3>2. i \in 1 .. Len(current[level]) /\ i + 1 \in 1 .. Len(current[level]) /\ i < i + 1
      BY <3>1
    <3> QED
      BY <3>1, <3>2
  <2> QED
    BY <2>1, <2>3, <2>4, <2>5 DEF DBTypeOK
<1> QED
  BY <1>1, LiveHolds, WorkHolds, PTL

-----------------------------------------------------------------------------
(* Lemmas: entries, files and levels in order.                             *)

IKeys == [key : Nat, seq : Nat, type : {0, 1}]

(* The order of internal keys, and what it says of user keys.              *)
LEMMA LessFacts ==
  /\ \A a \in IKeys : ~ Less(a, a)
  /\ \A a, b, c \in IKeys : Less(a, b) /\ Less(b, c) => Less(a, c)
  /\ \A a, b \in IKeys : a = b \/ Less(a, b) \/ Less(b, a)
  /\ \A a, b \in IKeys : Less(a, b) => a.key <= b.key
  /\ \A a, b \in IKeys : a.key < b.key => Less(a, b)
  /\ \A a, b \in IKeys : Less(a, b) /\ a.key = b.key => a.seq >= b.seq
<1>1. \A a, b \in IKeys : a = b \/ Less(a, b) \/ Less(b, a)
  <2> SUFFICES ASSUME NEW a \in IKeys, NEW b \in IKeys, a # b
               PROVE  Less(a, b) \/ Less(b, a)
    OBVIOUS
  <2>1. /\ a.key \in Nat /\ a.seq \in Nat /\ a.type \in {0, 1}
        /\ b.key \in Nat /\ b.seq \in Nat /\ b.type \in {0, 1}
    BY DEF IKeys
  <2>2. a.key # b.key \/ a.seq # b.seq \/ a.type # b.type
    BY DEF IKeys
  <2> QED
    BY <2>1, <2>2 DEF Less, PackSequenceAndType
<1>2. /\ \A a \in IKeys : ~ Less(a, a)
      /\ \A a, b, c \in IKeys : Less(a, b) /\ Less(b, c) => Less(a, c)
  BY DEF IKeys, Less, PackSequenceAndType
<1>3. \A a, b \in IKeys : /\ (Less(a, b) => a.key <= b.key)
                          /\ (a.key < b.key => Less(a, b))
                          /\ (Less(a, b) /\ a.key = b.key => a.seq >= b.seq)
  BY DEF IKeys, Less, PackSequenceAndType
<1> QED
  BY <1>1, <1>2, <1>3

(* The entries of the database are internal keys.                          *)
LEMMA EntryIsIKey == Entry \subseteq IKeys
  BY CompactionAssumption DEF Entry, IKeys, kTypeDeletion, kTypeValue

(* The ends of a finite set of entries.                                    *)
LEMMA EndsOfTable ==
  ASSUME NEW S, Memtable(S), S # {}
  PROVE  /\ Smallest(S) \in S /\ \A e \in S : ~ Less(e, Smallest(S))
         /\ Largest(S) \in S /\ \A e \in S : ~ Less(Largest(S), e)
<1>1. StrictOrder(S, LessOn(S)) /\ IsFiniteSet(S)
  BY LessIsOrder DEF Memtable
<1>2. \A a, b \in S : <<a, b>> \in LessOn(S) <=> Less(a, b)
  BY DEF LessOn
<1>3. /\ \E x \in S : \A y \in S : ~ Less(y, x)
      /\ \E x \in S : \A y \in S : ~ Less(x, y)
  <2>1. /\ \E x \in S : \A y \in S : <<y, x>> \notin LessOn(S)
        /\ \E x \in S : \A y \in S : <<x, y>> \notin LessOn(S)
    <3> HIDE DEF LessOn
    <3> QED
      BY <1>1, EndsFacts
  <2> QED
    BY <1>2, <2>1
<1> QED
  BY <1>3 DEF Smallest, Largest

(* Files as ranges of internal keys.                                       *)
Ranged(F) ==
  \A f \in F : f.smallest \in IKeys /\ f.largest \in IKeys /\ ~ Less(f.largest, f.smallest)

(* A file spans the entries of its table.                                  *)
LEMMA FilesAreRanged ==
  ASSUME NEW T, TablesRight(T)
  PROVE  /\ Ranged(Files(T))
         /\ \A f \in Files(T) :
              /\ f.smallest \in T[f.number] /\ f.largest \in T[f.number]
              /\ T[f.number] \subseteq IKeys
              /\ \A e \in T[f.number] : ~ Less(e, f.smallest) /\ ~ Less(f.largest, e)
<1>1. ASSUME NEW f \in Files(T)
      PROVE  /\ f.smallest \in T[f.number] /\ f.largest \in T[f.number]
             /\ T[f.number] \subseteq IKeys
             /\ \A e \in T[f.number] : ~ Less(e, f.smallest) /\ ~ Less(f.largest, e)
  <2>1. PICK n \in DOMAIN T : f = TableFile(n, T[n])
    BY DEF Files
  <2>2. f.number = n /\ f.smallest = Smallest(T[n]) /\ f.largest = Largest(T[n])
    BY <2>1 DEF TableFile, FileMetaData
  <2>3. Memtable(T[n]) /\ T[n] # {} /\ T[n] \subseteq IKeys
    BY EntryIsIKey DEF TablesRight, Memtable
  <2> QED
    BY <2>2, <2>3, EndsOfTable
<1> QED
  BY <1>1 DEF Ranged

Apart(f, g) == Less(f.largest, g.smallest) \/ Less(g.largest, f.smallest)
Disjoint(S) == \A f, g \in S : f # g => Apart(f, g)
InSequence(files) ==
  \A i, j \in DOMAIN files : i < j => Less(files[i].largest, files[j].smallest)

(* The binary search finds the first file that does not end before target. *)
LEMMA FindFileFacts ==
  ASSUME NEW F, Ranged(F), NEW files \in Seq(F), InSequence(files), NEW target \in IKeys
  PROVE  /\ FindFile(files, target) \in 0 .. Len(files)
         /\ \A i \in 1 .. Len(files) : i <= FindFile(files, target)
                                         <=> Less(files[i].largest, target)
<1> DEFINE N == Len(files)
           X == [left : 0 .. N, right : 0 .. N]
           after(range) ==
             LET mid == (range.left + range.right) \div 2
             IN  IF range.left >= range.right THEN range
                 ELSE IF Less(files[mid + 1].largest, target)
                      THEN [left |-> mid + 1, right |-> range.right]
                      ELSE [left |-> range.left, right |-> mid]
           step == [range \in X |-> after(range)]
           x0 == [left |-> 0, right |-> N]
           body(g) == [n \in 0 .. N |-> IF n = 0 THEN x0 ELSE after(g[n - 1])]
           narrowed == CHOOSE g : g = body(g)
<1>1. FindFile(files, target) = narrowed[N].right
  BY Zenon DEF FindFile
<1>2. N \in Nat /\ DOMAIN files = 1 .. N /\ x0 \in X
  OBVIOUS
<1>3. \A i, j \in 1 .. N : i <= j /\ Less(files[j].largest, target) => Less(files[i].largest, target)
  <2> SUFFICES ASSUME NEW i \in 1 .. N, NEW j \in 1 .. N, i < j, Less(files[j].largest, target)
               PROVE  Less(files[i].largest, target)
    OBVIOUS
  <2>1. Less(files[i].largest, files[j].smallest)
    BY DEF InSequence
  <2>2. files[i] \in F /\ files[j] \in F
    BY <1>2
  <2> QED
    BY <2>1, <2>2, LessFacts DEF Ranged
<1>4. ASSUME NEW range \in X
      PROVE  after(range) \in X
  <2> DEFINE mid == (range.left + range.right) \div 2
  <2>1. CASE range.left >= range.right
    BY <2>1
  <2>2. CASE range.left < range.right
    <3>1. mid \in 0 .. N - 1
      BY <2>2, <1>2
    <3> QED
      BY <2>2, <3>1, <1>2
  <2> QED
    BY <2>1, <2>2, <1>2
<1> HIDE DEF N, X, x0, after
<1>5. step \in [X -> X]
  BY <1>4
<1> HIDE DEF step
<1>6. PICK g \in [0 .. N -> X] : g[0] = x0 /\ \A n \in 1 .. N : g[n] = step[g[n - 1]]
  <2>1. Iterations(N, X, x0, step) # {}
    BY <1>2, <1>5, RecursionTo
  <2> QED
    BY <2>1 DEF Iterations
<1>7. g = body(g)
  <2>1. \A n \in 1 .. N : n - 1 \in 0 .. N
    BY <1>2
  <2>2. \A n \in 1 .. N : g[n] = after(g[n - 1])
    BY <1>6, <2>1 DEF step
  <2> QED
    BY <1>2, <1>6, <2>2
<1>8. narrowed = body(narrowed)
  BY <1>7
<1> HIDE DEF narrowed
<1>9. narrowed[0] = x0 /\ \A n \in 1 .. N : narrowed[n] = after(narrowed[n - 1])
  BY <1>2, <1>8
<1> DEFINE Good(n, l, r) ==
             /\ l \in 0 .. N /\ r \in 0 .. N /\ l <= r /\ (l = r \/ r - l <= N - n)
             /\ \A i \in 1 .. N : i <= l => Less(files[i].largest, target)
             /\ \A i \in 1 .. N : i > r => ~ Less(files[i].largest, target)
           f == [n \in 0 .. N |-> <<n, narrowed[n]>>]
           G == {p \in (0 .. N) \X X : Good(p[1], p[2].left, p[2].right)}
<1>11. f[0] \in G
  <2>1. x0.left = 0 /\ x0.right = N
    BY DEF x0
  <2>2. f[0] = <<0, x0>>
    BY <1>2, <1>9
  <2>3. Good(0, 0, N)
    BY <1>2
  <2> QED
    BY <1>2, <2>1, <2>2, <2>3
<1>12. ASSUME NEW n \in 1 .. N, f[n - 1] \in G
       PROVE  f[n] \in G
  <2> DEFINE range == narrowed[n - 1]
             l == range.left
             r == range.right
             mid == (l + r) \div 2
  <2>0. n \in 0 .. N /\ n - 1 \in 0 .. N
    BY <1>2, <1>12
  <2>1. Good(n - 1, l, r) /\ range \in X
    BY <1>12, <2>0
  <2>2. narrowed[n] = after(range)
    BY <1>9
  <2> HIDE DEF range
  <2>3. after(range) \in X
    BY <1>4, <2>1
  <2>4. Good(n, after(range).left, after(range).right)
    <3> HIDE DEF l, r
    <3>1. CASE l >= r
      <4>1. after(range) = range
        BY <3>1 DEF after, l, r
      <4>2. Good(n, l, r)
        BY <2>1, <3>1, <1>2, <2>0
      <4> QED
        BY <4>1, <4>2 DEF l, r
    <3>2. CASE l < r
      <4>0. l \in Int /\ r \in Int /\ ~ (l >= r)
        BY <2>1, <3>2
      <4>1. mid \in 0 .. N - 1 /\ l <= mid /\ mid < r /\ mid + 1 \in 1 .. N
        BY <2>1, <3>2, <1>2
      <4> DEFINE m == mid
      <4>2. CASE Less(files[m + 1].largest, target)
        <5>1. after(range) = [left |-> m + 1, right |-> r]
          BY <4>0, <4>2, Zenon DEF after, l, r
        <5> HIDE DEF m
        <5>2. \A i \in 1 .. N : i <= m + 1 => Less(files[i].largest, target)
          BY <4>1, <4>2, <1>2, <1>3 DEF m
        <5>3. Good(n, m + 1, r)
          BY <2>1, <4>1, <5>2, <1>2, <2>0, <3>2 DEF m
        <5> HIDE DEF Good
        <5> QED
          BY <5>1, <5>3
      <4>3. CASE ~ Less(files[m + 1].largest, target)
        <5>1. after(range) = [left |-> l, right |-> m]
          BY <4>0, <4>3, Zenon DEF after, l, r
        <5> HIDE DEF m
        <5>2. \A i \in 1 .. N : i > m => ~ Less(files[i].largest, target)
          BY <4>1, <4>3, <1>2, <1>3 DEF m
        <5>3. Good(n, l, m)
          BY <2>1, <4>1, <5>2, <1>2, <2>0, <3>2 DEF m
        <5> HIDE DEF Good
        <5> QED
          BY <5>1, <5>3
      <4> QED
        BY <4>2, <4>3
    <3> QED
      BY <3>1, <3>2, <2>1
  <2> HIDE DEF Good
  <2> QED
    BY <2>0, <2>2, <2>3, <2>4
<1>13. f[N] \in G
  <2> HIDE DEF f, G
  <2>1. \A n \in 1 .. N : f[n - 1] \in G => f[n] \in G
    BY <1>12
  <2>2. \A n \in 0 .. N : f[n] \in G
    BY <1>2, <1>11, <2>1, InductionTo
  <2> QED
    BY <1>2, <2>2
<1>14. Good(N, narrowed[N].left, narrowed[N].right)
  <2> HIDE DEF Good
  <2> QED
    BY <1>2, <1>13
<1>15. narrowed[N].left = narrowed[N].right
  BY <1>2, <1>14
<1> QED
  BY <1>1, <1>2, <1>14, <1>15 DEF N

(* Less, then at most.                                                     *)
LEMMA BelowFacts == \A a, b, c \in Nat : a < b /\ b <= c => a < c
OBVIOUS

SeqsBounded(F) ==
  kMaxSequenceNumber \in Nat /\ \A f \in F : f.largest.seq <= kMaxSequenceNumber

(* What OverlapInLevel tells when it finds nothing: no file of the level   *)
(* has a user key of the range.                                            *)
LEMMA NoOverlapFacts ==
  ASSUME NEW F, Ranged(F), NEW version, NEW level \in Nat, version[level] \in Seq(F),
         level > 0 => InSequence(version[level]),
         SeqsBounded(F), NEW begin \in Nat, NEW end \in Nat, ~ OverlapInLevel(version, level, begin, end)
  PROVE  \A f \in Range(version[level]) : f.largest.key < begin \/ end < f.smallest.key
<1> DEFINE files == version[level]
           target == Earliest(begin)
<1>1. \A f \in Range(files) : \E i \in 1 .. Len(files) : f = files[i]
  BY DEF Range
<1>2. \A i \in 1 .. Len(files) : files[i] \in F /\ files[i] \in Range(files)
  BY DEF Range
<1>3. Range(files) \subseteq F
  BY RangeFacts
<1>4. \A f \in F : f.smallest \in IKeys /\ f.largest \in IKeys
                   /\ f.smallest.key \in Nat /\ f.largest.key \in Nat
  BY DEF Ranged, IKeys
<1>5. CASE level = 0
  <2>2. \A f \in Range(files) : AfterFile(begin, f) \/ BeforeFile(end, f)
    BY <1>5 DEF OverlapInLevel, SomeFileOverlapsRange
  <2> QED
    BY <2>2, <1>3, <1>4 DEF AfterFile, BeforeFile
<1>6. CASE level # 0
  <2> DEFINE index == FindFile(files, target)
  <2>0. level > 0
    BY <1>6
  <2>1. ~ SomeFileOverlapsRange(TRUE, files, begin, end)
    BY <2>0 DEF OverlapInLevel
  <2>2. ~ (index < Len(files) /\ ~ BeforeFile(end, files[index + 1]))
    BY <2>1 DEF SomeFileOverlapsRange
  <2>3. target \in IKeys
    BY DEF SeqsBounded, Earliest, LookupKey, InternalKey, IKeys, kValueTypeForSeek, kTypeValue
  <2>4. InSequence(files) /\ files \in Seq(F)
    BY <2>0
  <2> HIDE DEF target, index
  <2>5. /\ index \in 0 .. Len(files)
        /\ \A i \in 1 .. Len(files) : i <= index <=> Less(files[i].largest, target)
    BY <2>3, <2>4, FindFileFacts DEF index
  <2>6. \A f \in F : Less(f.largest, target) => f.largest.key < begin
    <3> SUFFICES ASSUME NEW f \in F, Less(f.largest, target)
                 PROVE  f.largest.key < begin
      OBVIOUS
    <3>1. /\ f.largest \in IKeys /\ f.largest.seq <= kMaxSequenceNumber
          /\ kMaxSequenceNumber \in Nat
      BY <1>4 DEF SeqsBounded
    <3>2. target.key = begin /\ target.seq = kMaxSequenceNumber /\ target.type = 1
      BY DEF target, Earliest, LookupKey, InternalKey, kValueTypeForSeek, kTypeValue
    <3>3. f.largest.type \in {0, 1} /\ f.largest.seq \in Nat /\ f.largest.key \in Nat
      BY <3>1 DEF IKeys
    <3> QED
      BY <3>1, <3>2, <3>3 DEF Less, PackSequenceAndType
  <2>7. ASSUME NEW i \in 1 .. Len(files), i > index
        PROVE  end < files[i].smallest.key
    <3>1. index < Len(files) /\ index + 1 \in 1 .. Len(files)
      BY <2>5, <2>7
    <3>2. end < files[index + 1].smallest.key
      BY <2>2, <3>1 DEF BeforeFile
    <3>3. CASE i = index + 1
      BY <3>2, <3>3
    <3>4. CASE i # index + 1
      <4>1. Less(files[index + 1].largest, files[i].smallest)
        BY <2>4, <2>5, <2>7, <3>1, <3>4 DEF InSequence
      <4>2. files[index + 1] \in F /\ files[i] \in F
        BY <1>2, <3>1
      <4>3. files[index + 1].smallest.key <= files[i].smallest.key
        BY <4>1, <4>2, <1>4, LessFacts DEF Ranged
      <4> QED
        BY <3>2, <4>2, <4>3, <1>4, BelowFacts
    <3> QED
      BY <3>3, <3>4
  <2> SUFFICES ASSUME NEW i \in 1 .. Len(files)
               PROVE  files[i].largest.key < begin \/ end < files[i].smallest.key
    BY <1>1
  <2>8. CASE i <= index
    BY <2>5, <2>6, <2>8, <1>2
  <2>9. CASE i > index
    BY <2>7, <2>9
  <2> QED
    BY <2>5, <2>8, <2>9
<1> QED
  BY <1>5, <1>6

(* A level in the order of SaveTo lies in sequence when its files are      *)
(* apart.                                                                  *)
LEMMA LevelInSequence ==
  ASSUME NEW T, TablesRight(T), NEW v, VersionRight(v, T), NEW level \in Levels
  PROVE  InSequence(v[level]) <=> Disjoint(Range(v[level]))
<1> DEFINE files == v[level]
<1>1. /\ files \in Seq(Files(T))
      /\ \A i, j \in 1 .. Len(files) : i < j => BySmallestKey(files[i], files[j])
  BY DEF VersionRight
<1> HIDE DEF files
<1>2. DOMAIN files = 1 .. Len(files) /\ Len(files) \in Nat
      /\ \A i \in 1 .. Len(files) : files[i] \in Files(T) /\ files[i] \in Range(files)
  BY <1>1 DEF Range
<1>3. \A f \in Range(files) : \E i \in 1 .. Len(files) : f = files[i]
  BY <1>2 DEF Range
<1>4. \A f, g \in Files(T) : BySmallestKey(f, g) => f # g
  <2>1. StrictOrder(Files(T), FilesOn(Files(T)))
    BY FilesHaveOrder
  <2> SUFFICES ASSUME NEW f \in Files(T), BySmallestKey(f, f)
               PROVE  FALSE
    OBVIOUS
  <2>2. <<f, f>> \in FilesOn(Files(T))
    BY DEF FilesOn
  <2> QED
    BY <2>1, <2>2 DEF StrictOrder
<1>5. \A f \in Files(T) : f.smallest \in IKeys /\ f.largest \in IKeys /\ ~ Less(f.largest, f.smallest)
  BY FilesAreRanged DEF Ranged
<1>6. ASSUME InSequence(files), NEW f \in Range(files), NEW g \in Range(files), f # g
      PROVE  Apart(f, g)
  <2>1. PICK i \in 1 .. Len(files), j \in 1 .. Len(files) : f = files[i] /\ g = files[j]
    BY <1>3
  <2>2. i < j \/ j < i
    BY <1>6, <2>1, <1>2
  <2> QED
    BY <1>2, <1>6, <2>1, <2>2 DEF InSequence, Apart
<1>7. ASSUME Disjoint(Range(files)), NEW i \in DOMAIN files, NEW j \in DOMAIN files, i < j
      PROVE  Less(files[i].largest, files[j].smallest)
  <2> DEFINE f == files[i]
             g == files[j]
  <2>1. BySmallestKey(f, g) /\ f \in Files(T) /\ g \in Files(T) /\ f \in Range(files) /\ g \in Range(files)
    BY <1>1, <1>2, <1>7
  <2>2. Apart(f, g)
    BY <1>4, <1>7, <2>1 DEF Disjoint
  <2> HIDE DEF f, g
  <2>3. ~ Less(g.smallest, f.smallest)
    BY <1>5, <2>1, LessFacts DEF BySmallestKey
  <2>4. ~ Less(g.largest, f.smallest)
    BY <1>5, <2>1, <2>3, LessFacts
  <2> QED
    BY <2>2, <2>4 DEF Apart, f, g
<1> QED
  BY <1>6, <1>7 DEF Disjoint, InSequence, files

(* The same of a whole version.                                            *)
LEMMA DisjointVersion ==
  ASSUME NEW T, TablesRight(T), NEW v, VersionRight(v, T)
  PROVE  LevelsDisjoint(v) <=> \A level \in Levels \ {0} : Disjoint(Range(v[level]))
<1>1. LevelsDisjoint(v) <=> \A level \in Levels \ {0} : InSequence(v[level])
  BY DEF LevelsDisjoint, InSequence
<1> QED
  BY <1>1, LevelInSequence

-----------------------------------------------------------------------------
(* Lemmas: ranges of user keys.                                            *)

(* A finite set of internal keys has ends.                                 *)
LEMMA EndsOfKeys ==
  ASSUME NEW S, S \subseteq IKeys, IsFiniteSet(S), S # {}
  PROVE  /\ \E x \in S : \A y \in S : ~ Less(y, x)
         /\ \E x \in S : \A y \in S : ~ Less(x, y)
<1>1. \A a, b \in S : <<a, b>> \in LessOn(S) <=> Less(a, b)
  BY DEF LessOn
<1>2. StrictOrder(S, LessOn(S))
  <2> HIDE DEF LessOn
  <2> QED
    BY <1>1, LessFacts DEF StrictOrder
<1>3. /\ \E x \in S : \A y \in S : <<y, x>> \notin LessOn(S)
      /\ \E x \in S : \A y \in S : <<x, y>> \notin LessOn(S)
  <2> HIDE DEF LessOn
  <2> QED
    BY <1>2, EndsFacts
<1> QED
  BY <1>1, <1>3

(* The range of some files is from the first key to the last key of any.   *)
LEMMA GetRangeFacts ==
  ASSUME NEW F, Ranged(F), NEW inputs \in Seq(F), inputs # << >>,
         NEW r, r = GetRange(inputs)
  PROVE  /\ r.smallest \in IKeys /\ r.largest \in IKeys
         /\ \E f \in Range(inputs) : r.smallest = f.smallest
         /\ \E f \in Range(inputs) : r.largest = f.largest
         /\ \A f \in Range(inputs) :
              /\ ~ Less(f.smallest, r.smallest) /\ ~ Less(r.largest, f.largest)
              /\ r.smallest.key <= f.smallest.key /\ f.largest.key <= r.largest.key
<1> DEFINE S == Range(inputs)
           firsts == {f.smallest : f \in S}
           lasts == {f.largest : f \in S}
           first == CHOOSE f \in S : \A g \in S : ~ Less(g.smallest, f.smallest)
           last == CHOOSE f \in S : \A g \in S : ~ Less(f.largest, g.largest)
<1>1. IsFiniteSet(S) /\ S # {} /\ S \subseteq F
  <2>1. S # {}
    BY DEF Range
  <2> QED
    BY <2>1, RangeIsFinite, RangeFacts
<1>2. r.smallest = first.smallest /\ r.largest = last.largest
  BY DEF GetRange
<1> HIDE DEF S
<1>3. firsts \subseteq IKeys /\ lasts \subseteq IKeys /\ firsts # {} /\ lasts # {}
  BY <1>1 DEF Ranged
<1>4. IsFiniteSet(firsts) /\ IsFiniteSet(lasts)
  <2> DEFINE s == [i \in 1 .. Len(inputs) |-> inputs[i].smallest]
             l == [i \in 1 .. Len(inputs) |-> inputs[i].largest]
  <2>1. \A i \in 1 .. Len(inputs) : inputs[i] \in F /\ inputs[i] \in S
    BY DEF S, Range
  <2>2. \A f \in S : \E i \in 1 .. Len(inputs) : f = inputs[i]
    BY DEF S, Range
  <2>3. s \in Seq(IKeys) /\ l \in Seq(IKeys)
    BY <2>1 DEF Ranged
  <2>4. Range(s) = firsts /\ Range(l) = lasts
    BY <2>1, <2>2 DEF Range
  <2> HIDE DEF s, l
  <2> QED
    BY <2>3, <2>4, RangeIsFinite
<1>5. /\ \E f \in S : \A g \in S : ~ Less(g.smallest, f.smallest)
      /\ \E f \in S : \A g \in S : ~ Less(f.largest, g.largest)
  <2>1. PICK x \in firsts : \A y \in firsts : ~ Less(y, x)
    BY <1>3, <1>4, EndsOfKeys
  <2>2. PICK z \in lasts : \A y \in lasts : ~ Less(z, y)
    BY <1>3, <1>4, EndsOfKeys
  <2> QED
    BY <2>1, <2>2
<1>6. /\ first \in S /\ \A g \in S : ~ Less(g.smallest, first.smallest)
      /\ last \in S /\ \A g \in S : ~ Less(last.largest, g.largest)
  BY <1>5
<1> HIDE DEF first, last
<1>7. /\ first.smallest \in IKeys /\ last.largest \in IKeys
      /\ \A f \in S : f.smallest \in IKeys /\ f.largest \in IKeys
  BY <1>1, <1>6 DEF Ranged
<1>8. ASSUME NEW f \in S
      PROVE  first.smallest.key <= f.smallest.key /\ f.largest.key <= last.largest.key
  <2>1. /\ first.smallest = f.smallest \/ Less(first.smallest, f.smallest)
        /\ last.largest = f.largest \/ Less(f.largest, last.largest)
    BY <1>6, <1>7, LessFacts
  <2>2. f.smallest.key \in Nat /\ last.largest.key \in Nat
    BY <1>7 DEF IKeys
  <2> QED
    BY <1>6, <1>7, <2>1, <2>2, LessFacts
<1> QED
  BY <1>2, <1>6, <1>7, <1>8 DEF S

(* Some files leave no gap: every user key between the ends of any two is  *)
(* in the range of one.                                                    *)
Holds(f, k) == f.smallest.key <= k /\ k <= f.largest.key
Covered(S) ==
  \A f, g \in S, k \in Nat : f.smallest.key <= k /\ k <= g.largest.key => \E h \in S : Holds(h, k)

(* A range is within the ends of some files.                               *)
Within(begin, end, S) ==
  /\ \E f \in S : f.smallest.key <= begin
  /\ \E f \in S : end <= f.largest.key

(* User keys of a file.                                                    *)
LEMMA RangedKeys ==
  ASSUME NEW F, Ranged(F), NEW f \in F
  PROVE  /\ f.smallest.key \in Nat /\ f.largest.key \in Nat
         /\ f.smallest.key <= f.largest.key
<1>1. f.smallest \in IKeys /\ f.largest \in IKeys /\ ~ Less(f.largest, f.smallest)
  BY DEF Ranged
<1>2. f.smallest.key \in Nat /\ f.largest.key \in Nat
  BY <1>1 DEF IKeys
<1> QED
  BY <1>1, <1>2, LessFacts

(* It stays so when files are added that meet the range of the others.     *)
LEMMA CoveredGrows ==
  ASSUME NEW F, Ranged(F), NEW S \in SUBSET F, Covered(S), NEW H \in SUBSET F,
         NEW begin \in Nat, NEW end \in Nat, Within(begin, end, S),
         \A h \in H : begin <= h.largest.key /\ h.smallest.key <= end
  PROVE  Covered(S \cup H)
<1> SUFFICES ASSUME NEW f \in S \cup H, NEW g \in S \cup H, NEW k \in Nat,
                    f.smallest.key <= k, k <= g.largest.key,
                    ~ Holds(f, k), ~ Holds(g, k)
             PROVE  \E h \in S : Holds(h, k)
  BY DEF Covered
<1>1. f.smallest.key \in Nat /\ f.largest.key \in Nat /\ g.smallest.key \in Nat /\ g.largest.key \in Nat
  BY RangedKeys
<1>2. f.largest.key < k /\ k < g.smallest.key
  BY <1>1 DEF Holds
<1>3. PICK a \in S : a.smallest.key <= k
  <2>1. CASE f \in S
    BY <2>1
  <2>2. CASE f \in H
    <3>1. PICK a \in S : a.smallest.key <= begin
      BY DEF Within
    <3>2. a.smallest.key \in Nat /\ begin <= f.largest.key
      BY <2>2, RangedKeys
    <3> QED
      BY <1>1, <1>2, <3>1, <3>2
  <2> QED
    BY <2>1, <2>2
<1>4. PICK b \in S : k <= b.largest.key
  <2>1. CASE g \in S
    BY <2>1
  <2>2. CASE g \in H
    <3>1. PICK b \in S : end <= b.largest.key
      BY DEF Within
    <3>2. b.largest.key \in Nat /\ g.smallest.key <= end
      BY <2>2, RangedKeys
    <3> QED
      BY <1>1, <1>2, <3>1, <3>2
  <2> QED
    BY <2>1, <2>2
<1> QED
  BY <1>3, <1>4 DEF Covered

-----------------------------------------------------------------------------
(* Lemmas: GetOverlappingInputs.                                           *)

(* A finite set of numbers has a greatest one.                             *)
LEMMA GreatestOfFinite ==
  ASSUME NEW S \in SUBSET Nat, IsFiniteSet(S), S # {}
  PROVE  GreatestOf(S) \in S /\ \A j \in S : GreatestOf(S) >= j
<1> DEFINE R == {p \in S \X S : p[1] < p[2]}
<1>1. \A a, b \in S : <<a, b>> \in R <=> a < b
  OBVIOUS
<1> HIDE DEF R
<1>2. StrictOrder(S, R)
  BY <1>1 DEF StrictOrder
<1>3. \E x \in S : \A y \in S : <<x, y>> \notin R
  BY <1>2, EndsFacts
<1>4. \E x \in S : \A y \in S : x >= y
  <2>1. PICK x \in S : \A y \in S : <<x, y>> \notin R
    BY <1>3
  <2>2. \A y \in S : ~ (x < y) /\ x \in Nat /\ y \in Nat
    BY <1>1, <2>1
  <2>3. \A y \in S : x >= y
    BY <2>2
  <2> QED
    BY <2>3
<1> QED
  BY <1>4 DEF GreatestOf

(* The files that a range of user keys meets, and the range once it has    *)
(* been widened to theirs.                                                 *)
Met(files, r) == Range(Overlapping(files, r[1], r[2]))
Grown(files, r) ==
  <<LeastOf({r[1]} \cup {f.smallest.key : f \in Met(files, r)}),
    GreatestOf({r[2]} \cup {f.largest.key : f \in Met(files, r)})>>

(* What a range meets.                                                     *)
LEMMA MetFacts ==
  ASSUME NEW F, Ranged(F), NEW files \in Seq(F), NEW r \in Nat \X Nat
  PROVE  /\ Met(files, r) = {f \in Range(files) : r[1] <= f.largest.key /\ f.smallest.key <= r[2]}
         /\ Met(files, r) \subseteq F /\ IsFiniteSet(Met(files, r))
<1>1. Met(files, r) = {f \in Range(files) : ~ AfterFile(r[1], f) /\ ~ BeforeFile(r[2], f)}
  BY OverlappingFacts DEF Met
<1>2. Range(files) \subseteq F /\ IsFiniteSet(Range(files))
  BY RangeFacts, RangeIsFinite
<1>3. \A f \in Range(files) : /\ ~ AfterFile(r[1], f) <=> r[1] <= f.largest.key
                              /\ ~ BeforeFile(r[2], f) <=> f.smallest.key <= r[2]
  <2> TAKE f \in Range(files)
  <2>1. f.smallest.key \in Nat /\ f.largest.key \in Nat /\ r[1] \in Nat /\ r[2] \in Nat
    BY <1>2, RangedKeys
  <2>2. ~ (r[1] > f.largest.key) <=> r[1] <= f.largest.key
    BY <2>1
  <2>3. ~ (r[2] < f.smallest.key) <=> f.smallest.key <= r[2]
    BY <2>1
  <2> QED
    BY <2>2, <2>3, Zenon DEF AfterFile, BeforeFile
<1> QED
  BY <1>1, <1>2, <1>3, FS_Subset

(* A range grows over the files it meets.                                  *)
LEMMA GrownFacts ==
  ASSUME NEW F, Ranged(F), NEW files \in Seq(F), NEW r \in Nat \X Nat,
         NEW s, s = Grown(files, r)
  PROVE  /\ s \in Nat \X Nat /\ s[1] <= r[1] /\ r[2] <= s[2]
         /\ \A f \in Met(files, r) : s[1] <= f.smallest.key /\ f.largest.key <= s[2]
         /\ s[1] = r[1] \/ \E f \in Met(files, r) : s[1] = f.smallest.key
         /\ s[2] = r[2] \/ \E f \in Met(files, r) : s[2] = f.largest.key
<1> DEFINE H == Met(files, r)
           low == {r[1]} \cup {f.smallest.key : f \in H}
           high == {r[2]} \cup {f.largest.key : f \in H}
<1>1. H \subseteq F /\ IsFiniteSet(H) /\ r[1] \in Nat /\ r[2] \in Nat
  BY MetFacts
<1>2. s = <<LeastOf(low), GreatestOf(high)>>
  BY DEF Grown
<1> HIDE DEF H
<1>3. low \in SUBSET Nat /\ low # {} /\ high \in SUBSET Nat /\ high # {}
  BY <1>1, RangedKeys
<1>4. IsFiniteSet(high)
  <2>1. PICK q : q \in Seq(H) /\ \A f \in H : \E i \in 1 .. Len(q) : q[i] = f
    BY <1>1 DEF IsFiniteSet
  <2> DEFINE t == [i \in 1 .. Len(q) |-> q[i].largest.key]
  <2>2. \A i \in 1 .. Len(q) : q[i] \in H
    BY <2>1
  <2>3. t \in Seq(Nat)
    BY <1>1, <2>2, RangedKeys
  <2>4. Range(t) = {f.largest.key : f \in H}
    BY <2>1, <2>2 DEF Range
  <2>5. IsFiniteSet({f.largest.key : f \in H})
    BY <2>3, <2>4, RangeIsFinite
  <2> QED
    BY <2>5, FS_AddElement, FS_Union, FS_Singleton
<1>5. LeastOf(low) \in low /\ \A j \in low : LeastOf(low) <= j
  BY <1>3, LeastFacts
<1>6. GreatestOf(high) \in high /\ \A j \in high : GreatestOf(high) >= j
  BY <1>3, <1>4, GreatestOfFinite
<1>7. s[1] \in low /\ s[2] \in high /\ s \in Nat \X Nat
  <2>1. s[1] = LeastOf(low) /\ s[2] = GreatestOf(high)
    BY <1>2
  <2>2. LeastOf(low) \in Nat /\ GreatestOf(high) \in Nat
    BY <1>3, <1>5, <1>6
  <2>3. s \in Nat \X Nat
    BY <1>2, <2>2
  <2> QED
    BY <1>5, <1>6, <2>1, <2>3
<1>8. (\A j \in low : s[1] <= j) /\ \A j \in high : j <= s[2]
  <2>1. s[1] = LeastOf(low) /\ s[2] = GreatestOf(high)
    BY <1>2
  <2>2. \A j \in high : s[2] >= j
    BY <1>6, <2>1
  <2>3. s[2] \in Nat /\ \A j \in high : j \in Nat
    BY <1>3, <1>7
  <2>4. \A j \in high : j <= s[2]
    <3> HIDE DEF high
    <3> QED
      BY <2>2, <2>3
  <2> QED
    BY <1>5, <2>1, <2>4
<1> HIDE DEF low, high
<1>9. /\ r[1] \in low /\ r[2] \in high
      /\ \A f \in H : f.smallest.key \in low /\ f.largest.key \in high
  BY DEF low, high
<1>10. /\ s[1] = r[1] \/ \E f \in H : s[1] = f.smallest.key
       /\ s[2] = r[2] \/ \E f \in H : s[2] = f.largest.key
  BY <1>7 DEF low, high
<1> QED
  BY <1>7, <1>8, <1>9, <1>10 DEF H

(* The rounds of the search at level 0.                                    *)
LEMMA GrowthRounds ==
  ASSUME NEW F, Ranged(F), NEW version, version[0] \in Seq(F), NEW begin \in Nat, NEW end \in Nat
  PROVE  \E r \in [0 .. Len(version[0]) -> Nat \X Nat] :
           /\ r[0] = <<begin, end>>
           /\ \A n \in 1 .. Len(version[0]) : r[n] = Grown(version[0], r[n - 1])
           /\ Range(GetOverlappingInputs(version, 0, begin, end))
                = Met(version[0], r[Len(version[0])])
<1> DEFINE files == version[0]
           N == Len(files)
           X == Nat \X Nat
           x0 == <<begin, end>>
           step == [r \in X |-> Grown(files, r)]
           after(r) ==
             LET hits == Range(Overlapping(files, r[1], r[2]))
             IN  <<LeastOf({r[1]} \cup {f.smallest.key : f \in hits}),
                   GreatestOf({r[2]} \cup {f.largest.key : f \in hits})>>
           body(g) == [n \in 0 .. N |-> IF n = 0 THEN x0 ELSE after(g[n - 1])]
           grown == CHOOSE g : g = body(g)
<1>1. GetOverlappingInputs(version, 0, begin, end) = Overlapping(files, grown[N][1], grown[N][2])
  BY Zenon DEF GetOverlappingInputs
<1>2. \A r : after(r) = Grown(files, r)
  BY DEF Grown, Met
<1>3. N \in Nat /\ x0 \in X
  OBVIOUS
<1>4. \A r \in X : Grown(files, r) \in X
  BY GrownFacts
<1> HIDE DEF N, after
<1>5. step \in [X -> X] /\ \A r \in X : step[r] = Grown(files, r)
  BY <1>4
<1> HIDE DEF step, X
<1>6. PICK g \in [0 .. N -> X] : g[0] = x0 /\ \A n \in 1 .. N : g[n] = step[g[n - 1]]
  <2>1. Iterations(N, X, x0, step) # {}
    BY <1>3, <1>5, RecursionTo
  <2> QED
    BY <2>1 DEF Iterations
<1>7. g = body(g)
  <2>1. \A n \in 1 .. N : n - 1 \in 0 .. N
    BY <1>3
  <2>2. \A n \in 1 .. N : g[n] = after(g[n - 1])
    BY <1>2, <1>5, <1>6, <2>1
  <2> QED
    BY <1>3, <1>6, <2>2
<1>8. grown = body(grown)
  BY <1>7
<1> HIDE DEF grown
<1>9. grown[0] = x0 /\ \A n \in 1 .. N : grown[n] = Grown(files, grown[n - 1])
  <2>1. \A n \in 0 .. N : grown[n] = IF n = 0 THEN x0 ELSE after(grown[n - 1])
    <3> HIDE DEF x0
    <3> QED
      BY <1>8, Zenon
  <2>2. 0 \in 0 .. N /\ \A n \in 1 .. N : n \in 0 .. N /\ n # 0
    BY <1>3
  <2>3. grown[0] = x0 /\ \A n \in 1 .. N : grown[n] = after(grown[n - 1])
    <3> HIDE DEF x0
    <3> QED
      BY <2>1, <2>2
  <2> QED
    BY <1>2, <2>3
<1>10. \A n \in 1 .. N : grown[n - 1] \in X => grown[n] \in X
  BY <1>4, <1>9 DEF X
<1>11. \A n \in 0 .. N : grown[n] \in X
  BY <1>3, <1>9, <1>10, InductionTo
<1>12. grown \in [0 .. N -> X]
  <2>1. DOMAIN grown = 0 .. N /\ grown = [n \in DOMAIN grown |-> grown[n]]
    BY <1>8
  <2> QED
    BY <1>11, <2>1
<1> QED
  BY <1>1, <1>9, <1>12 DEF N, X, Met

(* At most, twice.                                                         *)
LEMMA AtMostFacts == \A a, b, c \in Nat : a <= b /\ b <= c => a <= c
  OBVIOUS

(* Numbers do not go round.                                                *)
LEMMA NoRing == \A a, b, c, d \in Nat : ~ (a < b /\ b <= c /\ c <= d /\ d <= a)
OBVIOUS

(* A wider range meets what a narrower one does.                           *)
LEMMA MetGrows ==
  ASSUME NEW F, Ranged(F), NEW files \in Seq(F), NEW r \in Nat \X Nat,
         NEW s, s = Grown(files, r)
  PROVE  Met(files, r) \subseteq Met(files, s)
<1>1. /\ s \in Nat \X Nat /\ s[1] <= r[1] /\ r[2] <= s[2]
  BY GrownFacts
<1>4. /\ Met(files, r) = {f \in Range(files) : r[1] <= f.largest.key /\ f.smallest.key <= r[2]}
      /\ Met(files, s) = {f \in Range(files) : s[1] <= f.largest.key /\ f.smallest.key <= s[2]}
      /\ Met(files, r) \subseteq F
  BY <1>1, MetFacts
<1> SUFFICES ASSUME NEW f \in Met(files, r) PROVE f \in Met(files, s)
  OBVIOUS
<1>5. f.smallest.key \in Nat /\ f.largest.key \in Nat /\ f \in Range(files)
      /\ r[1] <= f.largest.key /\ f.smallest.key <= r[2]
  BY <1>4, RangedKeys
<1>6. r[1] \in Nat /\ r[2] \in Nat /\ s[1] \in Nat /\ s[2] \in Nat
  BY <1>1
<1>7. s[1] <= f.largest.key /\ f.smallest.key <= s[2]
  BY <1>1, <1>5, <1>6, AtMostFacts, Zenon
<1> QED
  BY <1>4, <1>5, <1>7

(* A round takes in a file more, or nothing changes from there on.         *)
LEMMA GrowsOrStops ==
  ASSUME NEW F, Ranged(F), NEW files \in Seq(F), NEW n \in Nat, NEW r \in Nat \X Nat,
         NEW s, s = Grown(files, r),
         Grown(files, r) = r \/ Cardinality(Met(files, r)) > n
  PROVE  Grown(files, s) = s \/ Cardinality(Met(files, s)) > n + 1
<1> SUFFICES ASSUME Grown(files, s) # s
             PROVE  Cardinality(Met(files, s)) > n + 1
  OBVIOUS
<1> DEFINE t == Grown(files, s)
<1>1. /\ s \in Nat \X Nat /\ s[1] <= r[1] /\ r[2] <= s[2]
      /\ \A f \in Met(files, r) : s[1] <= f.smallest.key /\ f.largest.key <= s[2]
      /\ s = r \/ s # r
  BY GrownFacts
<1>2. s # r /\ Cardinality(Met(files, r)) > n
  OBVIOUS
<1>3. /\ t \in Nat \X Nat /\ t[1] <= s[1] /\ s[2] <= t[2]
      /\ t[1] = s[1] \/ \E f \in Met(files, s) : t[1] = f.smallest.key
      /\ t[2] = s[2] \/ \E f \in Met(files, s) : t[2] = f.largest.key
  BY <1>1, GrownFacts
<1>4. /\ Met(files, r) = {f \in Range(files) : r[1] <= f.largest.key /\ f.smallest.key <= r[2]}
      /\ Met(files, s) = {f \in Range(files) : s[1] <= f.largest.key /\ f.smallest.key <= s[2]}
      /\ IsFiniteSet(Met(files, r)) /\ IsFiniteSet(Met(files, s))
      /\ Met(files, r) \subseteq F
  BY <1>1, MetFacts
<1>5. Met(files, r) \subseteq Met(files, s)
  BY MetGrows
<1>6. Met(files, r) # Met(files, s)
  <2> SUFFICES ASSUME Met(files, r) = Met(files, s) PROVE FALSE
    OBVIOUS
  <2>1. t[1] \in Nat /\ t[2] \in Nat /\ s[1] \in Nat /\ s[2] \in Nat /\ t = <<t[1], t[2]>> /\ s = <<s[1], s[2]>>
    BY <1>1, <1>3
  <2>2. s[1] <= t[1] /\ t[2] <= s[2]
    <3>1. \A f \in Met(files, s) : s[1] <= f.smallest.key /\ f.largest.key <= s[2]
      BY <1>1
    <3>2. s[1] <= s[1] /\ s[2] <= s[2]
      BY <2>1
    <3> QED
      BY <1>3, <3>1, <3>2, Zenon
  <2>3. t[1] = s[1] /\ t[2] = s[2]
    BY <1>3, <2>1, <2>2
  <2> QED
    BY <2>1, <2>3
<1>7. Cardinality(Met(files, r)) < Cardinality(Met(files, s))
  <2> DEFINE A == Met(files, r)
             B == Met(files, s)
  <2>1. IsFiniteSet(A) /\ IsFiniteSet(B) /\ A \subseteq B /\ A # B
    BY <1>4, <1>5, <1>6
  <2> HIDE DEF A, B
  <2>2. Cardinality(A) <= Cardinality(B) /\ Cardinality(A) # Cardinality(B)
    BY <2>1, FS_Subset
  <2>3. Cardinality(A) \in Nat /\ Cardinality(B) \in Nat
    BY <2>1, FS_CardinalityType
  <2>4. Cardinality(A) < Cardinality(B)
    BY <2>2, <2>3
  <2> QED
    BY <2>4 DEF A, B
<1>8. Cardinality(Met(files, r)) \in Nat /\ Cardinality(Met(files, s)) \in Nat
  BY <1>4, FS_CardinalityType
<1> QED
  BY <1>2, <1>7, <1>8

(* A sequence has no more elements than places.                            *)
LEMMA RangeIsSmall ==
  ASSUME NEW X, NEW s \in Seq(X)
  PROVE  IsFiniteSet(Range(s)) /\ Cardinality(Range(s)) <= Len(s)
<1>1. \A x \in Range(s) : \E i \in 1 .. Len(s) : s[i] = x
  BY DEF Range
<1>2. s \in Seq(Range(s)) /\ IsFiniteSet(Range(s)) /\ Len(s) \in Nat
  BY RangeFacts, RangeIsFinite
<1>3. s \in [1 .. Len(s) -> Range(s)]
  BY <1>2
<1>4. s \in Surjection(1 .. Len(s), Range(s))
  BY <1>1, <1>3 DEF Surjection
<1>5. IsFiniteSet(1 .. Len(s)) /\ Cardinality(1 .. Len(s)) = Len(s)
  <2> DEFINE n == Len(s)
  <2>1. n \in Nat
    BY <1>2
  <2> HIDE DEF n
  <2>2. IsFiniteSet(1 .. n)
    BY <2>1, FS_Interval
  <2>3. Cardinality(1 .. n) = IF 1 > n THEN 0 ELSE n - 1 + 1
    BY <2>1, FS_Interval
  <2>4. Cardinality(1 .. n) = n
    BY <2>1, <2>3
  <2> QED
    BY <2>2, <2>4 DEF n
<1> QED
  BY <1>2, <1>4, <1>5, FS_Surjection

(* The files that a range of user keys meets, which cuts none of them.     *)
Settled(files, begin, end, H) ==
  \E low, high \in Nat :
    /\ low <= begin /\ end <= high
    /\ H = {f \in Range(files) : low <= f.largest.key /\ f.smallest.key <= high}
    /\ \A f \in H : low <= f.smallest.key /\ f.largest.key <= high

(* At level 0 the search ends with a range that cuts no file.              *)
LEMMA OverlapsAtZero ==
  ASSUME NEW F, Ranged(F), NEW version, version[0] \in Seq(F), NEW begin \in Nat, NEW end \in Nat,
         NEW H, H = Range(GetOverlappingInputs(version, 0, begin, end))
  PROVE  Settled(version[0], begin, end, H)
<1> DEFINE files == version[0]
           N == Len(files)
           X == {p \in Nat \X (Nat \X Nat) :
                   /\ p[2][1] <= begin /\ end <= p[2][2]
                   /\ Grown(files, p[2]) = p[2] \/ Cardinality(Met(files, p[2])) > p[1]}
<1>1. PICK r \in [0 .. N -> Nat \X Nat] :
        /\ r[0] = <<begin, end>>
        /\ \A n \in 1 .. N : r[n] = Grown(files, r[n - 1])
        /\ H = Met(files, r[N])
  <2>1. \E r \in [0 .. Len(version[0]) -> Nat \X Nat] :
          /\ r[0] = <<begin, end>>
          /\ \A n \in 1 .. Len(version[0]) : r[n] = Grown(version[0], r[n - 1])
          /\ Range(GetOverlappingInputs(version, 0, begin, end)) = Met(version[0], r[Len(version[0])])
    BY GrowthRounds, ZenonT(30)
  <2> QED
    BY <2>1, ZenonT(30)
<1> DEFINE g == [n \in 0 .. N |-> <<n, r[n]>>]
<1>2. N \in Nat /\ files \in Seq(F) /\ \A n \in 0 .. N : r[n] \in Nat \X Nat
  <2>1. files \in Seq(F)
    OBVIOUS
  <2>2. N \in Nat
    BY <2>1
  <2> HIDE DEF N, files, X, g
  <2>3. \A n \in 0 .. N : r[n] \in Nat \X Nat
    OBVIOUS
  <2> QED
    BY <2>1, <2>2, <2>3
<1>10. \A s \in Nat \X Nat : Met(files, s) = {f \in Range(files) : s[1] <= f.largest.key /\ f.smallest.key <= s[2]}
  BY MetFacts
<1> HIDE DEF N, files
<1>3. g[0] \in X
  <2>1. g[0] = <<0, <<begin, end>>>>
    BY <1>1, <1>2
  <2>2. <<begin, end>> \in Nat \X Nat
    OBVIOUS
  <2> DEFINE a == <<begin, end>>
             b == Grown(files, a)
  <2>3. IsFiniteSet(Met(files, a))
    BY <1>2, <2>2, MetFacts
  <2>4. b = a \/ Cardinality(Met(files, a)) > 0
    <3> SUFFICES ASSUME Met(files, a) = {} PROVE b = a
      BY <2>3, FS_CardinalityType, FS_EmptySet
    <3>1. /\ b \in Nat \X Nat
          /\ b[1] = a[1] \/ \E f \in Met(files, a) : b[1] = f.smallest.key
          /\ b[2] = a[2] \/ \E f \in Met(files, a) : b[2] = f.largest.key
      BY <1>2, <2>2, GrownFacts
    <3>2. b[1] = a[1] /\ b[2] = a[2]
      BY <3>1
    <3>3. b = <<b[1], b[2]>> /\ a = <<a[1], a[2]>>
      BY <3>1
    <3> HIDE DEF a, b
    <3> QED
      BY <3>2, <3>3
  <2>5. begin <= begin /\ end <= end
    OBVIOUS
  <2> HIDE DEF b
  <2>6. <<0, a>> \in X
    BY <2>2, <2>4, <2>5 DEF b
  <2> QED
    BY <2>1, <2>6
<1>4. ASSUME NEW n \in 1 .. N, g[n - 1] \in X
      PROVE  g[n] \in X
  <2>1. /\ n - 1 \in 0 .. N /\ n \in 0 .. N /\ n - 1 \in Nat /\ n \in Nat
        /\ g[n - 1] = <<n - 1, r[n - 1]>> /\ g[n] = <<n, r[n]>>
    <3> HIDE DEF X
    <3>1. n - 1 \in 0 .. N /\ n \in 0 .. N /\ n - 1 \in Nat /\ n \in Nat
      BY <1>2
    <3> QED
      BY <3>1
  <2> DEFINE a == r[n - 1]
             b == r[n]
  <2>2. /\ a[1] <= begin /\ end <= a[2]
        /\ Grown(files, a) = a \/ Cardinality(Met(files, a)) > n - 1
    BY <1>4, <2>1
  <2>3. a \in Nat \X Nat /\ b \in Nat \X Nat /\ b = Grown(files, a)
    BY <1>1, <1>2, <2>1
  <2> HIDE DEF a, b
  <2>4. Grown(files, b) = b \/ Cardinality(Met(files, b)) > (n - 1) + 1
    BY <1>2, <2>1, <2>2, <2>3, GrowsOrStops
  <2>5. b[1] <= a[1] /\ a[2] <= b[2]
    BY <1>2, <2>3, GrownFacts
  <2>6. b[1] <= begin /\ end <= b[2]
    <3>1. a[1] \in Nat /\ a[2] \in Nat /\ b[1] \in Nat /\ b[2] \in Nat
      BY <2>3
    <3>2. a[1] <= begin /\ end <= a[2] /\ b[1] <= a[1] /\ a[2] <= b[2]
      BY <2>2, <2>5
    <3> QED
      BY <3>1, <3>2, AtMostFacts, Zenon
  <2>7. (n - 1) + 1 = n
    BY <2>1
  <2> QED
    BY <2>1, <2>3, <2>4, <2>6, <2>7 DEF b
<1> HIDE DEF X, g
<1>5. \A n \in 0 .. N : g[n] \in X
  BY <1>2, <1>3, <1>4, InductionTo
<1> DEFINE last == r[N]
<1>6. /\ last \in Nat \X Nat /\ last[1] <= begin /\ end <= last[2]
      /\ Grown(files, last) = last \/ Cardinality(Met(files, last)) > N
  <2>1. N \in 0 .. N /\ g[N] = <<N, last>>
    BY <1>2 DEF g
  <2>2. <<N, last>> \in X
    BY <1>5, <2>1
  <2> QED
    BY <1>2, <2>2 DEF X
<1>7. H = {f \in Range(files) : last[1] <= f.largest.key /\ f.smallest.key <= last[2]}
      /\ H = Met(files, last)
  BY <1>1, <1>6, <1>10
<1> HIDE DEF last
<1>8. \A f \in H : last[1] <= f.smallest.key /\ f.largest.key <= last[2]
  <2>1. CASE Grown(files, last) = last
    BY <1>2, <1>6, <1>7, <2>1, GrownFacts
  <2>2. CASE Cardinality(H) > N
    <3>1. IsFiniteSet(Range(files)) /\ Cardinality(Range(files)) <= N /\ H \subseteq Range(files)
      BY <1>2, <1>7, RangeIsSmall DEF N
    <3>2. Cardinality(H) <= Cardinality(Range(files))
      BY <3>1, FS_Subset
    <3>3. Cardinality(H) \in Nat /\ Cardinality(Range(files)) \in Nat
      BY <3>1, FS_Subset, FS_CardinalityType
    <3> QED
      BY <1>2, <2>2, <3>1, <3>2, <3>3
  <2> QED
    BY <1>6, <1>7, <2>1, <2>2
<1>9. last[1] \in Nat /\ last[2] \in Nat
  BY <1>6
<1> QED
  BY <1>6, <1>7, <1>8, <1>9 DEF files, Settled

(* At the other levels it takes the files that the range meets.            *)
LEMMA OverlapsBelow ==
  ASSUME NEW F, Ranged(F), NEW version, NEW level \in Nat, level # 0, version[level] \in Seq(F),
         NEW begin \in Nat, NEW end \in Nat
  PROVE  /\ GetOverlappingInputs(version, level, begin, end)
              = Overlapping(version[level], begin, end)
         /\ Range(GetOverlappingInputs(version, level, begin, end))
              = {f \in Range(version[level]) : begin <= f.largest.key /\ f.smallest.key <= end}
<1>1. GetOverlappingInputs(version, level, begin, end) = Overlapping(version[level], begin, end)
  <2> DEFINE g == [level_ \in {level} |-> Overlapping(version[level], begin, end)]
  <2>1. level = 0 <=> FALSE
    OBVIOUS
  <2> QED
    BY <2>1 DEF GetOverlappingInputs
<1>2. <<begin, end>> \in Nat \X Nat
  OBVIOUS
<1>3. Range(Overlapping(version[level], begin, end))
        = {f \in Range(version[level]) : begin <= f.largest.key /\ f.smallest.key <= end}
  BY <1>2, MetFacts DEF Met
<1> QED
  BY <1>1, <1>3

(* It leaves no gap to files that the range is within, and leaves out no   *)
(* file that the range meets.                                              *)
LEMMA OverlapsCovered ==
  ASSUME NEW F, Ranged(F), NEW version, NEW level \in Nat, version[level] \in Seq(F),
         NEW begin \in Nat, NEW end \in Nat,
         NEW S \in SUBSET F, Covered(S), Within(begin, end, S),
         NEW H, H = Range(GetOverlappingInputs(version, level, begin, end))
  PROVE  /\ Covered(S \cup H)
<1> DEFINE files == version[level]
           N == Len(files)
           X == {r \in Nat \X Nat : /\ Covered(S \cup Met(files, r))
                                    /\ Within(r[1], r[2], S \cup Met(files, r))}
           x0 == <<begin, end>>
<1>1. x0 \in X
  <2>1. x0 \in Nat \X Nat /\ x0[1] = begin /\ x0[2] = end
    OBVIOUS
  <2>2. /\ Met(files, x0) = {f \in Range(files) : begin <= f.largest.key /\ f.smallest.key <= end}
        /\ Met(files, x0) \subseteq F
    BY <2>1, MetFacts
  <2> HIDE DEF x0
  <2>3. Covered(S \cup Met(files, x0))
    BY <2>2, CoveredGrows
  <2>4. Within(begin, end, S \cup Met(files, x0))
    BY DEF Within
  <2> QED
    BY <2>1, <2>3, <2>4
<1>2. CASE level # 0
  <2>1. H = Met(files, x0)
    <3>1. x0 \in Nat \X Nat /\ x0[1] = begin /\ x0[2] = end
      OBVIOUS
    <3>2. Met(files, x0) = {f \in Range(files) : begin <= f.largest.key /\ f.smallest.key <= end}
      BY <3>1, MetFacts
    <3>3. Range(GetOverlappingInputs(version, level, begin, end))
            = {f \in Range(version[level]) : begin <= f.largest.key /\ f.smallest.key <= end}
      BY <1>2, OverlapsBelow
    <3> QED
      BY <3>2, <3>3
  <2> QED
    BY <1>1, <2>1
<1>3. CASE level = 0
  <2>1. PICK r \in [0 .. N -> Nat \X Nat] :
          /\ r[0] = x0
          /\ \A n \in 1 .. N : r[n] = Grown(files, r[n - 1])
          /\ H = Met(files, r[N])
    <3>1. version[0] \in Seq(F) /\ H = Range(GetOverlappingInputs(version, 0, begin, end))
      BY <1>3
    <3>2. \E r \in [0 .. Len(version[0]) -> Nat \X Nat] :
            /\ r[0] = <<begin, end>>
            /\ \A n \in 1 .. Len(version[0]) : r[n] = Grown(version[0], r[n - 1])
            /\ Range(GetOverlappingInputs(version, 0, begin, end))
                 = Met(version[0], r[Len(version[0])])
      BY <3>1, GrowthRounds
    <3>3. version[0] = files
      BY <1>3
    <3> HIDE DEF files
    <3> QED
      BY <3>1, <3>2, <3>3
  <2>2. N \in Nat /\ files \in Seq(F)
    OBVIOUS
  <2> HIDE DEF files, N, x0
  <2>3. ASSUME NEW q \in X
        PROVE  Grown(files, q) \in X
    <3> DEFINE s == Grown(files, q)
    <3>1. /\ s \in Nat \X Nat
          /\ s[1] = q[1] \/ \E f \in Met(files, q) : s[1] = f.smallest.key
          /\ s[2] = q[2] \/ \E f \in Met(files, q) : s[2] = f.largest.key
      BY <2>2, GrownFacts, SMTT(20)
    <3>2. Met(files, q) \subseteq Met(files, s)
      BY <2>2, MetGrows
    <3>3. /\ Met(files, s) = {f \in Range(files) : s[1] <= f.largest.key /\ f.smallest.key <= s[2]}
          /\ Met(files, s) \subseteq F /\ Met(files, q) \subseteq F
      BY <2>2, <3>1, MetFacts
    <3> HIDE DEF s
    <3>4. s[1] \in Nat /\ s[2] \in Nat
      BY <3>1
    <3>5. Within(s[1], s[2], S \cup Met(files, q))
      <4>1. Within(q[1], q[2], S \cup Met(files, q))
        OBVIOUS
      <4>2. \A f \in Met(files, q) : f.smallest.key <= f.smallest.key /\ f.largest.key <= f.largest.key
        BY <3>3, RangedKeys
      <4> QED
        BY <3>1, <4>1, <4>2 DEF Within
    <3>6. Covered((S \cup Met(files, q)) \cup Met(files, s))
      <4>1. Covered(S \cup Met(files, q)) /\ S \cup Met(files, q) \in SUBSET F
        BY <3>3
      <4>2. \A h \in Met(files, s) : s[1] <= h.largest.key /\ h.smallest.key <= s[2]
        BY <3>3
      <4> QED
        BY <3>3, <3>4, <3>5, <4>1, <4>2, CoveredGrows
    <3>7. (S \cup Met(files, q)) \cup Met(files, s) = S \cup Met(files, s)
      BY <3>2
    <3>8. Within(s[1], s[2], S \cup Met(files, s))
      BY <3>2, <3>5 DEF Within
    <3> QED
      BY <3>1, <3>6, <3>7, <3>8 DEF s
  <2> HIDE DEF X
  <2>4. \A n \in 1 .. N : r[n - 1] \in X => r[n] \in X
    BY <2>1, <2>3
  <2>5. \A n \in 0 .. N : r[n] \in X
    BY <1>1, <2>1, <2>2, <2>4, InductionTo
  <2>6. r[N] \in X
    BY <2>2, <2>5
  <2> QED
    BY <2>1, <2>6 DEF X
<1> QED
  BY <1>2, <1>3

(* What the range meets is taken.                                          *)
LEMMA OverlapsTaken ==
  ASSUME NEW F, Ranged(F), NEW version, NEW level \in Nat, version[level] \in Seq(F),
         NEW begin \in Nat, NEW end \in Nat,
         NEW f \in Range(version[level]), begin <= f.largest.key, f.smallest.key <= end
  PROVE  f \in Range(GetOverlappingInputs(version, level, begin, end))
<1>1. CASE level # 0
  BY <1>1, OverlapsBelow
<1>2. CASE level = 0
  <2>1. PICK low \in Nat, high \in Nat :
          /\ low <= begin /\ end <= high
          /\ Range(GetOverlappingInputs(version, 0, begin, end))
               = {g \in Range(version[0]) : low <= g.largest.key /\ g.smallest.key <= high}
    <3>1. version[0] \in Seq(F)
      BY <1>2
    <3> DEFINE H == Range(GetOverlappingInputs(version, 0, begin, end))
    <3>2. H = Range(GetOverlappingInputs(version, 0, begin, end))
      OBVIOUS
    <3> HIDE DEF H
    <3>3. Settled(version[0], begin, end, H)
      BY <3>1, <3>2, OverlapsAtZero
    <3> QED
      BY <3>2, <3>3 DEF Settled
  <2>2. f.smallest.key \in Nat /\ f.largest.key \in Nat
    BY RangeFacts, RangedKeys
  <2>3. low <= f.largest.key /\ f.smallest.key <= high
    BY <2>1, <2>2, AtMostFacts
  <2> QED
    BY <1>2, <2>1, <2>3
<1> QED
  BY <1>1, <1>2

-----------------------------------------------------------------------------
(* Lemmas: AddBoundaryInputs.                                              *)

(* What is left out of a level: at level 0 it shares no user key with what *)
(* is taken; at the others it lies before or after all of it; and then it  *)
(* lies before it or shares no user key.                                   *)
KeysApart(f, g) == f.largest.key < g.smallest.key \/ g.largest.key < f.smallest.key
KeysClosed(R, S) == \A g \in R \ S, f \in S : KeysApart(g, f)
Bounded(R, S) ==
  \A g \in R \ S : \/ \A f \in S : Less(g.largest, f.smallest)
                   \/ \A f \in S : Less(f.largest, g.smallest)
Closed(R, S) ==
  \A g \in R \ S, f \in S : Less(g.largest, f.smallest) \/ f.largest.key < g.smallest.key

(* A range within low .. high and one that does not meet low .. high.       *)
LEMMA OutsideFacts ==
  \A low, high, a, b, c, d \in Nat :
    low <= c /\ d <= high /\ (~ (low <= b) \/ ~ (a <= high)) => b < c \/ d < a
OBVIOUS

(* The files a settled range meets are closed in keys.                     *)
LEMMA SettledFacts ==
  ASSUME NEW F, Ranged(F), NEW files \in Seq(F), NEW begin \in Nat, NEW end \in Nat,
         NEW H, Settled(files, begin, end, H)
  PROVE  H \subseteq Range(files) /\ KeysClosed(Range(files), H)
<1>1. PICK low \in Nat, high \in Nat :
        /\ H = {f \in Range(files) : low <= f.largest.key /\ f.smallest.key <= high}
        /\ \A f \in H : low <= f.smallest.key /\ f.largest.key <= high
  BY DEF Settled
<1>2. Range(files) \subseteq F
  BY RangeFacts
<1>3. ASSUME NEW g \in Range(files) \ H, NEW f \in H
      PROVE  KeysApart(g, f)
  <2>1. /\ f.smallest.key \in Nat /\ f.largest.key \in Nat
        /\ g.smallest.key \in Nat /\ g.largest.key \in Nat
    BY <1>1, <1>2, RangedKeys
  <2>2. low <= f.smallest.key /\ f.largest.key <= high
    BY <1>1
  <2>3. ~ (low <= g.largest.key) \/ ~ (g.smallest.key <= high)
    BY <1>1
  <2>4. low \in Nat /\ high \in Nat
    OBVIOUS
  <2>5. g.largest.key < f.smallest.key \/ f.largest.key < g.smallest.key
    <3> DEFINE a == g.smallest.key
               b == g.largest.key
               c == f.smallest.key
               d == f.largest.key
    <3>1. a \in Nat /\ b \in Nat /\ c \in Nat /\ d \in Nat /\ low \in Nat /\ high \in Nat
      BY <2>1, <2>4
    <3>2. low <= c /\ d <= high
      BY <2>2
    <3>3. ~ (low <= b) \/ ~ (a <= high)
      BY <2>3
    <3> HIDE DEF a, b, c, d
    <3>4. b < c \/ d < a
      BY <3>1, <3>2, <3>3, OutsideFacts
    <3> QED
      BY <3>4 DEF a, b, c, d
  <2> QED
    BY <2>5 DEF KeysApart
<1> QED
  BY <1>1, <1>3 DEF KeysClosed

(* Two files, one after the other.                                         *)
LEMMA LessKeys ==
  ASSUME NEW F, Ranged(F), NEW f \in F, NEW g \in F, Less(f.largest, g.smallest)
  PROVE  /\ f.largest.key <= g.smallest.key /\ f # g
         /\ ~ Less(g.largest, f.smallest) /\ Less(f.smallest, g.smallest) /\ Less(f.largest, g.largest)
<1>1. /\ f.smallest \in IKeys /\ f.largest \in IKeys /\ ~ Less(f.largest, f.smallest)
      /\ g.smallest \in IKeys /\ g.largest \in IKeys /\ ~ Less(g.largest, g.smallest)
  BY DEF Ranged
<1>2. f.smallest = f.largest \/ Less(f.smallest, f.largest)
  BY <1>1, LessFacts
<1>3. g.smallest = g.largest \/ Less(g.smallest, g.largest)
  BY <1>1, LessFacts
<1>4. Less(f.smallest, g.smallest) /\ Less(f.largest, g.largest)
  BY <1>1, <1>2, <1>3, LessFacts
<1>5. ~ Less(g.largest, f.smallest)
  BY <1>1, <1>4, <1>3, LessFacts
<1>6. f # g
  BY <1>1
<1> QED
  BY <1>1, <1>4, <1>5, <1>6, LessFacts

(* The files of a level in sequence that a range meets lie next to each    *)
(* other.                                                                  *)
LEMMA MetIsBounded ==
  ASSUME NEW F, Ranged(F), NEW R \in SUBSET F, Disjoint(R), NEW begin \in Nat, NEW end \in Nat,
         NEW H, H = {f \in R : begin <= f.largest.key /\ f.smallest.key <= end}
  PROVE  Bounded(R, H)
<1> SUFFICES ASSUME NEW g \in R \ H
             PROVE  \/ \A f \in H : Less(g.largest, f.smallest)
                    \/ \A f \in H : Less(f.largest, g.smallest)
  BY DEF Bounded
<1>1. g.smallest.key \in Nat /\ g.largest.key \in Nat /\ g.smallest.key <= g.largest.key
  BY RangedKeys
<1>2. g.largest.key < begin \/ end < g.smallest.key
  BY <1>1
<1>3. ASSUME g.largest.key < begin, NEW f \in H
      PROVE  Less(g.largest, f.smallest)
  <2>1. f.smallest.key \in Nat /\ f.largest.key \in Nat /\ begin <= f.largest.key /\ f \in R /\ f # g
    BY RangedKeys
  <2>2. ASSUME Less(f.largest, g.smallest)
        PROVE  FALSE
    <3>1. f.largest.key <= g.smallest.key
      BY <2>1, <2>2, LessKeys
    <3> QED
      BY <1>1, <1>3, <2>1, <3>1
  <2> QED
    BY <2>1, <2>2 DEF Disjoint, Apart
<1>4. ASSUME end < g.smallest.key, NEW f \in H
      PROVE  Less(f.largest, g.smallest)
  <2>1. f.smallest.key \in Nat /\ f.largest.key \in Nat /\ f.smallest.key <= end /\ f \in R /\ f # g
    BY RangedKeys
  <2>2. ASSUME Less(g.largest, f.smallest)
        PROVE  FALSE
    <3>1. g.largest.key <= f.smallest.key
      BY <2>1, <2>2, LessKeys
    <3> QED
      BY <1>1, <1>4, <2>1, <3>1
  <2> QED
    BY <2>1, <2>2 DEF Disjoint, Apart
<1> QED
  BY <1>2, <1>3, <1>4

(* One round.                                                              *)
BoundaryMore(files, inputs, before) ==
  FindSmallestBoundaryFile(files,
    IF before = inputs THEN GetRange(inputs).largest ELSE Last(before).largest)
AfterBoundary(files, inputs, before) ==
  IF BoundaryMore(files, inputs, before) = {} THEN before
  ELSE Append(before, CHOOSE f \in BoundaryMore(files, inputs, before) : TRUE)

(* The inputs after each round.                                            *)
BoundaryAdded(files, inputs, added) ==
  /\ added[0] = inputs
  /\ \A n \in 1 .. Len(files) : added[n] = AfterBoundary(files, inputs, added[n - 1])
  /\ AddBoundaryInputs(files, inputs) = added[Len(files)]

(* AddBoundaryInputs, round by round.                                      *)
LEMMA BoundaryRounds ==
  ASSUME NEW X, NEW files \in Seq(X), NEW inputs \in Seq(X), inputs # << >>
  PROVE  \E added \in [0 .. Len(files) -> Seq(X)] : BoundaryAdded(files, inputs, added)
<1> DEFINE N == Len(files)
           key(before) == IF before = inputs THEN GetRange(inputs).largest ELSE Last(before).largest
           more(before) == FindSmallestBoundaryFile(files, key(before))
           after(before) == IF more(before) = {} THEN before
                            ELSE Append(before, CHOOSE f \in more(before) : TRUE)
           step == [before \in Seq(X) |-> after(before)]
           body(g) == [n \in 0 .. N |-> IF n = 0 THEN inputs ELSE after(g[n - 1])]
           added == CHOOSE g : g = body(g)
<1>1. AddBoundaryInputs(files, inputs) = IF inputs = << >> THEN inputs ELSE added[N]
  BY Zenon DEF AddBoundaryInputs
<1>2. N \in Nat
  OBVIOUS
<1>3. \A before : more(before) \subseteq X
  BY DEF FindSmallestBoundaryFile, Range
<1>4. \A before \in Seq(X) : after(before) \in Seq(X)
  <2> TAKE before \in Seq(X)
  <2>1. CASE more(before) = {}
    BY <2>1
  <2>2. CASE more(before) # {}
    <3> DEFINE f == CHOOSE f \in more(before) : TRUE
    <3>1. f \in X
      BY <1>3, <2>2
    <3> HIDE DEF f, more
    <3>2. Append(before, f) \in Seq(X)
      BY <3>1
    <3> QED
      BY <2>2, <3>2 DEF f
  <2> QED
    BY <2>1, <2>2
<1>10. \A before : after(before) = AfterBoundary(files, inputs, before)
  BY DEF AfterBoundary, BoundaryMore
<1> HIDE DEF N, more, after
<1>5. step \in [Seq(X) -> Seq(X)]
  BY <1>4
<1> HIDE DEF step
<1>6. PICK g \in [0 .. N -> Seq(X)] : g[0] = inputs /\ \A n \in 1 .. N : g[n] = step[g[n - 1]]
  <2>1. Iterations(N, Seq(X), inputs, step) # {}
    BY <1>2, <1>5, RecursionTo
  <2> QED
    BY <2>1 DEF Iterations
<1>7. g = body(g)
  <2>1. \A n \in 1 .. N : n - 1 \in 0 .. N
    BY <1>2
  <2>2. \A n \in 1 .. N : g[n] = after(g[n - 1])
    BY <1>6, <2>1 DEF step
  <2> QED
    BY <1>2, <1>6, <2>2
<1>8. added = body(added)
  BY <1>7
<1> HIDE DEF added
<1>9. added[0] = inputs /\ \A n \in 1 .. N : added[n] = after(added[n - 1])
  BY <1>2, <1>8
<1>11. \A n \in 0 .. N : added[n] \in Seq(X)
  BY <1>2, <1>4, <1>9, InductionTo
<1>12. added \in [0 .. N -> Seq(X)]
  <2>1. DOMAIN added = 0 .. N /\ added = [n \in DOMAIN added |-> added[n]]
    BY <1>8
  <2> QED
    BY <1>11, <2>1
<1>13. \A n \in 1 .. N : added[n] = AfterBoundary(files, inputs, added[n - 1])
  BY <1>9, <1>10
<1> QED
  BY <1>1, <1>9, <1>12, <1>13 DEF N, BoundaryAdded

(* At level 0 nothing is added.                                            *)
LEMMA BoundaryNothing ==
  ASSUME NEW F, Ranged(F), NEW files \in Seq(F), NEW inputs \in Seq(F), inputs # << >>,
         KeysClosed(Range(files), Range(inputs))
  PROVE  AddBoundaryInputs(files, inputs) = inputs
<1> DEFINE r == GetRange(inputs)
<1>1. PICK z \in Range(inputs) : r.largest = z.largest
  BY GetRangeFacts
<1>2. r.largest \in IKeys /\ \A f \in Range(inputs) : ~ Less(r.largest, f.largest)
  BY GetRangeFacts
<1> HIDE DEF r
<1>3. z \in F /\ Range(files) \subseteq F
  BY RangeFacts
<1>4. ASSUME NEW f \in FindSmallestBoundaryFile(files, r.largest)
      PROVE  FALSE
  <2>1. f \in Range(files) /\ Less(z.largest, f.smallest) /\ f.smallest.key = z.largest.key
    BY <1>1, <1>4 DEF FindSmallestBoundaryFile
  <2>2. f \in F /\ Less(z.largest, f.largest)
    BY <1>3, <2>1, LessKeys
  <2>3. f \notin Range(inputs)
    BY <1>1, <1>2, <2>2
  <2>4. KeysApart(f, z)
    BY <2>1, <2>3 DEF KeysClosed
  <2>5. /\ f.smallest.key \in Nat /\ f.largest.key \in Nat /\ f.smallest.key <= f.largest.key
        /\ z.smallest.key \in Nat /\ z.largest.key \in Nat /\ z.smallest.key <= z.largest.key
    BY <1>3, <2>2, RangedKeys
  <2> QED
    BY <2>1, <2>4, <2>5 DEF KeysApart
<1>5. AfterBoundary(files, inputs, inputs) = inputs
  BY <1>4 DEF AfterBoundary, BoundaryMore, r
<1>6. PICK added \in [0 .. Len(files) -> Seq(F)] : BoundaryAdded(files, inputs, added)
  BY BoundaryRounds
<1> DEFINE N == Len(files)
           X == {inputs}
<1>7. N \in Nat
  OBVIOUS
<1>8. added[0] \in X
  BY <1>6 DEF BoundaryAdded
<1>9. \A n \in 1 .. N : added[n - 1] \in X => added[n] \in X
  BY <1>5, <1>6 DEF BoundaryAdded
<1> HIDE DEF N, X
<1>10. \A n \in 0 .. N : added[n] \in X
  BY <1>7, <1>8, <1>9, InductionTo
<1>11. added[N] \in X
  BY <1>7, <1>10
<1> QED
  BY <1>6, <1>11 DEF N, X, BoundaryAdded

(* Files one after another.                                                *)
LEMMA LessChain ==
  ASSUME NEW F, Ranged(F), NEW f \in F, NEW g \in F, NEW h \in F,
         Less(f.largest, g.smallest), Less(g.largest, h.smallest)
  PROVE  Less(f.largest, h.smallest)
<1> DEFINE a == f.largest
           b == g.smallest
           c == g.largest
           d == h.smallest
<1>1. a \in IKeys /\ b \in IKeys /\ c \in IKeys /\ d \in IKeys
  BY DEF Ranged
<1>2. Less(a, b) /\ Less(c, d) /\ ~ Less(c, b)
  BY DEF Ranged
<1> HIDE DEF a, b, c, d
<1>3. b = c \/ Less(b, c)
  BY <1>1, <1>2, LessFacts
<1>4. Less(a, c)
  BY <1>1, <1>2, <1>3, LessFacts
<1>5. Less(a, d)
  BY <1>1, <1>2, <1>4, LessFacts
<1> QED
  BY <1>5 DEF a, d

(* Files in sequence do not overlap.                                       *)
LEMMA SequenceIsDisjoint ==
  ASSUME NEW X, NEW files \in Seq(X), InSequence(files)
  PROVE  Disjoint(Range(files))
<1> SUFFICES ASSUME NEW f \in Range(files), NEW g \in Range(files), f # g
             PROVE  Apart(f, g)
  BY DEF Disjoint
<1>1. PICK i \in DOMAIN files, j \in DOMAIN files : f = files[i] /\ g = files[j]
  BY DEF Range
<1>2. i \in Nat /\ j \in Nat /\ i # j
  BY <1>1
<1>3. CASE i < j
  BY <1>1, <1>3 DEF InSequence, Apart
<1>4. CASE j < i
  BY <1>1, <1>4 DEF InSequence, Apart
<1> QED
  BY <1>2, <1>3, <1>4

(* Files that leave no gap together with what the inputs leave no gap to.  *)
KeepsCovered(F, A, B) == \A S \in SUBSET F : Covered(S \cup A) => Covered(S \cup B)

(* What is known after n rounds: the last of the files taken is the one    *)
(* the search goes on from, or there is none to go on with.                *)
BoundaryLast(files, inputs, n, before, i) ==
  /\ files[i] \in Range(before)
  /\ \A f \in Range(before) : f = files[i] \/ Less(f.largest, files[i].smallest)
  /\ BoundaryMore(files, inputs, before) = FindSmallestBoundaryFile(files, files[i].largest)
  /\ n < i \/ BoundaryMore(files, inputs, before) = {}
BoundaryRound(F, files, inputs, n, before) ==
  /\ before \in Seq(Range(files)) /\ Range(inputs) \subseteq Range(before)
  /\ Bounded(Range(files), Range(before))
  /\ KeepsCovered(F, Range(inputs), Range(before))
  /\ \E i \in DOMAIN files : BoundaryLast(files, inputs, n, before, i)

(* The first file that goes on with a key, when one does.                  *)
LEMMA FirstBoundary ==
  ASSUME NEW F, Ranged(F), NEW files \in Seq(F), InSequence(files), NEW key,
         FindSmallestBoundaryFile(files, key) = {}
  PROVE  \A f \in Range(files) : ~ (Less(key, f.smallest) /\ f.smallest.key = key.key)
<1> SUFFICES ASSUME NEW f \in Range(files), Less(key, f.smallest), f.smallest.key = key.key
             PROVE  FALSE
  OBVIOUS
<1> DEFINE bounds == {h \in Range(files) : Less(key, h.smallest) /\ h.smallest.key = key.key}
           I == {j \in DOMAIN files : files[j] \in bounds}
           m == LeastOf(I)
<1>1. f \in bounds
  OBVIOUS
<1>2. PICK i \in DOMAIN files : f = files[i]
  BY DEF Range
<1>3. I \in SUBSET Nat /\ I # {}
  BY <1>1, <1>2
<1> HIDE DEF I, bounds
<1>4. m \in I /\ \A j \in I : m <= j
  BY <1>3, LeastFacts
<1> HIDE DEF m
<1>5. m \in DOMAIN files /\ files[m] \in bounds
  BY <1>4 DEF I
<1>6. ASSUME NEW g \in bounds
      PROVE  ~ Less(g.smallest, files[m].smallest)
  <2>1. PICK k \in DOMAIN files : g = files[k]
    BY DEF bounds, Range
  <2>2. k \in I /\ m <= k /\ m \in Nat /\ k \in Nat
    BY <1>4, <1>5, <2>1 DEF I
  <2>3. files[m] \in F /\ files[k] \in F
    BY <1>5, <2>1
  <2>4. CASE m = k
    BY <2>1, <2>3, <2>4, LessFacts DEF Ranged
  <2>5. CASE m < k
    <3>1. Less(files[m].largest, files[k].smallest)
      BY <1>5, <2>5 DEF InSequence
    <3>2. Less(files[m].smallest, files[k].smallest)
      BY <2>3, <3>1, LessKeys
    <3> QED
      BY <2>1, <2>3, <3>2, LessFacts DEF Ranged
  <2> QED
    BY <2>2, <2>4, <2>5
<1>7. files[m] \in FindSmallestBoundaryFile(files, key)
  BY <1>5, <1>6 DEF FindSmallestBoundaryFile, bounds
<1> QED
  BY <1>7

(* What is known when a round adds a file: it lies after all others.       *)
LEMMA BoundaryTakes ==
  ASSUME NEW F, Ranged(F), NEW files \in Seq(F), InSequence(files),
         NEW B \in SUBSET Range(files), NEW i \in DOMAIN files, files[i] \in B,
         \A f \in B : f = files[i] \/ Less(f.largest, files[i].smallest),
         NEW x \in FindSmallestBoundaryFile(files, files[i].largest)
  PROVE  /\ x \in Range(files) /\ x \notin B
         /\ x.smallest.key = files[i].largest.key
         /\ \A f \in B : Less(f.largest, x.smallest)
         /\ \E j \in DOMAIN files : x = files[j] /\ i < j
         /\ Bounded(Range(files), B) => Bounded(Range(files), B \cup {x})
<1> DEFINE z == files[i]
<1>1. /\ x \in Range(files) /\ Less(z.largest, x.smallest) /\ x.smallest.key = z.largest.key
      /\ \A g \in Range(files) : Less(z.largest, g.smallest) /\ g.smallest.key = z.largest.key
                                   => ~ Less(g.smallest, x.smallest)
  BY DEF FindSmallestBoundaryFile
<1>2. z \in F /\ x \in F /\ Range(files) \subseteq F
  BY <1>1, RangeFacts
<1> HIDE DEF z
<1>3. z # x /\ ~ Less(x.largest, z.smallest)
  BY <1>1, <1>2, LessKeys
<1>4. x \notin B
  BY <1>3 DEF z
<1>5. \A f \in B : Less(f.largest, x.smallest)
  <2> TAKE f \in B
  <2>1. CASE f = z
    BY <1>1, <2>1
  <2>2. CASE Less(f.largest, z.smallest)
    BY <1>1, <1>2, <2>2, LessChain
  <2> QED
    BY <2>1, <2>2 DEF z
<1>6. \E j \in DOMAIN files : x = files[j] /\ i < j
  <2>1. PICK j \in DOMAIN files : x = files[j]
    BY <1>1 DEF Range
  <2>2. i \in Nat /\ j \in Nat /\ i # j
    BY <1>3, <2>1 DEF z
  <2>3. ~ (j < i)
    BY <1>3, <2>1 DEF z, InSequence
  <2> QED
    BY <2>1, <2>2, <2>3
<1>7. ASSUME Bounded(Range(files), B), NEW g \in Range(files) \ (B \cup {x})
      PROVE  \/ \A f \in B \cup {x} : Less(g.largest, f.smallest)
             \/ \A f \in B \cup {x} : Less(f.largest, g.smallest)
  <2>1. CASE \A f \in B : Less(g.largest, f.smallest)
    <3>1. Less(g.largest, z.smallest)
      BY <2>1 DEF z
    <3>2. Less(g.largest, x.smallest)
      BY <1>1, <1>2, <3>1, LessChain
    <3> QED
      BY <2>1, <3>2
  <2>2. CASE \A f \in B : Less(f.largest, g.smallest)
    <3>1. Less(z.largest, g.smallest)
      BY <2>2 DEF z
    <3>2. Apart(g, x)
      BY <1>1, SequenceIsDisjoint DEF Disjoint
    <3>3. ASSUME Less(g.largest, x.smallest)
          PROVE  FALSE
      <4>1. z.largest.key <= g.smallest.key /\ g.largest.key <= x.smallest.key
        BY <1>2, <1>7, <3>1, <3>3, LessKeys
      <4>2. /\ g.smallest.key \in Nat /\ g.largest.key \in Nat /\ g.smallest.key <= g.largest.key
            /\ z.largest.key \in Nat
        BY <1>2, <1>7, RangedKeys
      <4>3. g.smallest.key = z.largest.key
        BY <1>1, <4>1, <4>2
      <4>4. Less(g.smallest, x.smallest)
        BY <1>2, <1>7, <3>3, LessKeys
      <4> QED
        BY <1>1, <1>7, <3>1, <4>3, <4>4
    <3>4. Less(x.largest, g.smallest)
      BY <3>2, <3>3 DEF Apart
    <3> QED
      BY <2>2, <3>4
  <2> QED
    BY <1>7, <2>1, <2>2 DEF Bounded
<1> QED
  BY <1>1, <1>4, <1>5, <1>6, <1>7 DEF z, Bounded

(* A file that starts with the last key of another leaves no gap.          *)
LEMMA BoundaryIsCovered ==
  ASSUME NEW F, Ranged(F), NEW S \in SUBSET F, Covered(S), NEW z \in S, NEW x \in F,
         x.smallest.key = z.largest.key
  PROVE  Covered(S \cup {x})
<1> DEFINE k == x.smallest.key
<1>1. /\ k \in Nat /\ z.smallest.key <= k /\ k <= z.largest.key
      /\ k <= x.largest.key /\ x.smallest.key <= k
  BY RangedKeys
<1>2. Within(k, k, S)
  BY <1>1 DEF Within
<1> HIDE DEF k
<1>3. {x} \in SUBSET F /\ \A h \in {x} : k <= h.largest.key /\ h.smallest.key <= k
  BY <1>1
<1> QED
  BY <1>1, <1>2, <1>3, CoveredGrows

(* A round keeps what is known.                                            *)
LEMMA BoundaryRoundKept ==
  ASSUME NEW F, Ranged(F), NEW files \in Seq(F), InSequence(files),
         NEW inputs \in Seq(Range(files)), NEW n \in Nat, NEW before,
         BoundaryRound(F, files, inputs, n, before)
  PROVE  BoundaryRound(F, files, inputs, n + 1, AfterBoundary(files, inputs, before))
<1> DEFINE R == Range(files)
           more == BoundaryMore(files, inputs, before)
           x == CHOOSE f \in more : TRUE
           next == Append(before, x)
<1>1. /\ before \in Seq(R) /\ Range(inputs) \subseteq Range(before)
      /\ Bounded(R, Range(before)) /\ KeepsCovered(F, Range(inputs), Range(before))
  BY DEF BoundaryRound
<1>2. PICK i \in DOMAIN files : BoundaryLast(files, inputs, n, before, i)
  BY DEF BoundaryRound
<1>3. R \subseteq F /\ Range(before) \subseteq R /\ i \in Nat /\ Len(before) \in Nat
  BY <1>1, RangeFacts
<1> HIDE DEF R
<1>4. CASE more = {}
  <2>1. AfterBoundary(files, inputs, before) = before
    BY <1>4 DEF AfterBoundary
  <2>2. BoundaryLast(files, inputs, n + 1, before, i)
    BY <1>2, <1>4 DEF BoundaryLast
  <2> QED
    BY <1>1, <1>2, <2>1, <2>2 DEF BoundaryRound, R
<1>5. CASE more # {}
  <2>1. AfterBoundary(files, inputs, before) = next /\ x \in more
    BY <1>5 DEF AfterBoundary
  <2> HIDE DEF x
  <2>2. x \in FindSmallestBoundaryFile(files, files[i].largest) /\ n < i
    BY <1>2, <1>5, <2>1 DEF BoundaryLast
  <2>3. /\ x \in R /\ x \notin Range(before) /\ x.smallest.key = files[i].largest.key
        /\ \A f \in Range(before) : Less(f.largest, x.smallest)
        /\ \E j \in DOMAIN files : x = files[j] /\ i < j
        /\ Bounded(R, Range(before) \cup {x})
    <3> DEFINE B == Range(before)
    <3>1. B \in SUBSET R /\ files[i] \in B /\ Bounded(R, B)
          /\ \A f \in B : f = files[i] \/ Less(f.largest, files[i].smallest)
      BY <1>1, <1>2, <1>3 DEF BoundaryLast
    <3> HIDE DEF B
    <3>2. /\ x \in R /\ x \notin B /\ x.smallest.key = files[i].largest.key
          /\ \A f \in B : Less(f.largest, x.smallest)
          /\ \E j \in DOMAIN files : x = files[j] /\ i < j
          /\ Bounded(R, B \cup {x})
      BY <2>2, <3>1, BoundaryTakes DEF R
    <3> QED
      BY <3>2 DEF B
  <2>4. next \in Seq(R) /\ Range(next) = Range(before) \cup {x} /\ Len(next) = Len(before) + 1
        /\ next[Len(before) + 1] = x
    <3>1. /\ next \in Seq(R) /\ Len(next) = Len(before) + 1 /\ next[Len(before) + 1] = x
          /\ ToSet(next) = ToSet(before) \cup {x}
      BY <1>1, <2>3, AppendFacts
    <3> HIDE DEF next
    <3>2. Range(next) = ToSet(next) /\ Range(before) = ToSet(before)
      BY DEF Range, ToSet
    <3> QED
      BY <3>1, <3>2
  <2>5. next # inputs /\ Last(next) = x
    <3>1. x \in Range(next) /\ x \notin Range(inputs)
      BY <1>1, <2>3, <2>4
    <3> QED
      BY <2>4, <3>1 DEF Last
  <2> HIDE DEF next
  <2>6. BoundaryMore(files, inputs, next) = FindSmallestBoundaryFile(files, x.largest)
    BY <2>5 DEF BoundaryMore
  <2>7. \E j \in DOMAIN files : BoundaryLast(files, inputs, n + 1, next, j)
    <3>1. PICK j \in DOMAIN files : x = files[j] /\ i < j
      BY <2>3
    <3>2. j \in Nat /\ n + 1 < j
      BY <1>3, <2>2, <3>1
    <3>3. BoundaryLast(files, inputs, n + 1, next, j)
      BY <2>3, <2>4, <2>6, <3>1, <3>2 DEF BoundaryLast
    <3> QED
      BY <3>3
  <2>8. KeepsCovered(F, Range(inputs), Range(next))
    <3> SUFFICES ASSUME NEW S \in SUBSET F, Covered(S \cup Range(inputs))
                 PROVE  Covered(S \cup Range(next))
      BY DEF KeepsCovered
    <3>1. Covered(S \cup Range(before))
      BY <1>1 DEF KeepsCovered
    <3>2. S \cup Range(before) \in SUBSET F /\ files[i] \in S \cup Range(before) /\ x \in F
      BY <1>2, <1>3, <2>3 DEF BoundaryLast
    <3>3. Covered((S \cup Range(before)) \cup {x})
      BY <2>3, <3>1, <3>2, BoundaryIsCovered
    <3>4. (S \cup Range(before)) \cup {x} = S \cup Range(next)
      BY <2>4
    <3> QED
      BY <3>3, <3>4
  <2> QED
    BY <1>1, <2>1, <2>3, <2>4, <2>7, <2>8 DEF BoundaryRound, R
<1> QED
  BY <1>4, <1>5

(* What is known before the first round.                                   *)
LEMMA BoundaryStarts ==
  ASSUME NEW F, Ranged(F), NEW files \in Seq(F), InSequence(files),
         NEW inputs \in Seq(Range(files)), inputs # << >>, Bounded(Range(files), Range(inputs))
  PROVE  BoundaryRound(F, files, inputs, 0, inputs)
<1> DEFINE r == GetRange(inputs)
<1>1. Range(files) \subseteq F /\ Range(inputs) \subseteq Range(files) /\ inputs \in Seq(F)
  <2>1. Range(files) \subseteq F
    BY RangeFacts
  <2>2. Range(inputs) \subseteq Range(files)
    BY RangeFacts
  <2>3. inputs \in Seq(F)
    BY <2>1
  <2> QED
    BY <2>1, <2>2, <2>3
<1>2. PICK z \in Range(inputs) : r.largest = z.largest
  BY <1>1, GetRangeFacts
<1>3. \A f \in Range(inputs) : ~ Less(r.largest, f.largest)
  BY <1>1, GetRangeFacts
<1>4. BoundaryMore(files, inputs, inputs) = FindSmallestBoundaryFile(files, z.largest)
  BY <1>2 DEF BoundaryMore
<1> HIDE DEF r
<1>5. PICK i \in DOMAIN files : z = files[i]
  BY <1>1, <1>2 DEF Range
<1>6. ASSUME NEW f \in Range(inputs)
      PROVE  f = z \/ Less(f.largest, z.smallest)
  <2>1. f = z \/ Apart(f, z)
    BY <1>1, <1>2, SequenceIsDisjoint DEF Disjoint
  <2>2. ASSUME Less(z.largest, f.smallest)
        PROVE  FALSE
    <3>1. Less(z.largest, f.largest)
      BY <1>1, <1>2, <2>2, LessKeys
    <3> QED
      BY <1>2, <1>3, <3>1
  <2> QED
    BY <2>1, <2>2 DEF Apart
<1>7. 0 < i
  BY <1>5
<1>8. BoundaryLast(files, inputs, 0, inputs, i)
  BY <1>2, <1>4, <1>5, <1>6, <1>7 DEF BoundaryLast
<1>9. KeepsCovered(F, Range(inputs), Range(inputs))
  BY DEF KeepsCovered
<1> QED
  BY <1>8, <1>9 DEF BoundaryRound

(* And after the last: nothing is left out that goes on with a key.        *)
LEMMA BoundaryEnds ==
  ASSUME NEW F, Ranged(F), NEW files \in Seq(F), InSequence(files), NEW inputs,
         NEW before, BoundaryRound(F, files, inputs, Len(files), before)
  PROVE  Closed(Range(files), Range(before))
<1>1. Bounded(Range(files), Range(before)) /\ before \in Seq(Range(files))
  BY DEF BoundaryRound
<1>2. PICK i \in DOMAIN files : BoundaryLast(files, inputs, Len(files), before, i)
  BY DEF BoundaryRound
<1> DEFINE z == files[i]
<1>3. FindSmallestBoundaryFile(files, z.largest) = {}
  <2>1. ~ (Len(files) < i)
    OBVIOUS
  <2> QED
    BY <1>2, <2>1 DEF BoundaryLast
<1>4. \A f \in Range(files) : ~ (Less(z.largest, f.smallest) /\ f.smallest.key = z.largest.key)
  BY <1>3, FirstBoundary
<1>5. z \in Range(before) /\ \A f \in Range(before) : f = z \/ Less(f.largest, z.smallest)
  BY <1>2 DEF BoundaryLast
<1>6. z \in F /\ Range(files) \subseteq F /\ Range(before) \subseteq F
  BY <1>1, RangeFacts
<1> HIDE DEF z
<1> SUFFICES ASSUME NEW g \in Range(files) \ Range(before), NEW f \in Range(before)
             PROVE  Less(g.largest, f.smallest) \/ f.largest.key < g.smallest.key
  BY DEF Closed
<1>7. CASE \A h \in Range(before) : Less(g.largest, h.smallest)
  BY <1>7
<1>8. CASE \A h \in Range(before) : Less(h.largest, g.smallest)
  <2>1. Less(z.largest, g.smallest)
    BY <1>5, <1>8
  <2>2. z.largest.key <= g.smallest.key /\ g.smallest.key # z.largest.key
    BY <1>4, <1>6, <2>1, LessKeys
  <2>3. f.largest.key <= z.largest.key
    <3>1. CASE f = z
      BY <1>6, <3>1, RangedKeys
    <3>2. CASE Less(f.largest, z.smallest)
      <4>1. f.largest.key <= z.smallest.key
        BY <1>6, <3>2, LessKeys
      <4>2. /\ f.largest.key \in Nat /\ z.smallest.key \in Nat /\ z.largest.key \in Nat
            /\ z.smallest.key <= z.largest.key
        BY <1>6, RangedKeys
      <4> QED
        BY <4>1, <4>2
    <3> QED
      BY <1>5, <3>1, <3>2
  <2>4. f.largest.key \in Nat /\ z.largest.key \in Nat /\ g.smallest.key \in Nat
    BY <1>6, RangedKeys
  <2> QED
    BY <2>2, <2>3, <2>4
<1> QED
  BY <1>1, <1>7, <1>8 DEF Bounded

(* At a level in sequence the boundary files leave no gap to the inputs,   *)
(* and nothing that goes on with a key of theirs is left out.              *)
LEMMA BoundaryInSequence ==
  ASSUME NEW F, Ranged(F), NEW files \in Seq(F), InSequence(files),
         NEW inputs \in Seq(Range(files)), inputs # << >>, Bounded(Range(files), Range(inputs)),
         NEW all, all = AddBoundaryInputs(files, inputs)
  PROVE  /\ all \in Seq(Range(files)) /\ Range(inputs) \subseteq Range(all)
         /\ Closed(Range(files), Range(all))
         /\ KeepsCovered(F, Range(inputs), Range(all))
<1> DEFINE N == Len(files)
           R == Range(files)
<1>1. files \in Seq(R) /\ N \in Nat
  BY RangeFacts
<1>2. PICK added \in [0 .. N -> Seq(R)] : BoundaryAdded(files, inputs, added)
  BY <1>1, BoundaryRounds
<1> DEFINE X == {p \in (0 .. N) \X Seq(R) : BoundaryRound(F, files, inputs, p[1], p[2])}
           at == [n \in 0 .. N |-> <<n, added[n]>>]
<1>3. at[0] \in X
  <2>1. BoundaryRound(F, files, inputs, 0, inputs)
    BY BoundaryStarts
  <2>2. at[0] = <<0, inputs>>
    BY <1>1, <1>2 DEF BoundaryAdded
  <2> QED
    BY <1>1, <2>1, <2>2
<1>4. ASSUME NEW n \in 1 .. N, at[n - 1] \in X
      PROVE  at[n] \in X
  <2>1. n - 1 \in 0 .. N /\ n - 1 \in Nat /\ (n - 1) + 1 = n /\ n \in 0 .. N
    BY <1>1
  <2>2. at[n - 1] = <<n - 1, added[n - 1]>> /\ at[n] = <<n, added[n]>>
    BY <2>1
  <2>3. BoundaryRound(F, files, inputs, n - 1, added[n - 1])
    BY <1>4, <2>2
  <2>4. BoundaryRound(F, files, inputs, (n - 1) + 1, AfterBoundary(files, inputs, added[n - 1]))
    BY <2>1, <2>3, BoundaryRoundKept
  <2>5. added[n] = AfterBoundary(files, inputs, added[n - 1]) /\ added[n] \in Seq(R)
    BY <1>2, <2>1 DEF BoundaryAdded
  <2>6. BoundaryRound(F, files, inputs, n, added[n])
    BY <2>1, <2>4, <2>5
  <2> QED
    BY <2>1, <2>2, <2>5, <2>6
<1> HIDE DEF X, at
<1>5. \A n \in 0 .. N : at[n] \in X
  BY <1>1, <1>3, <1>4, InductionTo
<1>6. BoundaryRound(F, files, inputs, N, added[N]) /\ all = added[N]
  <2>1. at[N] \in X /\ at[N] = <<N, added[N]>>
    BY <1>1, <1>5 DEF at
  <2> QED
    BY <1>2, <2>1 DEF X, BoundaryAdded
<1>7. Closed(R, Range(all))
  BY <1>6, BoundaryEnds
<1> QED
  BY <1>6, <1>7 DEF BoundaryRound

-----------------------------------------------------------------------------
(* Lemmas: SetupOtherInputs.                                               *)

(* Versions whose levels above 0 lie in sequence.                          *)
Sequenced(F, v) ==
  /\ Ranged(F) /\ v \in [Levels -> Seq(F)]
  /\ \A level \in Levels \ {0} : InSequence(v[level])

(* Some files lie all after a file, or all before it.                      *)
OneSide(g, S) ==
  \/ \A f \in S : Less(g.largest, f.smallest)
  \/ \A f \in S : Less(f.largest, g.smallest)

(* What boundary files may be added to.                                    *)
Pickable(v, level, picked) ==
  /\ picked \in Seq(Range(v[level])) /\ picked # << >>
  /\ IF level = 0 THEN KeysClosed(Range(v[0]), Range(picked))
     ELSE Bounded(Range(v[level]), Range(picked))

(* Apart in keys is apart.                                                 *)
LEMMA KeysApartFacts ==
  ASSUME NEW F, Ranged(F), NEW g \in F, NEW f \in F, KeysApart(g, f)
  PROVE  Less(g.largest, f.smallest) \/ f.largest.key < g.smallest.key
<1>1. g.largest \in IKeys /\ f.smallest \in IKeys
  BY DEF Ranged
<1>2. CASE g.largest.key < f.smallest.key
  BY <1>1, <1>2, LessFacts
<1> QED
  BY <1>2 DEF KeysApart

(* There are two levels or more.                                           *)
LEMMA LevelsAreNumbers ==
  /\ kNumLevels \in Nat /\ kNumLevels >= 2
  /\ \A level \in Levels : level \in Nat
  /\ \A level \in 0 .. kNumLevels - 2 : level \in Levels /\ level + 1 \in Levels \ {0}
BY CompactionAssumption DEF Levels

(* With the boundary files, at whatever level.                             *)
LEMMA FirstInputs ==
  ASSUME NEW F, NEW v, Sequenced(F, v), NEW level \in Levels,
         NEW picked, Pickable(v, level, picked),
         NEW all, all = AddBoundaryInputs(v[level], picked)
  PROVE  /\ all \in Seq(Range(v[level])) /\ all # << >> /\ Range(picked) \subseteq Range(all)
         /\ Closed(Range(v[level]), Range(all))
         /\ KeepsCovered(F, Range(picked), Range(all))
<1>1. Ranged(F) /\ v[level] \in Seq(F) /\ level \in Nat /\ (level # 0 => InSequence(v[level]))
  BY LevelsAreNumbers DEF Sequenced
<1>2. Range(v[level]) \subseteq F /\ picked \in Seq(Range(v[level])) /\ picked # << >>
  BY <1>1, RangeFacts DEF Pickable
<1>3. Range(picked) # {} /\ Range(picked) \subseteq F
  <2>1. 1 \in DOMAIN picked
    BY <1>2
  <2>2. Range(picked) \subseteq Range(v[level])
    BY <1>2, RangeFacts
  <2> QED
    BY <1>2, <2>1, <2>2 DEF Range
<1>4. /\ all \in Seq(Range(v[level])) /\ Range(picked) \subseteq Range(all)
      /\ Closed(Range(v[level]), Range(all))
      /\ KeepsCovered(F, Range(picked), Range(all))
  <2>1. CASE level = 0
    <3>1. picked \in Seq(F) /\ KeysClosed(Range(v[level]), Range(picked))
      BY <1>2, <2>1 DEF Pickable
    <3>2. all = picked
      BY <1>1, <1>2, <3>1, BoundaryNothing
    <3>3. Closed(Range(v[level]), Range(picked))
      BY <1>1, <1>2, <1>3, <3>1, KeysApartFacts DEF KeysClosed, Closed
    <3> QED
      BY <1>2, <3>2, <3>3 DEF KeepsCovered
  <2>2. CASE level # 0
    <3>1. Bounded(Range(v[level]), Range(picked))
      BY <2>2 DEF Pickable
    <3> QED
      BY <1>1, <1>2, <2>2, <3>1, BoundaryInSequence
  <2> QED
    BY <2>1, <2>2
<1>5. all # << >>
  <2>1. Range(all) # {}
    BY <1>3, <1>4
  <2> QED
    BY <2>1 DEF Range
<1> QED
  BY <1>4, <1>5

(* The files that a range meets.                                           *)
LEMMA OverlapsPickable ==
  ASSUME NEW F, NEW v, Sequenced(F, v), NEW level \in Levels,
         NEW begin \in Nat, NEW end \in Nat,
         NEW picked, picked = GetOverlappingInputs(v, level, begin, end)
  PROVE  /\ picked \in Seq(Range(v[level]))
         /\ picked # << >> => Pickable(v, level, picked)
<1>1. Ranged(F) /\ v[level] \in Seq(F) /\ level \in Nat /\ (level # 0 => InSequence(v[level]))
  BY LevelsAreNumbers DEF Sequenced
<1>2. picked \in Seq(Range(v[level])) /\ Range(v[level]) \subseteq F
  BY <1>1, InputsFacts, RangeFacts
<1>3. CASE level = 0
  <2>1. Settled(v[0], begin, end, Range(picked))
    BY <1>1, <1>3, OverlapsAtZero
  <2>2. KeysClosed(Range(v[0]), Range(picked))
    BY <1>1, <1>3, <2>1, SettledFacts
  <2> QED
    BY <1>2, <1>3, <2>2 DEF Pickable
<1>4. CASE level # 0
  <2>1. Range(picked) = {f \in Range(v[level]) : begin <= f.largest.key /\ f.smallest.key <= end}
    BY <1>1, <1>4, OverlapsBelow
  <2>2. Disjoint(Range(v[level]))
    BY <1>1, <1>4, SequenceIsDisjoint
  <2>3. Bounded(Range(v[level]), Range(picked))
    BY <1>1, <1>2, <2>1, <2>2, MetIsBounded
  <2> QED
    BY <1>2, <1>4, <2>3 DEF Pickable
<1> QED
  BY <1>3, <1>4

(* The range of some files, in user keys.                                  *)
LEMMA RangeOfKeys ==
  ASSUME NEW F, Ranged(F), NEW inputs \in Seq(F), inputs # << >>,
         NEW r, r = GetRange(inputs)
  PROVE  /\ r.smallest.key \in Nat /\ r.largest.key \in Nat
         /\ Within(r.smallest.key, r.largest.key, Range(inputs))
         /\ \A f \in Range(inputs) :
              r.smallest.key <= f.largest.key /\ f.smallest.key <= r.largest.key
<1>1. /\ r.smallest \in IKeys /\ r.largest \in IKeys
      /\ \E f \in Range(inputs) : r.smallest = f.smallest
      /\ \E f \in Range(inputs) : r.largest = f.largest
      /\ \A f \in Range(inputs) :
           r.smallest.key <= f.smallest.key /\ f.largest.key <= r.largest.key
  BY GetRangeFacts
<1>2. r.smallest.key \in Nat /\ r.largest.key \in Nat
  BY <1>1 DEF IKeys
<1>3. Within(r.smallest.key, r.largest.key, Range(inputs))
  BY <1>1, <1>2 DEF Within
<1>4. ASSUME NEW f \in Range(inputs)
      PROVE  r.smallest.key <= f.largest.key /\ f.smallest.key <= r.largest.key
  <2>1. f \in F
    BY RangeFacts
  <2>2. f.smallest.key \in Nat /\ f.largest.key \in Nat /\ f.smallest.key <= f.largest.key
    BY <2>1, RangedKeys
  <2>3. r.smallest.key <= f.smallest.key /\ f.largest.key <= r.largest.key
    BY <1>1
  <2> QED
    BY <1>2, <2>2, <2>3, AtMostFacts
<1> QED
  BY <1>2, <1>3, <1>4

(* The files of the next level that the range of some files meets: what is *)
(* left out there lies to one side of all.                                 *)
TakenBelow(F, v, level, first, second) ==
  /\ second \in Seq(Range(v[level]))
  /\ \A g \in Range(v[level]) \ Range(second) : OneSide(g, Range(first) \cup Range(second))
  /\ \A S \in SUBSET F : Covered(S) /\ Range(first) \subseteq S => Covered(S \cup Range(second))
  /\ \A g \in Range(v[level]) :
       g \in Range(second) <=> \E f, h \in Range(first) :
                                 f.smallest.key <= g.largest.key /\ g.smallest.key <= h.largest.key

(* The inputs of the next level, and what is left out of it.               *)
LEMMA NextInputs ==
  ASSUME NEW F, NEW v, Sequenced(F, v), NEW level \in Levels \ {0},
         NEW first \in Seq(F), first # << >>,
         NEW second, second = InputsOver(v, level, GetRange(first))
  PROVE  TakenBelow(F, v, level, first, second)
<1> DEFINE r == GetRange(first)
           begin == r.smallest.key
           end == r.largest.key
           R == Range(v[level])
<1>1. Ranged(F) /\ v[level] \in Seq(F) /\ level \in Nat /\ level # 0 /\ InSequence(v[level])
  BY LevelsAreNumbers DEF Sequenced
<1>2. R \subseteq F /\ Range(first) \subseteq F
  BY <1>1, RangeFacts
<1>3. /\ begin \in Nat /\ end \in Nat /\ Within(begin, end, Range(first))
      /\ \A f \in Range(first) : begin <= f.largest.key /\ f.smallest.key <= end
      /\ \A f \in Range(first) : begin <= f.smallest.key /\ f.largest.key <= end
  BY <1>1, RangeOfKeys, GetRangeFacts
<1>4. second = GetOverlappingInputs(v, level, begin, end)
  BY DEF InputsOver
<1> HIDE DEF begin, end, r
<1>5. second \in Seq(R)
  BY <1>1, <1>4, InputsFacts
<1>6. Range(second) = {f \in R : begin <= f.largest.key /\ f.smallest.key <= end}
  BY <1>1, <1>3, <1>4, OverlapsBelow
<1>7. Bounded(R, Range(second))
  <2>1. Disjoint(R)
    BY <1>1, SequenceIsDisjoint
  <2> QED
    BY <1>1, <1>2, <1>3, <1>6, <2>1, MetIsBounded
<1>8. ASSUME NEW g \in R \ Range(second)
      PROVE  OneSide(g, Range(first) \cup Range(second))
  <2>1. /\ g.smallest.key \in Nat /\ g.largest.key \in Nat /\ g.smallest.key <= g.largest.key /\ g \in F
        /\ g.smallest \in IKeys /\ g.largest \in IKeys
    BY <1>1, <1>2, RangedKeys DEF Ranged
  <2>2. g.largest.key < begin \/ end < g.smallest.key
    <3>1. ~ (begin <= g.largest.key) \/ ~ (g.smallest.key <= end)
      BY <1>6
    <3> QED
      BY <1>3, <2>1, <3>1
  <2>3. ASSUME NEW f \in Range(first)
        PROVE  /\ f.smallest \in IKeys /\ f.largest \in IKeys
               /\ f.smallest.key \in Nat /\ f.largest.key \in Nat
               /\ begin <= f.smallest.key /\ f.largest.key <= end
    BY <1>1, <1>2, <1>3, RangedKeys DEF Ranged
  <2>4. ASSUME NEW h \in Range(second)
        PROVE  /\ h \in F /\ h \in R /\ h # g /\ h.smallest.key \in Nat /\ h.largest.key \in Nat
               /\ begin <= h.largest.key /\ h.smallest.key <= end
               /\ Apart(h, g)
    <3>1. h \in R /\ h # g /\ begin <= h.largest.key /\ h.smallest.key <= end
      BY <1>6
    <3>2. Apart(h, g)
      BY <1>1, <3>1, SequenceIsDisjoint DEF Disjoint
    <3> QED
      BY <1>1, <1>2, <3>1, <3>2, RangedKeys
  <2>5. CASE g.largest.key < begin
    <3>1. ASSUME NEW f \in Range(first)
          PROVE  Less(g.largest, f.smallest)
      <4>1. g.largest.key < f.smallest.key
        BY <1>3, <2>1, <2>3, <2>5
      <4> QED
        BY <2>1, <2>3, <4>1, LessFacts
    <3>2. ASSUME NEW h \in Range(second)
          PROVE  Less(g.largest, h.smallest)
      <4>1. ASSUME Less(h.largest, g.smallest)
            PROVE  FALSE
        <5>1. h.largest.key <= g.smallest.key
          BY <1>1, <2>1, <2>4, <4>1, LessKeys
        <5>2. h.largest.key \in Nat /\ begin <= h.largest.key
          BY <2>4
        <5> QED
          BY <1>3, <2>1, <2>5, <5>1, <5>2, NoRing
      <4> QED
        BY <2>4, <4>1 DEF Apart
    <3> QED
      BY <3>1, <3>2 DEF OneSide
  <2>6. CASE end < g.smallest.key
    <3>1. ASSUME NEW f \in Range(first)
          PROVE  Less(f.largest, g.smallest)
      <4>1. f.largest.key < g.smallest.key
        BY <1>3, <2>1, <2>3, <2>6
      <4> QED
        BY <2>1, <2>3, <4>1, LessFacts
    <3>2. ASSUME NEW h \in Range(second)
          PROVE  Less(h.largest, g.smallest)
      <4>1. ASSUME Less(g.largest, h.smallest)
            PROVE  FALSE
        <5>1. g.largest.key <= h.smallest.key
          BY <1>1, <2>1, <2>4, <4>1, LessKeys
        <5>2. h.smallest.key \in Nat /\ h.smallest.key <= end
          BY <2>4
        <5> QED
          BY <1>3, <2>1, <2>6, <5>1, <5>2, NoRing
      <4> QED
        BY <2>4, <4>1 DEF Apart
    <3> QED
      BY <3>1, <3>2 DEF OneSide
  <2> QED
    BY <2>2, <2>5, <2>6
<1>9. ASSUME NEW S \in SUBSET F, Covered(S), Range(first) \subseteq S
      PROVE  Covered(S \cup Range(second))
  <2>1. Within(begin, end, S)
    BY <1>3, <1>9 DEF Within
  <2> QED
    BY <1>1, <1>3, <1>4, <1>9, <2>1, OverlapsCovered
<1>10. ASSUME NEW g \in R
       PROVE  g \in Range(second) <=> \E f, h \in Range(first) :
                f.smallest.key <= g.largest.key /\ g.smallest.key <= h.largest.key
  <2>1. g.smallest.key \in Nat /\ g.largest.key \in Nat
    BY <1>1, <1>2, RangedKeys
  <2>2. ASSUME NEW f \in Range(first), NEW h \in Range(first),
               f.smallest.key <= g.largest.key, g.smallest.key <= h.largest.key
        PROVE  g \in Range(second)
    <3>1. begin <= f.smallest.key /\ h.largest.key <= end
      BY <1>3
    <3>2. f.smallest.key \in Nat /\ h.largest.key \in Nat
      BY <1>1, <1>2, RangedKeys
    <3>3. begin <= g.largest.key /\ g.smallest.key <= end
      BY <1>3, <2>1, <2>2, <3>1, <3>2, AtMostFacts
    <3> QED
      BY <1>6, <3>3
  <2>3. ASSUME g \in Range(second)
        PROVE  \E f, h \in Range(first) :
                 f.smallest.key <= g.largest.key /\ g.smallest.key <= h.largest.key
    <3>1. begin <= g.largest.key /\ g.smallest.key <= end
      BY <1>6, <2>3
    <3>2. PICK f \in Range(first), h \in Range(first) : f.smallest.key <= begin /\ end <= h.largest.key
      BY <1>3 DEF Within
    <3>3. f.smallest.key \in Nat /\ h.largest.key \in Nat
      BY <1>1, <1>2, RangedKeys
    <3>4. f.smallest.key <= g.largest.key /\ g.smallest.key <= h.largest.key
      BY <1>3, <2>1, <3>1, <3>2, <3>3, AtMostFacts
    <3> QED
      BY <3>4
  <2> QED
    BY <2>2, <2>3
<1> QED
  BY <1>5, <1>8, <1>9, <1>10 DEF TakenBelow

(* What a compaction takes: files of its level that leave out none which   *)
(* goes on with a key of theirs, and files of the next level, such that    *)
(* the others of that level lie to one side of all it takes.               *)
InputFiles(c) == Range(c.inputs[1]) \cup Range(c.inputs[2])
Chosen(c, v) ==
  /\ {"level", "inputs"} \subseteq DOMAIN c
  /\ c.version = v /\ c.level \in 0 .. kNumLevels - 2
  /\ c.inputs[1] \in Seq(Range(v[c.level])) /\ c.inputs[1] # << >>
  /\ c.inputs[2] \in Seq(Range(v[c.level + 1]))
  /\ Closed(Range(v[c.level]), Range(c.inputs[1]))
  /\ \A g \in Range(v[c.level + 1]) \ Range(c.inputs[2]) : OneSide(g, InputFiles(c))

(* The same of two sequences of files.                                     *)
ChosenFiles(v, level, first, second) ==
  /\ first \in Seq(Range(v[level])) /\ first # << >>
  /\ second \in Seq(Range(v[level + 1]))
  /\ Closed(Range(v[level]), Range(first))
  /\ \A g \in Range(v[level + 1]) \ Range(second) : OneSide(g, Range(first) \cup Range(second))

(* SetupOtherInputs ends by looking at the level below.                    *)
LEMMA GrandparentsFacts ==
  ASSUME NEW v, NEW level \in 0 .. kNumLevels - 2, NEW first, NEW second,
         ChosenFiles(v, level, first, second),
         NEW c, c = WithGrandparents(v, level, first, second)
  PROVE  Chosen(c, v) /\ InputFiles(c) = Range(first) \cup Range(second)
<1>1. /\ c.version = v /\ c.level = level /\ c.inputs[1] = first /\ c.inputs[2] = second
      /\ {"level", "inputs"} \subseteq DOMAIN c
  BY DEF WithGrandparents, Compaction
<1>2. InputFiles(c) = Range(first) \cup Range(second)
  BY <1>1 DEF InputFiles
<1> QED
  BY <1>1, <1>2 DEF Chosen, ChosenFiles

(* The inputs at first, with the boundary files and the next level.        *)
LEMMA InputsChosen ==
  ASSUME NEW F, NEW v, Sequenced(F, v), NEW level \in 0 .. kNumLevels - 2,
         NEW picked, Pickable(v, level, picked),
         NEW first, first = AddBoundaryInputs(v[level], picked),
         NEW second, second = InputsOver(v, level + 1, GetRange(first))
  PROVE  /\ ChosenFiles(v, level, first, second)
         /\ Range(picked) \subseteq Range(first)
         /\ first \in Seq(F) /\ second \in Seq(F)
<1>1. level \in Levels /\ level + 1 \in Levels \ {0} /\ v[level] \in Seq(F) /\ v[level + 1] \in Seq(F)
  BY LevelsAreNumbers DEF Sequenced
<1>2. /\ first \in Seq(Range(v[level])) /\ first # << >> /\ Range(picked) \subseteq Range(first)
      /\ Closed(Range(v[level]), Range(first))
  BY <1>1, FirstInputs
<1>3. first \in Seq(F)
  <2>1. Range(v[level]) \subseteq F
    BY <1>1, RangeFacts
  <2> QED
    BY <1>2, <2>1
<1>4. /\ second \in Seq(Range(v[level + 1]))
      /\ \A g \in Range(v[level + 1]) \ Range(second) : OneSide(g, Range(first) \cup Range(second))
  <2>1. TakenBelow(F, v, level + 1, first, second)
    BY <1>1, <1>2, <1>3, NextInputs
  <2> QED
    BY <2>1 DEF TakenBelow
<1>5. second \in Seq(F)
  <2>1. Range(v[level + 1]) \subseteq F
    BY <1>1, RangeFacts
  <2> QED
    BY <1>4, <2>1
<1> QED
  BY <1>2, <1>3, <1>4, <1>5 DEF ChosenFiles

(* They leave no gap when what was picked has none.                        *)
LEMMA InputsCovered ==
  ASSUME NEW F, NEW v, Sequenced(F, v), NEW level \in 0 .. kNumLevels - 2,
         NEW picked, Pickable(v, level, picked),
         NEW first, first = AddBoundaryInputs(v[level], picked),
         NEW second, second = InputsOver(v, level + 1, GetRange(first))
  PROVE  KeepsCovered(F, Range(picked), Range(first) \cup Range(second))
<1>1. level \in Levels /\ level + 1 \in Levels \ {0}
  BY LevelsAreNumbers
<1>2. first \in Seq(F) /\ first # << >> /\ Range(first) \subseteq F
  <2>1. ChosenFiles(v, level, first, second) /\ first \in Seq(F)
    BY InputsChosen
  <2> QED
    BY <2>1, RangeFacts DEF ChosenFiles
<1>3. KeepsCovered(F, Range(picked), Range(first))
  BY <1>1, FirstInputs
<1>4. TakenBelow(F, v, level + 1, first, second)
  BY <1>1, <1>2, NextInputs
<1> SUFFICES ASSUME NEW S \in SUBSET F, Covered(S \cup Range(picked))
             PROVE  Covered(S \cup (Range(first) \cup Range(second)))
  BY DEF KeepsCovered
<1>5. Covered(S \cup Range(first))
  BY <1>3 DEF KeepsCovered
<1>6. Covered((S \cup Range(first)) \cup Range(second))
  BY <1>2, <1>4, <1>5 DEF TakenBelow
<1>7. (S \cup Range(first)) \cup Range(second) = S \cup (Range(first) \cup Range(second))
  OBVIOUS
<1> QED
  BY <1>6, <1>7

(* A list and what it lists.                                               *)
LEMMA NotEmpty ==
  ASSUME NEW X, NEW s \in Seq(X)
  PROVE  s # << >> <=> Range(s) # {}
<1>1. CASE s = << >>
  BY <1>1 DEF Range
<1>2. CASE s # << >>
  <2>1. 1 \in DOMAIN s
    BY <1>2
  <2> QED
    BY <1>2, <2>1 DEF Range
<1> QED
  BY <1>1, <1>2

(* Two lists, one after the other.                                         *)
LEMMA RangeOfBoth ==
  ASSUME NEW X, NEW a \in Seq(X), NEW b \in Seq(X)
  PROVE  a \o b \in Seq(X) /\ Range(a \o b) = Range(a) \cup Range(b)
<1> DEFINE c == a \o b
<1>1. /\ c \in Seq(X) /\ Len(c) = Len(a) + Len(b)
      /\ \A i \in 1 .. Len(a) : c[i] = a[i]
      /\ \A i \in 1 .. Len(b) : c[Len(a) + i] = b[i]
  OBVIOUS
<1>2. /\ DOMAIN a = 1 .. Len(a) /\ DOMAIN b = 1 .. Len(b) /\ Len(a) \in Nat /\ Len(b) \in Nat
  OBVIOUS
<1> HIDE DEF c
<1>3. DOMAIN c = 1 .. Len(a) + Len(b)
  BY <1>1
<1>4. ASSUME NEW i \in DOMAIN c
      PROVE  c[i] \in Range(a) \cup Range(b)
  <2>1. CASE i <= Len(a)
    <3>1. i \in DOMAIN a /\ c[i] = a[i]
      BY <1>1, <1>2, <1>3, <2>1
    <3> QED
      BY <3>1 DEF Range
  <2>2. CASE ~ (i <= Len(a))
    <3>1. i - Len(a) \in DOMAIN b /\ Len(a) + (i - Len(a)) = i
      BY <1>2, <1>3, <2>2
    <3>2. c[i] = b[i - Len(a)]
      BY <1>1, <1>2, <3>1
    <3> QED
      BY <3>1, <3>2 DEF Range
  <2> QED
    BY <2>1, <2>2
<1>5. ASSUME NEW i \in DOMAIN a
      PROVE  a[i] \in Range(c)
  <2>1. i \in DOMAIN c /\ c[i] = a[i]
    BY <1>1, <1>2, <1>3
  <2> QED
    BY <2>1 DEF Range
<1>6. ASSUME NEW i \in DOMAIN b
      PROVE  b[i] \in Range(c)
  <2>1. Len(a) + i \in DOMAIN c /\ c[Len(a) + i] = b[i]
    BY <1>1, <1>2, <1>3
  <2> QED
    BY <2>1 DEF Range
<1>7. Range(a) \subseteq Range(c) /\ Range(b) \subseteq Range(c)
  BY <1>5, <1>6 DEF Range
<1>8. Range(c) \subseteq Range(a) \cup Range(b)
  BY <1>4 DEF Range
<1> QED
  BY <1>1, <1>7, <1>8 DEF c

(* What the inputs may be expanded to holds them.                          *)
LEMMA ExpandedHolds ==
  ASSUME NEW F, NEW v, Sequenced(F, v), NEW level \in 0 .. kNumLevels - 2,
         NEW picked, Pickable(v, level, picked),
         NEW first, first = AddBoundaryInputs(v[level], picked),
         NEW second, second = InputsOver(v, level + 1, GetRange(first)),
         NEW over, over = InputsOver(v, level, GetRange2(first, second))
  PROVE  /\ Pickable(v, level, over) /\ Range(first) \subseteq Range(over)
         /\ \A S \in SUBSET F : /\ Covered(S) /\ Range(first) \subseteq S /\ Range(second) \subseteq S
                                => Covered(S \cup Range(over))
<1> DEFINE both == first \o second
           r == GetRange(both)
           begin == r.smallest.key
           end == r.largest.key
<1>1. /\ first \in Seq(F) /\ second \in Seq(F) /\ first # << >> /\ first \in Seq(Range(v[level]))
  BY InputsChosen DEF ChosenFiles
<1>2. /\ level \in Levels /\ level \in Nat /\ v[level] \in Seq(F) /\ Ranged(F)
  BY LevelsAreNumbers DEF Sequenced
<1>3. both \in Seq(F) /\ Range(both) = Range(first) \cup Range(second)
  BY <1>1, RangeOfBoth
<1>4. Range(first) # {}
  <2>1. 1 \in DOMAIN first
    BY <1>1
  <2> QED
    BY <2>1 DEF Range
<1>5. over = GetOverlappingInputs(v, level, begin, end)
  BY DEF InputsOver, GetRange2
<1> HIDE DEF both
<1>6. both # << >>
  BY <1>3, <1>4, NotEmpty
<1>7. /\ begin \in Nat /\ end \in Nat /\ Within(begin, end, Range(both))
      /\ \A f \in Range(both) : begin <= f.largest.key /\ f.smallest.key <= end
  BY <1>2, <1>3, <1>6, RangeOfKeys
<1> HIDE DEF r, begin, end
<1>8. Range(first) \subseteq Range(over)
  <2> SUFFICES ASSUME NEW f \in Range(first)
               PROVE  f \in Range(over)
    OBVIOUS
  <2>1. f \in Range(v[level]) /\ begin <= f.largest.key /\ f.smallest.key <= end
    BY <1>1, <1>3, <1>7, RangeFacts
  <2> QED
    BY <1>2, <1>5, <1>7, <2>1, OverlapsTaken
<1>9. over # << >>
  <2>1. over \in Seq(Range(v[level]))
    BY <1>2, <1>5, <1>7, OverlapsPickable
  <2> QED
    BY <1>4, <1>8, <2>1, NotEmpty
<1>10. Pickable(v, level, over)
  BY <1>2, <1>5, <1>7, <1>9, OverlapsPickable
<1>11. ASSUME NEW S \in SUBSET F, Covered(S), Range(first) \subseteq S, Range(second) \subseteq S
       PROVE  Covered(S \cup Range(over))
  <2>1. Within(begin, end, S)
    BY <1>3, <1>7, <1>11 DEF Within
  <2> QED
    BY <1>2, <1>5, <1>7, <1>11, <2>1, OverlapsCovered
<1> QED
  BY <1>8, <1>10, <1>11

(* SetupOtherInputs.                                                       *)
LEMMA SetupChosen ==
  ASSUME NEW F, NEW v, Sequenced(F, v), NEW level \in 0 .. kNumLevels - 2,
         NEW picked, Pickable(v, level, picked),
         NEW c, c = SetupOtherInputs(v, level, picked)
  PROVE  /\ Chosen(c, v) /\ c.level = level
         /\ Covered(Range(picked)) => Covered(InputFiles(c))
<1> DEFINE first == AddBoundaryInputs(v[level], picked)
           second == InputsOver(v, level + 1, GetRange(first))
           over == InputsOver(v, level, GetRange2(first, second))
           more == AddBoundaryInputs(v[level], over)
           again == InputsOver(v, level + 1, GetRange(more))
<1>1. c = WithGrandparents(v, level, first, second) \/ c = WithGrandparents(v, level, more, again)
  BY Zenon DEF SetupOtherInputs, Expanded
<1>2. /\ ChosenFiles(v, level, first, second)
      /\ first \in Seq(F) /\ second \in Seq(F)
  BY InputsChosen
<1>3. /\ Pickable(v, level, over) /\ Range(first) \subseteq Range(over)
      /\ \A S \in SUBSET F : /\ Covered(S) /\ Range(first) \subseteq S /\ Range(second) \subseteq S
                             => Covered(S \cup Range(over))
  BY ExpandedHolds
<1>4. ASSUME Covered(Range(picked))
      PROVE  Covered(Range(first) \cup Range(second))
  <2>1. KeepsCovered(F, Range(picked), Range(first) \cup Range(second))
    BY InputsCovered
  <2>2. Covered({} \cup Range(picked)) /\ {} \in SUBSET F
    BY <1>4
  <2>3. Covered({} \cup (Range(first) \cup Range(second)))
    BY Zenon, <2>1, <2>2 DEF KeepsCovered
  <2>4. {} \cup (Range(first) \cup Range(second)) = Range(first) \cup Range(second)
    OBVIOUS
  <2> QED
    BY Zenon, <2>3, <2>4
<1>9. level + 1 \in Levels \ {0}
  BY LevelsAreNumbers
<1>10. TakenBelow(F, v, level + 1, first, second)
  <2>1. first # << >>
    BY <1>2 DEF ChosenFiles
  <2> HIDE DEF first
  <2> QED
    BY <1>2, <1>9, <2>1, NextInputs
<1> HIDE DEF first, second, over
<1>5. /\ ChosenFiles(v, level, more, again) /\ Range(over) \subseteq Range(more)
      /\ more \in Seq(F) /\ again \in Seq(F)
  BY <1>3, InputsChosen
<1>11. TakenBelow(F, v, level + 1, more, again)
  <2>1. more # << >>
    BY <1>5 DEF ChosenFiles
  <2> HIDE DEF more
  <2> QED
    BY <1>5, <1>9, <2>1, NextInputs
<1>6. Range(first) \subseteq Range(more) /\ Range(second) \subseteq Range(again)
  <2>1. Range(first) \subseteq Range(more)
    BY <1>3, <1>5
  <2>2. Range(second) \subseteq Range(v[level + 1])
    BY <1>2, RangeFacts DEF ChosenFiles
  <2>3. Range(second) \subseteq Range(again)
    BY <1>10, <1>11, <2>1, <2>2 DEF TakenBelow
  <2> QED
    BY <2>1, <2>3
<1>7. ASSUME Covered(Range(picked))
      PROVE  Covered(Range(more) \cup Range(again))
  <2> DEFINE U == Range(first) \cup Range(second)
  <2>1. U \in SUBSET F
    BY <1>2, RangeFacts
  <2>2. Covered(U \cup Range(over))
    BY <1>3, <1>4, <1>7, <2>1
  <2> HIDE DEF U
  <2>3. KeepsCovered(F, Range(over), Range(more) \cup Range(again))
    BY <1>3, InputsCovered
  <2>4. Covered(U \cup (Range(more) \cup Range(again)))
    BY <2>1, <2>2, <2>3 DEF KeepsCovered
  <2>5. U \cup (Range(more) \cup Range(again)) = Range(more) \cup Range(again)
    BY <1>6 DEF U
  <2> QED
    BY <2>4, <2>5
<1> HIDE DEF more, again
<1>8. c.level = level
  BY <1>1 DEF WithGrandparents, Compaction
<1>12. CASE c = WithGrandparents(v, level, first, second)
  <2>1. Chosen(c, v) /\ InputFiles(c) = Range(first) \cup Range(second)
    BY <1>2, <1>12, GrandparentsFacts
  <2> QED
    BY <1>4, <1>8, <2>1
<1>13. CASE c = WithGrandparents(v, level, more, again)
  <2>1. Chosen(c, v) /\ InputFiles(c) = Range(more) \cup Range(again)
    BY <1>5, <1>13, GrandparentsFacts
  <2> QED
    BY <1>7, <1>8, <2>1
<1> QED
  BY <1>1, <1>12, <1>13

-----------------------------------------------------------------------------
(* Lemmas: what a compaction is chosen to take.                            *)

(* A file by itself, or with those of level 0 that share keys with it.     *)
LEMMA OneFileChosen ==
  ASSUME NEW F, NEW v, Sequenced(F, v), NEW level \in 0 .. kNumLevels - 2,
         NEW file \in Range(v[level]),
         NEW picked, picked = IF level = 0 THEN InputsOver(v, 0, GetRange(<<file>>)) ELSE <<file>>
  PROVE  Pickable(v, level, picked) /\ Covered(Range(picked))
<1>1. /\ level \in Levels /\ level \in Nat /\ v[level] \in Seq(F) /\ Ranged(F)
      /\ (level # 0 => InSequence(v[level]))
  BY LevelsAreNumbers DEF Sequenced
<1>2. file \in F /\ <<file>> \in Seq(F) /\ <<file>> # << >> /\ Range(<<file>>) = {file}
  <2>1. file \in F
    BY <1>1, RangeFacts
  <2>2. Range(<<file>>) = {file}
    BY DEF Range
  <2> QED
    BY <2>1, <2>2
<1>3. file.smallest.key \in Nat /\ file.largest.key \in Nat /\ file.smallest.key <= file.largest.key
  BY <1>1, <1>2, RangedKeys
<1>4. Covered({file})
  BY DEF Covered, Holds
<1>5. CASE level = 0
  <2> DEFINE r == GetRange(<<file>>)
             begin == r.smallest.key
             end == r.largest.key
  <2>1. /\ begin \in Nat /\ end \in Nat /\ Within(begin, end, {file})
        /\ begin <= file.largest.key /\ file.smallest.key <= end
    BY <1>1, <1>2, RangeOfKeys
  <2>2. picked = GetOverlappingInputs(v, level, begin, end)
    BY <1>5 DEF InputsOver
  <2> HIDE DEF begin, end, r
  <2>3. file \in Range(picked)
    BY <1>1, <2>1, <2>2, OverlapsTaken
  <2>4. picked \in Seq(Range(v[level])) /\ picked # << >>
    <3>1. picked \in Seq(Range(v[level]))
      BY <1>1, <2>1, <2>2, OverlapsPickable
    <3> QED
      BY <2>3, <3>1, NotEmpty
  <2>5. Pickable(v, level, picked)
    BY <1>1, <2>1, <2>2, <2>4, OverlapsPickable
  <2>6. Covered({file} \cup Range(picked))
    <3>1. {file} \in SUBSET F
      BY <1>2
    <3> QED
      BY <1>1, <1>4, <2>1, <2>2, <3>1, OverlapsCovered
  <2>7. {file} \cup Range(picked) = Range(picked)
    BY <2>3
  <2> QED
    BY <2>5, <2>6, <2>7
<1>6. CASE level # 0
  <2>1. picked = <<file>>
    BY <1>6
  <2>2. Bounded(Range(v[level]), {file})
    <3>1. Disjoint(Range(v[level]))
      BY <1>1, <1>6, SequenceIsDisjoint
    <3> QED
      BY <3>1 DEF Disjoint, Apart, Bounded
  <2> QED
    BY <1>2, <1>4, <1>6, <2>1, <2>2 DEF Pickable
<1> QED
  BY <1>5, <1>6

(* What a compaction by size or by seeks takes leaves no gap.              *)
LEMMA PickChosen ==
  ASSUME NEW F, NEW version, Sequenced(F, version), NEW pointer, NEW charged,
         \A c \in charged : c.level \in 0 .. kNumLevels - 2 /\ c.file \in Range(version[c.level]),
         NEW made \in PickCompaction(version, pointer, charged)
  PROVE  Chosen(made, version) /\ Covered(InputFiles(made))
<1> DEFINE picked(level, file) ==
             IF level = 0 THEN InputsOver(version, 0, GetRange(<<file>>)) ELSE <<file>>
           setup(level, file) == SetupOtherInputs(version, level, picked(level, file))
           after(level) == {i \in DOMAIN version[level] :
                              \A p \in pointer[level] : Less(p, version[level][i].largest)}
           next(level) == version[level][IF after(level) = {} THEN 1 ELSE LeastOf(after(level))]
<1>0. version \in [Levels -> Seq(F)]
  BY DEF Sequenced
<1>1. ASSUME NEW level \in 0 .. kNumLevels - 2, NEW file \in Range(version[level])
      PROVE  Chosen(setup(level, file), version) /\ Covered(InputFiles(setup(level, file)))
  <2>1. Pickable(version, level, picked(level, file)) /\ Covered(Range(picked(level, file)))
    BY OneFileChosen
  <2> HIDE DEF picked
  <2> QED
    BY <2>1, SetupChosen
<1>2. CASE SizeIsDue(version)
  <2>1. PICK level \in Finalize(version) : made = setup(level, next(level))
    BY <1>2 DEF PickCompaction
  <2>2. level \in 0 .. kNumLevels - 2 /\ version[level] # << >>
    BY <1>0, <1>2, DueFacts
  <2>3. version[level] \in Seq(F)
    BY <1>0, <2>2, CompactionAssumption DEF Levels
  <2>4. DOMAIN version[level] = 1 .. Len(version[level]) /\ 1 \in DOMAIN version[level]
    BY <2>2, <2>3
  <2>5. after(level) \in SUBSET Nat
    BY <2>4
  <2>6. after(level) # {} => LeastOf(after(level)) \in DOMAIN version[level]
    BY <2>5, LeastFacts
  <2>7. next(level) \in Range(version[level])
    BY <2>4, <2>6 DEF Range
  <2> HIDE DEF next, setup
  <2> QED
    BY <1>1, <2>1, <2>2, <2>7
<1>3. CASE ~ SizeIsDue(version)
  <2>1. PICK c \in charged : made = setup(c.level, c.file)
    BY <1>3 DEF PickCompaction
  <2> HIDE DEF setup
  <2> QED
    BY <1>1, <2>1
<1> QED
  BY <1>2, <1>3

(* The first of the files that a range meets at a level in sequence.       *)
LEMMA FirstOnesBounded ==
  ASSUME NEW F, Ranged(F), NEW files \in Seq(F), InSequence(files), NEW begin, NEW end,
         NEW inputs, inputs = Overlapping(files, begin, end),
         Bounded(Range(files), Range(inputs)),
         NEW k \in 1 .. Len(inputs)
  PROVE  Bounded(Range(files), Range(SubSeq(inputs, 1, k)))
<1> DEFINE part == SubSeq(inputs, 1, k)
           R == Range(files)
<1>1. inputs \in Seq(R) /\ R \subseteq F
  BY OverlappingFacts, RangeFacts
<1>2. \A n, m \in 1 .. Len(inputs) : n < m => Less(inputs[n].largest, inputs[m].smallest)
  <2> TAKE n, m \in 1 .. Len(inputs)
  <2> HAVE n < m
  <2>1. \E i, j \in DOMAIN files : i < j /\ inputs[n] = files[i] /\ inputs[m] = files[j]
    BY OverlappingFacts
  <2> QED
    BY <2>1 DEF InSequence
<1>3. /\ part \in Seq(R) /\ Len(part) = k /\ Len(inputs) \in Nat /\ DOMAIN inputs = 1 .. Len(inputs)
      /\ \A n \in 1 .. k : part[n] = inputs[n]
  <2> HIDE DEF R
  <2> QED
    BY <1>1
<1> HIDE DEF part, R
<1>4. \A f \in Range(part) : \E n \in 1 .. k : f = inputs[n] /\ n \in 1 .. Len(inputs)
  BY <1>3 DEF Range
<1>5. Range(part) \subseteq Range(inputs)
  BY <1>3, <1>4 DEF Range
<1> SUFFICES ASSUME NEW g \in R \ Range(part)
             PROVE  \/ \A f \in Range(part) : Less(g.largest, f.smallest)
                    \/ \A f \in Range(part) : Less(f.largest, g.smallest)
  BY DEF Bounded, part, R
<1>6. CASE g \notin Range(inputs)
  BY <1>5, <1>6 DEF Bounded, R
<1>7. CASE g \in Range(inputs)
  <2>1. PICK m \in 1 .. Len(inputs) : g = inputs[m]
    BY <1>3, <1>7 DEF Range
  <2>2. ~ (m <= k)
    <3>1. ASSUME m <= k
          PROVE  FALSE
      <4>1. m \in DOMAIN part /\ part[m] = g
        BY <1>3, <2>1, <3>1
      <4> QED
        BY <4>1 DEF Range
    <3> QED
      BY <3>1
  <2>3. ASSUME NEW f \in Range(part)
        PROVE  Less(f.largest, g.smallest)
    <3>1. PICK n \in 1 .. k : f = inputs[n] /\ n \in 1 .. Len(inputs)
      BY <1>4
    <3>2. n < m
      BY <1>3, <2>2
    <3> QED
      BY <1>2, <2>1, <3>1, <3>2
  <2> QED
    BY <2>3
<1> QED
  BY <1>6, <1>7

(* What a range that was asked for takes.                                  *)
LEMMA CompactRangeChosen ==
  ASSUME NEW F, NEW version, Sequenced(F, version), NEW level \in 0 .. kNumLevels - 2,
         NEW begin \in Nat, NEW end \in Nat, NEW made \in CompactRange(version, level, begin, end)
  PROVE  Chosen(made, version)
<1> DEFINE inputs == GetOverlappingInputs(version, level, begin, end)
           full == {i \in DOMAIN inputs :
                      TotalFileSize(SubSeq(inputs, 1, i)) >= TargetFileSize}
           cutoff == IF level > 0 /\ full # {} THEN SubSeq(inputs, 1, LeastOf(full)) ELSE inputs
<1>1. made = SetupOtherInputs(version, level, cutoff) /\ inputs # << >>
  BY DEF CompactRange
<1>2. /\ version[level] \in Seq(F) /\ level \in Levels /\ level \in Nat /\ Ranged(F)
      /\ (level # 0 => InSequence(version[level]))
  BY LevelsAreNumbers DEF Sequenced
<1>3. inputs \in Seq(Range(version[level])) /\ Pickable(version, level, inputs)
  BY <1>1, <1>2, OverlapsPickable
<1>9. ASSUME level # 0
      PROVE  inputs = Overlapping(version[level], begin, end)
  BY <1>2, <1>9, OverlapsBelow
<1> HIDE DEF inputs
<1>4. full # {} => LeastOf(full) \in 1 .. Len(inputs)
  <2>1. full \in SUBSET Nat /\ full \subseteq 1 .. Len(inputs)
    BY <1>3
  <2> HIDE DEF full
  <2> QED
    BY <2>1, LeastFacts
<1> HIDE DEF full
<1>5. Pickable(version, level, cutoff)
  <2>1. CASE level > 0 /\ full # {}
    <3> DEFINE k == LeastOf(full)
               part == SubSeq(inputs, 1, k)
               Y == Range(version[level])
    <3>1. k \in 1 .. Len(inputs) /\ cutoff = part
      BY <1>4, <2>1
    <3> HIDE DEF k, Y
    <3>2. part \in Seq(Y) /\ part # << >>
      <4>1. inputs \in Seq(Y)
        BY <1>3 DEF Y
      <4>2. \A j \in 1 .. Len(inputs) : SubSeq(inputs, 1, j) \in Seq(Y) /\ Len(SubSeq(inputs, 1, j)) = j
        BY <4>1
      <4>3. part \in Seq(Y) /\ Len(part) = k
        BY <3>1, <4>2
      <4> HIDE DEF part
      <4>4. part # << >>
        BY <3>1, <4>3
      <4> QED
        BY <4>3, <4>4
    <3>3. Bounded(Y, Range(inputs))
      BY <1>3, <2>1 DEF Pickable, Y
    <3>4. Bounded(Y, Range(part))
      BY <1>2, <1>9, <2>1, <3>1, <3>3, FirstOnesBounded DEF Y
    <3> HIDE DEF part
    <3>5. level # 0
      BY <1>2, <2>1
    <3>6. Pickable(version, level, part)
      BY <3>2, <3>4, <3>5 DEF Pickable, Y
    <3> QED
      BY <3>1, <3>6
  <2>2. CASE ~ (level > 0 /\ full # {})
    BY <1>3, <2>2
  <2> QED
    BY <2>1, <2>2
<1> HIDE DEF cutoff
<1> QED
  BY <1>1, <1>5, SetupChosen

(* The level a flush picks: unless it is level 0, the range meets no file  *)
(* of the level, nor of those above it.                                    *)
LEMMA PickedLevelHasRoom ==
  ASSUME NEW F, NEW v, Sequenced(F, v), SeqsBounded(F),
         NEW begin \in Nat, NEW end \in Nat,
         NEW level, level = PickLevelForMemTableOutput(v, begin, end)
  PROVE  /\ level \in Levels
         /\ level # 0 => \A l \in 0 .. level : \A f \in Range(v[l]) :
                           f.largest.key < begin \/ end < f.smallest.key
<1> DEFINE stops(l) ==
             \/ l = kMaxMemCompactLevel
             \/ OverlapInLevel(v, l + 1, begin, end)
             \/ /\ l + 2 < kNumLevels
                /\ TotalFileSize(GetOverlappingInputs(v, l + 2, begin, end))
                     > MaxGrandParentOverlapBytes
           choice == CHOOSE l \in 0 .. kMaxMemCompactLevel :
                       stops(l) /\ \A m \in 0 .. l - 1 : ~ stops(m)
           M == kMaxMemCompactLevel
<1>1. M \in Nat /\ kNumLevels \in Nat /\ M < kNumLevels /\ 0 \in Levels /\ kMaxSequenceNumber \in Nat
  BY CompactionAssumption DEF Levels
<1>2. level = IF OverlapInLevel(v, 0, begin, end) THEN 0 ELSE choice
  BY Zenon DEF PickLevelForMemTableOutput
<1>3. CASE OverlapInLevel(v, 0, begin, end)
  BY <1>1, <1>2, <1>3
<1>4. CASE ~ OverlapInLevel(v, 0, begin, end)
  <2> DEFINE S == {l \in 0 .. M : stops(l)}
             m == LeastOf(S)
  <2>1. S \in SUBSET Nat /\ S # {}
    <3>1. M \in S
      BY <1>1
    <3> QED
      BY <1>1, <3>1
  <2>2. m \in S /\ \A l \in S : m <= l
    BY <2>1, LeastFacts
  <2>3. \A l \in S : stops(l) /\ l \in 0 .. M
    OBVIOUS
  <2>4. \A l \in 0 .. M : stops(l) => l \in S
    OBVIOUS
  <2> HIDE DEF S, m, stops
  <2>5. \E l \in 0 .. M : stops(l) /\ \A x \in 0 .. l - 1 : ~ stops(x)
    <3>1. m \in 0 .. M /\ stops(m)
      BY <2>2, <2>3
    <3>2. ASSUME NEW x \in 0 .. m - 1, stops(x)
          PROVE  FALSE
      <4>1. x \in 0 .. M /\ ~ (m <= x)
        BY <1>1, <3>1
      <4> QED
        BY <2>2, <2>4, <3>2, <4>1
    <3> QED
      BY <3>1, <3>2
  <2>6. choice \in 0 .. M /\ \A x \in 0 .. choice - 1 : ~ stops(x)
    BY <2>5
  <2> HIDE DEF choice
  <2>7. ASSUME NEW l \in 0 .. choice
        PROVE  ~ OverlapInLevel(v, l, begin, end)
    <3>1. CASE l = 0
      BY <1>4, <3>1
    <3>2. CASE l # 0
      <4>1. l - 1 \in 0 .. choice - 1 /\ (l - 1) + 1 = l
        BY <2>6, <3>2
      <4>2. ~ OverlapInLevel(v, (l - 1) + 1, begin, end)
        BY <2>6, <4>1 DEF stops
      <4> QED
        BY <4>1, <4>2
    <3> QED
      BY <3>1, <3>2
  <2>8. ASSUME NEW l \in 0 .. choice, NEW f \in Range(v[l])
        PROVE  f.largest.key < begin \/ end < f.smallest.key
    <3>1. l \in Levels /\ l \in Nat /\ v[l] \in Seq(F) /\ (l > 0 => InSequence(v[l])) /\ Ranged(F)
      <4>1. l \in Levels /\ l \in Nat
        BY <1>1, <2>6 DEF Levels
      <4> QED
        BY <4>1 DEF Sequenced
    <3>2. ~ OverlapInLevel(v, l, begin, end)
      BY <1>1, <2>7
    <3> HIDE DEF choice
    <3>3. \A h \in Range(v[l]) : h.largest.key < begin \/ end < h.smallest.key
      BY <3>1, <3>2, NoOverlapFacts
    <3> QED
      BY <3>3
  <2>9. choice \in Levels /\ level = choice
    BY <1>1, <1>2, <1>4, <2>6 DEF Levels
  <2> QED
    BY <2>8, <2>9
<1> QED
  BY <1>3, <1>4

-----------------------------------------------------------------------------
(* Versions are ordered: the inductive invariant.                          *)

Stored == (UNION {tables[n] : n \in DOMAIN tables}) \cup (UNION {w.input : w \in work})
Aside == UNION imm

(* The bound on events keeps sequence numbers below the highest; and the   *)
(* entries of the memtable are newer than those put aside, which are newer *)
(* than those of tables.                                                   *)
AgesInv ==
  /\ events \in 0 .. MaxEvents /\ last_sequence + MaxEvents < kMaxSequenceNumber + events
  /\ \A e \in mem \cup Aside \cup Stored : e.seq <= last_sequence
  /\ \A e, f \in mem \cup Aside \cup Stored : e.key = f.key /\ e.seq = f.seq => e = f
  /\ \A e \in mem, f \in Aside \cup Stored : f.seq < e.seq
  /\ \A e \in Aside, f \in Stored : f.seq < e.seq

(* A flush puts its file where the version it began with has room: that is *)
(* still the current one, all of whose files have lower numbers.           *)
FlushBase ==
  \A fl \in flush :
    /\ "base" \in DOMAIN fl /\ fl.base = current
    /\ \A n \in NumbersIn(current) : n < fl.number

VersionOrder(v, T) ==
  /\ \A level \in Levels \ {0} : Disjoint(Range(v[level]))
  /\ AgesInOrder(v, T)

(* The inputs of a compaction are files of the version, and those left out *)
(* of its level are newer.                                                 *)
InputsRight(c, v, T) ==
  /\ {"level", "inputs"} \subseteq DOMAIN c
  /\ c.level \in 0 .. kNumLevels - 2
  /\ c.inputs[1] \in Seq(Range(v[c.level])) /\ c.inputs[1] # << >>
  /\ c.inputs[2] \in Seq(Range(v[c.level + 1]))
  /\ \A g \in Range(v[c.level]) \ Range(c.inputs[1]), f \in Range(c.inputs[1]) :
       Newer(T[g.number], T[f.number])

(* They leave no gap, and the files left out of the next level lie to one  *)
(* side of all of them.                                                    *)
InputsApart(c, v) ==
  /\ Covered(InputFiles(c))
  /\ \A g \in Range(v[c.level + 1]) \ Range(c.inputs[2]) : OneSide(g, InputFiles(c))

(* The outputs so far are made of the input, in order, and before what is  *)
(* left of it.                                                             *)
OutputsRight(w, T) ==
  LET all == UNION {T[f.number] : f \in InputFiles(w.c)} IN
  /\ w.input \subseteq all
  /\ \A n \in Range(w.outputs) : T[n] \subseteq all
  /\ \A i, j \in DOMAIN w.outputs : i < j =>
       \A e \in T[w.outputs[i]], f \in T[w.outputs[j]] : Less(e, f)
  /\ \A n \in Range(w.outputs) : \A e \in T[n], f \in w.input : Less(e, f)

WorkRight(w, v, T) ==
  /\ InputsRight(w.c, v, T)
  /\ ~ w.is_manual => InputsApart(w.c, v)
  /\ OutputsRight(w, T)

(* The keys of a range that a caller asked for.                            *)
CallerRange ==
  /\ {"begin", "end", "from"} \subseteq DOMAIN caller
  /\ caller.begin \in Nat /\ caller.end \in Nat
  /\ ~ crossed => caller.from \in Nat

OrderInv ==
  /\ AgesInv
  /\ FlushBase
  /\ CallerRange
  /\ ~ crossed => /\ VersionOrder(current, tables)
                  /\ \A w \in work : "is_manual" \in DOMAIN w /\ WorkRight(w, current, tables)

-----------------------------------------------------------------------------
(* Lemmas: what keeps the order.                                           *)

(* Everything held anywhere is an entry.                                   *)
LEMMA EntriesTyped ==
  ASSUME LiveInv
  PROVE  mem \cup Aside \cup Stored \subseteq Entry
<1>1. mem \subseteq Entry /\ \A m \in imm : m \subseteq Entry
  BY DEF LiveInv, MemInv, Memtable
<1>2. \A n \in DOMAIN tables : tables[n] \subseteq Entry
  BY DEF LiveInv, VersionsInv, TablesRight, Memtable
<1>3. \A w \in work : w.input \subseteq Entry
  BY DEF LiveInv, OutputsInv, Memtable
<1>4. Aside \subseteq Entry
  BY <1>1 DEF Aside
<1>5. Stored \subseteq Entry
  <2>1. UNION {tables[n] : n \in DOMAIN tables} \subseteq Entry
    BY <1>2
  <2>2. UNION {w.input : w \in work} \subseteq Entry
    BY <1>3
  <2> QED
    BY <2>1, <2>2 DEF Stored
<1> QED
  BY <1>1, <1>4, <1>5

(* Steps and the bound.                                                    *)
AgesBound == events \in 0 .. MaxEvents /\ last_sequence + MaxEvents < kMaxSequenceNumber + events

(* A step uses up at most one sequence number for an event.                *)
LEMMA BoundKept ==
  ASSUME AgesInv, last_sequence \in Nat,
         \/ UNCHANGED <<events, last_sequence>>
         \/ Event /\ last_sequence' \in {last_sequence, last_sequence + 1}
  PROVE  AgesBound' /\ last_sequence' \in Nat /\ last_sequence <= last_sequence'
<1>1. MaxEvents \in Nat /\ kMaxSequenceNumber \in Nat
  BY CompactionAssumption
<1>2. events \in 0 .. MaxEvents /\ last_sequence + MaxEvents < kMaxSequenceNumber + events
  BY DEF AgesInv
<1>3. CASE UNCHANGED <<events, last_sequence>>
  BY <1>1, <1>2, <1>3 DEF AgesBound
<1>4. CASE Event /\ last_sequence' \in {last_sequence, last_sequence + 1}
  <2>1. events < MaxEvents /\ events' = events + 1
    BY <1>4 DEF Event
  <2>2. events' \in 0 .. MaxEvents /\ last_sequence' \in Nat /\ last_sequence <= last_sequence'
    BY <1>1, <1>2, <1>4, <2>1
  <2>3. last_sequence' + MaxEvents < kMaxSequenceNumber + events'
    <3>1. \A a, b, m, k \in Nat : a + m < k + b => a + m < k + (b + 1) /\ (a + 1) + m < k + (b + 1)
      OBVIOUS
    <3>2. events \in Nat
      BY <1>1, <1>2
    <3> QED
      BY <1>1, <1>2, <1>4, <2>1, <3>1, <3>2
  <2> QED
    BY <2>2, <2>3 DEF AgesBound
<1> QED
  BY <1>3, <1>4

(* Entries go from the memtable that was put aside to tables.              *)
LEMMA AgesShrink ==
  ASSUME LiveInv, AgesInv, AgesBound', last_sequence' \in Nat, last_sequence <= last_sequence',
         mem' \subseteq mem, Aside' \subseteq Aside, Stored' \subseteq Stored \cup Aside,
         Aside' = {} \/ Stored' \subseteq Stored
  PROVE  AgesInv'
<1> DEFINE A == mem \cup Aside \cup Stored
           A2 == mem' \cup Aside' \cup Stored'
<1>1. A2 \subseteq A /\ A \subseteq Entry /\ last_sequence \in Nat
  <2>1. A \subseteq Entry
    BY EntriesTyped
  <2> QED
    BY <2>1 DEF LiveInv, MemInv
<1>2. /\ \A e \in A : e.seq <= last_sequence
      /\ \A e, f \in A : e.key = f.key /\ e.seq = f.seq => e = f
      /\ \A e \in mem, f \in Aside \cup Stored : f.seq < e.seq
      /\ \A e \in Aside, f \in Stored : f.seq < e.seq
  BY DEF AgesInv
<1>3. \A e \in mem', f \in Aside' \cup Stored' : f.seq < e.seq
  BY <1>2
<1>4. \A e \in Aside', f \in Stored' : f.seq < e.seq
  BY <1>2
<1>5. \A e \in A2 : e.seq <= last_sequence'
  <2> TAKE e \in A2
  <2>1. e \in A /\ e.seq \in Nat
    BY <1>1 DEF Entry
  <2> QED
    BY <1>1, <1>2, <2>1, AtMostFacts
<1>6. \A e, f \in A2 : e.key = f.key /\ e.seq = f.seq => e = f
  BY <1>1, <1>2
<1> QED
  BY <1>3, <1>4, <1>5, <1>6 DEF AgesInv, AgesBound

(* Files of a version, and their tables.                                   *)
LEMMA FilesAt ==
  ASSUME NEW v, NEW level \in Levels, NEW f \in Range(v[level])
  PROVE  f \in FilesOf(v) /\ f.number \in NumbersIn(v)
BY DEF FilesOf, NumbersIn

(* The order of a version is one of its own tables.                        *)
LEMMA EntriesStay ==
  ASSUME NEW v, NEW T, NEW T2, \A n \in NumbersIn(v) : T2[n] = T[n], NEW level \in Levels
  PROVE  EntriesAt(v, T2, level) = EntriesAt(v, T, level)
<1>1. \A f \in Range(v[level]) : T2[f.number] = T[f.number]
  BY FilesAt
<1> QED
  BY <1>1 DEF EntriesAt

(* So is all of its order.                                                 *)
LEMMA OrderStays ==
  ASSUME NEW v, NEW T, NEW T2, \A n \in NumbersIn(v) : T2[n] = T[n], VersionOrder(v, T)
  PROVE  VersionOrder(v, T2)
<1>1. AgesInOrder(v, T)
  BY DEF VersionOrder
<1>2. \A a \in Levels : \A b \in a + 1 .. kNumLevels - 1 :
        Newer(EntriesAt(v, T2, a), EntriesAt(v, T2, b))
  <2> TAKE a \in Levels
  <2> TAKE b \in a + 1 .. kNumLevels - 1
  <2>1. b \in Levels
    BY CompactionAssumption DEF Levels
  <2>2. EntriesAt(v, T2, a) = EntriesAt(v, T, a) /\ EntriesAt(v, T2, b) = EntriesAt(v, T, b)
    BY <2>1, EntriesStay
  <2> QED
    BY <1>1, <2>2 DEF AgesInOrder
<1>3. 0 \in Levels
  BY CompactionAssumption DEF Levels
<1>4. \A f \in Range(v[0]) : T2[f.number] = T[f.number]
  BY <1>3, FilesAt
<1>5. AgesInOrder(v, T2)
  BY <1>1, <1>2, <1>4 DEF AgesInOrder
<1> QED
  BY <1>5 DEF VersionOrder

(* The inputs of a compaction are files of the version.                    *)
LEMMA InputsAreFiles ==
  ASSUME NEW c, NEW v, NEW T, InputsRight(c, v, T)
  PROVE  /\ c.level \in Levels /\ c.level + 1 \in Levels
         /\ Range(c.inputs[1]) \subseteq Range(v[c.level])
         /\ Range(c.inputs[2]) \subseteq Range(v[c.level + 1])
         /\ \A f \in InputFiles(c) : f \in FilesOf(v) /\ f.number \in NumbersIn(v)
<1>1. c.level \in Levels /\ c.level + 1 \in Levels
  BY LevelsAreNumbers DEF InputsRight
<1>2. /\ Range(c.inputs[1]) \subseteq Range(v[c.level])
      /\ Range(c.inputs[2]) \subseteq Range(v[c.level + 1])
  BY RangeFacts DEF InputsRight
<1> QED
  BY <1>1, <1>2, FilesAt DEF InputFiles

(* A compaction under way only counts on its own tables.                   *)
LEMMA WorkStays ==
  ASSUME NEW w, NEW v, NEW T, NEW T2, WorkRight(w, v, T),
         \A n \in NumbersIn(v) \cup Range(w.outputs) : T2[n] = T[n]
  PROVE  WorkRight(w, v, T2)
<1> DEFINE c == w.c
<1>1. InputsRight(c, v, T) /\ OutputsRight(w, T)
  BY DEF WorkRight
<1>2. /\ c.level \in Levels /\ Range(c.inputs[1]) \subseteq Range(v[c.level])
      /\ \A f \in InputFiles(c) : f.number \in NumbersIn(v)
  BY <1>1, InputsAreFiles
<1>3. \A g \in Range(v[c.level]) : T2[g.number] = T[g.number]
  BY <1>2, FilesAt
<1>4. InputsRight(c, v, T2)
  BY <1>1, <1>2, <1>3 DEF InputsRight
<1>5. UNION {T2[f.number] : f \in InputFiles(c)} = UNION {T[f.number] : f \in InputFiles(c)}
  BY <1>2
<1>6. \A n \in Range(w.outputs) : T2[n] = T[n]
  OBVIOUS
<1>7. \A i \in DOMAIN w.outputs : T2[w.outputs[i]] = T[w.outputs[i]]
  BY <1>6 DEF Range
<1>8. OutputsRight(w, T2)
  BY <1>1, <1>5, <1>6, <1>7 DEF OutputsRight
<1> QED
  BY <1>4, <1>8 DEF WorkRight

-----------------------------------------------------------------------------
(* The steps keep the order.                                               *)

(* Steps that leave files, versions and background work as they are.       *)
LEMMA SameVersions ==
  ASSUME OrderInv, UNCHANGED <<tables, current, flush, work, crossed>>, AgesInv', CallerRange'
  PROVE  OrderInv'
<1>1. FlushBase'
  BY DEF OrderInv, FlushBase, NumbersIn, FilesOf
<1> QED
  BY <1>1 DEF OrderInv

(* Steps that leave the entries as they are too.                           *)
LEMMA QuietStep ==
  ASSUME LiveInv, OrderInv, UNCHANGED <<mem, imm, tables, current, flush, work, crossed>>,
         \/ UNCHANGED <<events, last_sequence>>
         \/ Event /\ last_sequence' \in {last_sequence, last_sequence + 1},
         CallerRange'
  PROVE  OrderInv'
<1>1. AgesInv /\ last_sequence \in Nat
  BY DEF OrderInv, LiveInv, MemInv
<1>2. AgesBound' /\ last_sequence' \in Nat /\ last_sequence <= last_sequence'
  BY <1>1, BoundKept
<1>3. mem' = mem /\ Aside' = Aside /\ Stored' = Stored
  BY DEF Aside, Stored
<1>4. AgesInv'
  BY <1>1, <1>2, <1>3, AgesShrink
<1> QED
  BY <1>4, SameVersions

(* Steps that leave the call alone.                                        *)
LEMMA SameCaller ==
  ASSUME CallerRange, UNCHANGED <<caller, crossed>>
  PROVE  CallerRange'
BY DEF CallerRange

(* The memtable is put aside when nothing else is.                         *)
LEMMA SwitchKeepsOrder ==
  ASSUME LiveInv, OrderInv, SwitchMemTable, CallerRange'
  PROVE  OrderInv'
<1>1. /\ imm = {} /\ imm' = {mem} /\ mem' = {} /\ UNCHANGED <<last_sequence, events>>
      /\ UNCHANGED <<tables, current, flush, work, crossed>>
  BY DEF SwitchMemTable, fileVars, versionVars, bgVars
<1>2. Aside = {} /\ Aside' = mem /\ Stored' = Stored
  BY <1>1 DEF Aside, Stored
<1>3. AgesInv
  BY DEF OrderInv
<1>4. AgesInv'
  BY <1>1, <1>2, <1>3 DEF AgesInv
<1> QED
  BY <1>1, <1>4, SameVersions

(* A write takes the next sequence number.                                 *)
LEMMA WriteKeepsOrder ==
  ASSUME LiveInv, OrderInv, NEW k \in Keys, NEW type \in {kTypeDeletion, kTypeValue}, Write(k, type)
  PROVE  OrderInv'
<1> DEFINE e == InternalKey(k, last_sequence + 1, type)
           A == mem \cup Aside \cup Stored
<1>1. /\ Event /\ last_sequence' = last_sequence + 1 /\ mem' = mem \cup {e}
      /\ UNCHANGED <<imm, tables, current, flush, work, crossed, caller>>
  BY DEF Write, fileVars, versionVars, bgVars, callVars
<1>2. AgesInv /\ last_sequence \in Nat /\ CallerRange /\ A \subseteq Entry
  BY EntriesTyped DEF OrderInv, LiveInv, MemInv
<1>3. AgesBound' /\ last_sequence' \in Nat /\ last_sequence <= last_sequence'
  BY <1>1, <1>2, BoundKept
<1>4. Aside' = Aside /\ Stored' = Stored
  BY <1>1 DEF Aside, Stored
<1>5. e.seq = last_sequence'
  BY <1>1 DEF InternalKey
<1> HIDE DEF e
<1>6. \A x \in A : x.seq <= last_sequence /\ x.seq \in Nat
  BY <1>2 DEF AgesInv, Entry
<1>7. \A x \in A : x.seq < e.seq /\ x.seq <= last_sequence'
  BY <1>1, <1>2, <1>5, <1>6
<1>8. \A x \in A : x.seq # e.seq
  BY <1>3, <1>5, <1>6, <1>7
<1>9. \A x, y \in A \cup {e} : x.key = y.key /\ x.seq = y.seq => x = y
  BY <1>2, <1>8 DEF AgesInv
<1>10. \A x \in A \cup {e} : x.seq <= last_sequence'
  BY <1>3, <1>5, <1>7
<1>11. mem' \cup Aside' \cup Stored' = A \cup {e}
  BY <1>1, <1>4
<1>12. \A x \in mem', y \in Aside' \cup Stored' : y.seq < x.seq
  BY <1>1, <1>2, <1>4, <1>7 DEF AgesInv
<1>13. \A x \in Aside', y \in Stored' : y.seq < x.seq
  BY <1>2, <1>4 DEF AgesInv
<1>14. AgesInv'
  BY <1>3, <1>9, <1>10, <1>11, <1>12, <1>13 DEF AgesInv, AgesBound
<1>15. CallerRange'
  BY <1>1, <1>2, SameCaller
<1> QED
  BY <1>1, <1>14, <1>15, SameVersions

(* Calls of the interface.                                                 *)
LEMMA ClientKeepsOrder ==
  ASSUME LiveInv, OrderInv, Client
  PROVE  OrderInv'
<1> USE DEF memVars, clientVars, fileVars, versionVars, bgVars, callVars
<1>0. CallerRange
  BY DEF OrderInv
<1>1. ASSUME NEW k \in Keys, NEW type \in {kTypeDeletion, kTypeValue}, Write(k, type)
      PROVE  OrderInv'
  BY <1>1, WriteKeepsOrder
<1>2. CASE WriteFails
  <2>1. CallerRange'
    BY <1>0, <1>2, SameCaller DEF WriteFails
  <2> QED
    BY <1>2, <2>1, QuietStep DEF WriteFails, Fail
<1>3. CASE MakeRoomForWrite
  <2>1. CallerRange'
    BY <1>0, <1>3, SameCaller DEF MakeRoomForWrite, SwitchMemTable
  <2> QED
    BY <1>3, <2>1, SwitchKeepsOrder DEF MakeRoomForWrite
<1>4. CASE GetSnapshot
  <2>1. CallerRange'
    BY <1>0, <1>4, SameCaller DEF GetSnapshot
  <2> QED
    BY <1>4, <2>1, QuietStep DEF GetSnapshot
<1>5. ASSUME NEW i, ReleaseSnapshot(i)
      PROVE  OrderInv'
  <2>1. CallerRange'
    BY <1>0, <1>5, SameCaller DEF ReleaseSnapshot
  <2> QED
    BY <1>5, <2>1, QuietStep DEF ReleaseSnapshot
<1>6. CASE BeginRead
  <2>1. CallerRange'
    BY <1>0, <1>6, SameCaller DEF BeginRead
  <2> QED
    BY <1>6, <2>1, QuietStep DEF BeginRead
<1>7. ASSUME NEW r, NEW charged, EndRead(r, charged)
      PROVE  OrderInv'
  <2>1. CallerRange'
    BY <1>0, <1>7, SameCaller DEF EndRead
  <2> QED
    BY <1>7, <2>1, QuietStep DEF EndRead
<1>8. ASSUME NEW ikey, RecordReadSample(ikey)
      PROVE  OrderInv'
  <2>1. CallerRange'
    BY <1>0, <1>8, SameCaller DEF RecordReadSample
  <2> QED
    BY <1>8, <2>1, QuietStep DEF RecordReadSample
<1>9. ASSUME NEW begin \in Keys, NEW end \in Keys, CompactRangeCall(begin, end)
      PROVE  OrderInv'
  <2>1. begin \in Nat /\ end \in Nat
    BY CompactionAssumption
  <2>2. CallerRange'
    BY <1>9, <2>1 DEF CompactRangeCall, CallerRange
  <2> QED
    BY <1>9, <2>2, QuietStep DEF CompactRangeCall
<1> QED
  BY <1>1, <1>2, <1>3, <1>4, <1>5, <1>6, <1>7, <1>8, <1>9 DEF Client

(* A call of CompactRange.                                                 *)
LEMMA CallerKeepsOrder ==
  ASSUME LiveInv, OrderInv, Caller
  PROVE  OrderInv'
<1> USE DEF memVars, clientVars, fileVars, versionVars, bgVars, callVars
<1>0. CallerRange /\ {"pc", "level", "max", "done"} \subseteq DOMAIN caller
  BY DEF OrderInv, LiveInv, CallerInv
<1>1. CASE CallerWrites
  <2>1. crossed' = crossed /\ caller' = [caller EXCEPT !.pc = "memtable"]
    BY <1>1 DEF CallerWrites, SwitchMemTable
  <2>2. CallerRange'
    BY <1>0, <2>1 DEF CallerRange
  <2> QED
    BY <1>1, <2>2, SwitchKeepsOrder, QuietStep DEF CallerWrites
<1>2. CASE CallerMemTableDone
  <2>1. CallerRange'
    BY <1>0, <1>2 DEF CallerMemTableDone, CallerRange
  <2> QED
    BY <1>2, <2>1, QuietStep DEF CallerMemTableDone
<1>3. CASE CallerRegisters
  <2>1. CallerRange'
    BY <1>0, <1>3, SameCaller DEF CallerRegisters
  <2> QED
    BY <1>3, <2>1, QuietStep DEF CallerRegisters
<1>4. CASE CallerLevelDone
  <2>1. CallerRange'
    BY <1>0, <1>4 DEF CallerLevelDone, CallerRange
  <2> QED
    BY <1>4, <2>1, QuietStep DEF CallerLevelDone
<1> QED
  BY <1>1, <1>2, <1>3, <1>4 DEF Caller

(* Background steps that change no file and no version.                    *)
LEMMA FlushBeginKeepsOrder ==
  ASSUME LiveInv, OrderInv, FlushBegins
  PROVE  OrderInv'
<1>1. /\ flush' = {[number |-> next_file_number, base |-> current]}
      /\ UNCHANGED <<mem, imm, last_sequence, events, tables, current, work, crossed, caller>>
  BY DEF FlushBegins, clientVars, memVars, versionVars, callVars
<1>2. \A n \in NumbersIn(current) : n < next_file_number
  BY DEF LiveInv, VersionsInv, Referenced
<1>3. FlushBase'
  BY <1>1, <1>2 DEF FlushBase, NumbersIn, FilesOf
<1>4. AgesInv'
  BY <1>1 DEF OrderInv, AgesInv, Aside, Stored
<1>5. CallerRange'
  BY <1>1, SameCaller DEF OrderInv
<1> QED
  BY <1>1, <1>3, <1>4, <1>5 DEF OrderInv

(* A flush that fails adds no file.                                        *)
LEMMA FlushFailKeepsOrder ==
  ASSUME LiveInv, OrderInv, NEW fl \in flush, FlushFails(fl)
  PROVE  OrderInv'
<1>1. /\ flush' = {} /\ Event
      /\ UNCHANGED <<mem, imm, last_sequence, tables, current, work, crossed, caller>>
  BY DEF FlushFails, Fail, clientVars, memVars, versionVars, callVars
<1>2. AgesBound' /\ last_sequence' \in Nat /\ last_sequence <= last_sequence'
  BY <1>1, BoundKept DEF OrderInv, LiveInv, MemInv
<1>3. mem' = mem /\ Aside' = Aside /\ Stored' = Stored
  BY <1>1 DEF Aside, Stored
<1>4. AgesInv'
  BY <1>2, <1>3, AgesShrink DEF OrderInv
<1>5. CallerRange'
  BY <1>1, SameCaller DEF OrderInv
<1>6. FlushBase'
  BY <1>1 DEF FlushBase
<1> QED
  BY <1>1, <1>4, <1>5, <1>6 DEF OrderInv

(* The background thread may find nothing to do.                           *)
LEMMA IdleKeepsOrder ==
  ASSUME LiveInv, OrderInv, BackgroundIdles \/ NothingToCompact
  PROVE  OrderInv'
<1> USE DEF memVars, clientVars, fileVars, versionVars, bgVars, callVars
<1>1. UNCHANGED <<mem, imm, last_sequence, events, tables, current, flush, work, crossed>>
  BY DEF BackgroundIdles, NothingToCompact
<1>2. caller' = caller \/ caller' = [caller EXCEPT !.done = TRUE]
  BY DEF BackgroundIdles, NothingToCompact
<1>3. CallerRange /\ "done" \in DOMAIN caller
  BY DEF OrderInv, LiveInv, CallerInv
<1>4. CallerRange'
  BY <1>1, <1>2, <1>3 DEF CallerRange
<1> QED
  BY <1>1, <1>4, QuietStep

(* A compaction that fails changes no version.                             *)
LEMMA WorkFailKeepsOrder ==
  ASSUME LiveInv, OrderInv, NEW w \in work, WorkFails(w)
  PROVE  OrderInv'
<1>1. /\ flush' = {} /\ flush = {} /\ work' = {} /\ Event
      /\ UNCHANGED <<mem, imm, last_sequence, tables, current, crossed>>
      /\ caller' = caller \/ caller' = [caller EXCEPT !.done = TRUE]
  BY DEF WorkFails, FinishWork, Fail, memVars
<1>2. AgesBound' /\ last_sequence' \in Nat /\ last_sequence <= last_sequence'
  BY <1>1, BoundKept DEF OrderInv, LiveInv, MemInv
<1>3. mem' = mem /\ Aside' = Aside /\ Stored' \subseteq Stored
  BY <1>1 DEF Aside, Stored
<1>4. AgesInv'
  BY <1>2, <1>3, AgesShrink DEF OrderInv
<1>5. CallerRange /\ "done" \in DOMAIN caller
  BY DEF OrderInv, LiveInv, CallerInv
<1>6. CallerRange'
  BY <1>1, <1>5 DEF CallerRange
<1>7. FlushBase'
  BY <1>1 DEF FlushBase
<1> QED
  BY <1>1, <1>4, <1>6, <1>7 DEF OrderInv

-----------------------------------------------------------------------------
(* A file is added where its range meets no file.                          *)

(* The user keys of a table lie within those of its file's ends.           *)
LEMMA KeysOfTable ==
  ASSUME NEW T, TablesRight(T), NEW f \in Files(T), NEW e \in T[f.number]
  PROVE  /\ e \in IKeys /\ f \in Files(T) /\ f.smallest \in IKeys /\ f.largest \in IKeys
         /\ ~ Less(e, f.smallest) /\ ~ Less(f.largest, e)
         /\ f.smallest.key <= e.key /\ e.key <= f.largest.key
<1>1. /\ f.smallest \in IKeys /\ f.largest \in IKeys /\ e \in IKeys
      /\ ~ Less(e, f.smallest) /\ ~ Less(f.largest, e)
  <2>1. Ranged(Files(T))
    BY FilesAreRanged
  <2>2. T[f.number] \subseteq IKeys /\ ~ Less(e, f.smallest) /\ ~ Less(f.largest, e)
    BY FilesAreRanged
  <2> QED
    BY <2>1, <2>2 DEF Ranged
<1> DEFINE a == f.smallest
           b == f.largest
<1>2. a \in IKeys /\ b \in IKeys /\ ~ Less(e, a) /\ ~ Less(b, e)
  BY <1>1
<1> HIDE DEF a, b
<1>3. (e = a \/ Less(a, e)) /\ (e = b \/ Less(e, b))
  BY <1>1, <1>2, LessFacts
<1>4. a.key <= e.key /\ e.key <= b.key
  <2>1. a.key \in Nat /\ b.key \in Nat /\ e.key \in Nat
    BY <1>1, <1>2 DEF IKeys
  <2> QED
    BY <1>1, <1>2, <1>3, <2>1, LessFacts
<1> QED
  BY <1>1, <1>4 DEF a, b

(* Files whose keys lie apart share no key.                                *)
LEMMA ApartInKeys ==
  ASSUME NEW T, TablesRight(T), NEW f \in Files(T), NEW g \in Files(T),
         f.largest.key < g.smallest.key \/ g.largest.key < f.smallest.key,
         NEW d \in T[f.number], NEW e \in T[g.number]
  PROVE  d.key # e.key
<1>1. /\ f.smallest.key <= d.key /\ d.key <= f.largest.key
      /\ g.smallest.key <= e.key /\ e.key <= g.largest.key
  BY KeysOfTable
<1>2. d \in IKeys /\ e \in IKeys
  BY KeysOfTable
<1>3. /\ f.smallest.key \in Nat /\ f.largest.key \in Nat /\ g.smallest.key \in Nat
      /\ g.largest.key \in Nat /\ d.key \in Nat /\ e.key \in Nat
  BY <1>2, FilesAreRanged, RangedKeys DEF IKeys
<1> SUFFICES ASSUME d.key = e.key
             PROVE  FALSE
  OBVIOUS
<1>4. CASE f.largest.key < g.smallest.key
  BY <1>1, <1>3, <1>4, NoRing
<1>5. CASE g.largest.key < f.smallest.key
  BY <1>1, <1>3, <1>5, NoRing
<1> QED
  BY <1>4, <1>5

(* A file whose keys no other of some files has, when these leave no gap.  *)
LEMMA OneSideOfCovered ==
  ASSUME NEW F, Ranged(F), NEW S \in SUBSET F, Covered(S), NEW g \in F,
         \A f \in S : f.largest.key < g.smallest.key \/ g.largest.key < f.smallest.key
  PROVE  OneSide(g, S)
<1>1. \A f \in F : f.smallest \in IKeys /\ f.largest \in IKeys
  BY DEF Ranged
<1>2. \A f \in F : f.smallest.key \in Nat /\ f.largest.key \in Nat /\ f.smallest.key <= f.largest.key
  BY RangedKeys
<1>3. ASSUME NEW f \in S, f.largest.key < g.smallest.key,
             NEW h \in S, g.largest.key < h.smallest.key
      PROVE  FALSE
  <2> DEFINE k == g.smallest.key
  <2>1. k \in Nat /\ k <= g.largest.key /\ g.largest.key \in Nat
    BY <1>2
  <2>2. f.smallest.key <= k
    <3>1. f.smallest.key \in Nat /\ f.largest.key \in Nat /\ f.smallest.key <= f.largest.key
      BY <1>2
    <3>2. f.largest.key <= k
      BY <1>3, <2>1, <3>1
    <3> HIDE DEF k
    <3> QED
      BY <2>1, <3>1, <3>2, AtMostFacts
  <2>3. k <= h.largest.key
    <3>1. h.smallest.key \in Nat /\ h.largest.key \in Nat /\ h.smallest.key <= h.largest.key
      BY <1>2
    <3>2. g.largest.key <= h.smallest.key
      BY <1>3, <2>1, <3>1
    <3>3. g.largest.key <= h.largest.key
      BY <2>1, <3>1, <3>2, AtMostFacts
    <3> HIDE DEF k
    <3> QED
      BY <2>1, <3>1, <3>3, AtMostFacts
  <2>4. PICK x \in S : x.smallest.key <= k /\ k <= x.largest.key
    BY <2>1, <2>2, <2>3 DEF Covered, Holds
  <2>5. x.smallest.key \in Nat /\ x.largest.key \in Nat /\ x.smallest.key <= x.largest.key
    BY <1>2
  <2>6. CASE x.largest.key < g.smallest.key
    BY <2>1, <2>4, <2>5, <2>6
  <2>7. CASE g.largest.key < x.smallest.key
    BY <2>1, <2>4, <2>5, <2>7, NoRing
  <2> QED
    BY <2>6, <2>7
<1>4. CASE \E f \in S : f.largest.key < g.smallest.key
  <2>1. \A h \in S : h.largest.key < g.smallest.key
    BY <1>3, <1>4
  <2>2. \A h \in S : Less(h.largest, g.smallest)
    BY <1>1, <2>1, LessFacts
  <2> QED
    BY <2>2 DEF OneSide
<1>5. CASE ~ \E f \in S : f.largest.key < g.smallest.key
  <2>1. \A h \in S : Less(g.largest, h.smallest)
    BY <1>1, <1>5, LessFacts
  <2> QED
    BY <2>1 DEF OneSide
<1> QED
  BY <1>4, <1>5

(* A file added to a level, in keys that none of the levels down to it     *)
(* holds unless it is level 0, and newer than all others.                  *)
FileAdded(v, v2, level, file) ==
  \A l \in Levels : Range(v2[l]) = Range(v[l]) \cup IF l = level THEN {file} ELSE {}
HasRoom(v, level, file) ==
  level # 0 => \A l \in 0 .. level : \A f \in Range(v[l]) :
                 f.largest.key < file.smallest.key \/ file.largest.key < f.smallest.key
NewestFile(v, T, file) ==
  /\ \A n \in NumbersIn(v) : n < file.number
  /\ \A e \in T[file.number], level \in Levels : \A f \in EntriesAt(v, T, level) : f.seq < e.seq

(* What a level holds with one more file.                                  *)
LEMMA EntriesAdded ==
  ASSUME NEW T, NEW v, NEW v2, NEW level \in Levels, NEW file, FileAdded(v, v2, level, file)
  PROVE  EntriesAt(v2, T, level) = EntriesAt(v, T, level) \cup T[file.number]
<1>1. Range(v2[level]) = Range(v[level]) \cup {file}
  BY DEF FileAdded
<1> QED
  BY <1>1 DEF EntriesAt

(* The other levels hold what they held.                                   *)
LEMMA EntriesElsewhere ==
  ASSUME NEW T, NEW v, NEW v2, NEW level, NEW file, FileAdded(v, v2, level, file),
         NEW l \in Levels, l # level
  PROVE  EntriesAt(v2, T, l) = EntriesAt(v, T, l)
<1>1. Range(v2[l]) = Range(v[l])
  BY DEF FileAdded
<1> QED
  BY <1>1 DEF EntriesAt

(* Files of a version, from a level, and the entries of their tables.      *)
LEMMA FilesAtLevel ==
  ASSUME NEW T, TablesRight(T), NEW v, VersionRight(v, T), NEW level \in Levels
  PROVE  /\ Range(v[level]) \subseteq Files(T)
         /\ \A f \in Range(v[level]) : f.number \in DOMAIN T /\ T[f.number] \subseteq EntriesAt(v, T, level)
         /\ EntriesAt(v, T, level) \subseteq Entry
<1>1. v[level] \in Seq(Files(T))
  BY DEF VersionRight
<1>2. Range(v[level]) \subseteq Files(T)
  BY <1>1, RangeFacts
<1>3. \A f \in Range(v[level]) : f.number \in DOMAIN T /\ T[f.number] \subseteq Entry
  BY <1>2, FilesFacts DEF TablesRight, Memtable
<1> QED
  BY <1>2, <1>3 DEF EntriesAt

(* The newest file goes where there is room for it.                        *)
LEMMA FlushedOrder ==
  ASSUME NEW T, TablesRight(T), NEW v, VersionRight(v, T), VersionOrder(v, T),
         NEW file \in Files(T), NEW level \in Levels, NEW v2, FileAdded(v, v2, level, file),
         HasRoom(v, level, file), NewestFile(v, T, file)
  PROVE  VersionOrder(v2, T)
<1> DEFINE E == T[file.number]
<1>1. /\ AgesInOrder(v, T) /\ \A l \in Levels \ {0} : Disjoint(Range(v[l]))
      /\ \A l \in Levels : l \in Nat
      /\ 0 \in Levels
  BY LevelsAreNumbers, CompactionAssumption DEF VersionOrder, Levels
<1>2. ASSUME NEW l \in Levels \ {0}
      PROVE  Disjoint(Range(v2[l]))
  <2>1. CASE l # level
    BY <1>1, <2>1 DEF FileAdded
  <2>2. CASE l = level
    <3>1. Range(v2[l]) = Range(v[l]) \cup {file}
      BY <2>2 DEF FileAdded
    <3>2. ASSUME NEW f \in Range(v[l])
          PROVE  Apart(f, file) /\ Apart(file, f)
      <4>1. f.largest.key < file.smallest.key \/ file.largest.key < f.smallest.key
        <5>1. l \in 0 .. level /\ level # 0
          BY <1>1, <2>2
        <5> QED
          BY <5>1 DEF HasRoom
      <4>2. f \in Files(T)
        BY FilesAtLevel
      <4>3. /\ f.smallest \in IKeys /\ f.largest \in IKeys
            /\ file.smallest \in IKeys /\ file.largest \in IKeys
        BY <4>2, FilesAreRanged DEF Ranged
      <4> QED
        BY <4>1, <4>3, LessFacts DEF Apart
    <3> QED
      BY <1>1, <3>1, <3>2 DEF Disjoint
  <2> QED
    BY <2>1, <2>2
<1>3. ASSUME NEW a \in Levels, NEW b \in a + 1 .. kNumLevels - 1
      PROVE  Newer(EntriesAt(v2, T, a), EntriesAt(v2, T, b))
  <2>1. b \in Levels /\ a \in Nat /\ b \in Nat /\ a < b
    BY <1>1, CompactionAssumption DEF Levels
  <2>2. Newer(EntriesAt(v, T, a), EntriesAt(v, T, b))
    BY <1>1 DEF AgesInOrder
  <2>3. CASE a = level
    <3>1. EntriesAt(v2, T, a) = EntriesAt(v, T, a) \cup E
      BY <2>3, EntriesAdded
    <3>3. b # level
      BY <2>1, <2>3
    <3>4. EntriesAt(v2, T, b) = EntriesAt(v, T, b)
      BY <2>1, <3>3, EntriesElsewhere
    <3>2. \A e \in E, f \in EntriesAt(v, T, b) : e.seq > f.seq
      <4> TAKE e \in E, f \in EntriesAt(v, T, b)
      <4>1. f.seq < e.seq
        BY <2>1 DEF NewestFile
      <4> QED
        BY <4>1
    <3> QED
      BY <2>2, <3>1, <3>2, <3>4 DEF Newer
  <2>4. CASE b = level
    <3>1. EntriesAt(v2, T, b) = EntriesAt(v, T, b) \cup E
      BY <2>4, EntriesAdded
    <3>3. a # level
      BY <2>1, <2>4
    <3>4. EntriesAt(v2, T, a) = EntriesAt(v, T, a)
      BY <3>3, EntriesElsewhere
    <3>2. ASSUME NEW e \in EntriesAt(v, T, a), NEW d \in E
          PROVE  e.key # d.key
      <4>1. PICK f \in Range(v[a]) : e \in T[f.number]
        BY DEF EntriesAt
      <4>2. a \in 0 .. level /\ level # 0
        BY <2>1, <2>4
      <4>3. f \in Files(T)
        BY FilesAtLevel
      <4>4. f.largest.key < file.smallest.key \/ file.largest.key < f.smallest.key
        BY <4>2 DEF HasRoom
      <4> QED
        BY <4>1, <4>3, <4>4, ApartInKeys
    <3> QED
      BY <2>2, <3>1, <3>2, <3>4 DEF Newer
  <2>5. CASE a # level /\ b # level
    <3>1. EntriesAt(v2, T, b) = EntriesAt(v, T, b)
      BY <2>1, <2>5, EntriesElsewhere
    <3>2. EntriesAt(v2, T, a) = EntriesAt(v, T, a)
      BY <2>5, EntriesElsewhere
    <3> QED
      BY <2>2, <3>1, <3>2
  <2> QED
    BY <2>3, <2>4, <2>5
<1>4. ASSUME NEW f \in Range(v2[0]), NEW g \in Range(v2[0]), f.number > g.number
      PROVE  Newer(T[f.number], T[g.number])
  <2>1. CASE f \in Range(v[0]) /\ g \in Range(v[0])
    BY <1>1, <1>4, <2>1 DEF AgesInOrder
  <2>2. CASE f \notin Range(v[0])
    <3>1. f = file /\ g \in Range(v[0])
      <4>1. f = file /\ (g = file \/ g \in Range(v[0]))
        BY <1>1, <2>2 DEF FileAdded
      <4>2. file.number \in Nat
        BY FilesFacts
      <4> QED
        BY <1>4, <4>1, <4>2
    <3>2. T[g.number] \subseteq EntriesAt(v, T, 0)
      BY <1>1, <3>1, FilesAtLevel
    <3>3. \A e \in T[f.number], d \in T[g.number] : e.seq > d.seq
      <4> TAKE e \in T[f.number], d \in T[g.number]
      <4>1. d.seq < e.seq
        BY <1>1, <3>1, <3>2 DEF NewestFile
      <4> QED
        BY <4>1
    <3> QED
      BY <3>3 DEF Newer
  <2>3. CASE f \in Range(v[0]) /\ g \notin Range(v[0])
    <3>1. g = file /\ f.number \in NumbersIn(v)
      BY <1>1, <2>3, FilesAt DEF FileAdded
    <3>2. f.number < g.number /\ g.number \in Nat
      BY <3>1, FilesFacts DEF NewestFile
    <3>3. f.number \in Nat
      BY <1>1, <2>3, FilesAtLevel, FilesFacts
    <3> QED
      BY <1>4, <3>2, <3>3
  <2> QED
    BY <2>1, <2>2, <2>3
<1>5. AgesInOrder(v2, T)
  BY <1>3, <1>4 DEF AgesInOrder
<1> QED
  BY <1>2, <1>5 DEF VersionOrder

(* A compaction under way when a flush adds its file.                      *)
LEMMA FlushedWork ==
  ASSUME NEW T, TablesRight(T), NEW v, VersionRight(v, T),
         NEW file \in Files(T), NEW level \in Levels, NEW v2 \in [Levels -> Seq(Files(T))],
         FileAdded(v, v2, level, file), HasRoom(v, level, file), NewestFile(v, T, file),
         NEW w, WorkRight(w, v, T)
  PROVE  WorkRight(w, v2, T)
<1> DEFINE c == w.c
           L == c.level
<1>1. InputsRight(c, v, T) /\ OutputsRight(w, T)
  BY DEF WorkRight
<1>2. /\ L \in Levels /\ L + 1 \in Levels /\ L \in Nat /\ L \in 0 .. kNumLevels - 2
      /\ Range(c.inputs[1]) \subseteq Range(v[L]) /\ Range(c.inputs[2]) \subseteq Range(v[L + 1])
      /\ c.inputs[1] \in Seq(Range(v[L])) /\ c.inputs[1] # << >> /\ c.inputs[2] \in Seq(Range(v[L + 1]))
      /\ {"level", "inputs"} \subseteq DOMAIN c
      /\ \A f \in InputFiles(c) : f \in FilesOf(v)
  BY <1>1, InputsAreFiles, LevelsAreNumbers DEF InputsRight
<1>3. Range(v[L]) \subseteq Range(v2[L]) /\ Range(v[L + 1]) \subseteq Range(v2[L + 1])
  BY <1>2 DEF FileAdded
<1>4. c.inputs[1] \in Seq(Range(v2[L])) /\ c.inputs[2] \in Seq(Range(v2[L + 1]))
  BY <1>2, <1>3
<1>5. ASSUME NEW g \in Range(v2[L]) \ Range(c.inputs[1]), NEW f \in Range(c.inputs[1])
      PROVE  Newer(T[g.number], T[f.number])
  <2>1. CASE g \in Range(v[L])
    BY <1>1, <2>1 DEF InputsRight
  <2>2. CASE g \notin Range(v[L])
    <3>1. g = file
      BY <1>2, <2>2 DEF FileAdded
    <3>2. T[f.number] \subseteq EntriesAt(v, T, L)
      BY <1>2, FilesAtLevel
    <3>3. \A e \in T[g.number], d \in T[f.number] : e.seq > d.seq
      <4> TAKE e \in T[g.number], d \in T[f.number]
      <4>1. d.seq < e.seq
        BY <1>2, <3>1, <3>2 DEF NewestFile
      <4> QED
        BY <4>1
    <3> QED
      BY <3>3 DEF Newer
  <2> QED
    BY <2>1, <2>2
<1>6. InputsRight(c, v2, T)
  BY <1>2, <1>4, <1>5 DEF InputsRight
<1>7. ASSUME ~ w.is_manual
      PROVE  InputsApart(c, v2)
  <2>1. InputsApart(c, v)
    BY <1>7 DEF WorkRight
  <2>2. ASSUME NEW g \in Range(v2[L + 1]) \ Range(c.inputs[2])
        PROVE  OneSide(g, InputFiles(c))
    <3>1. CASE g \in Range(v[L + 1])
      BY <2>1, <3>1 DEF InputsApart
    <3>2. CASE g \notin Range(v[L + 1])
      <4>1. g = file /\ level = L + 1
        BY <1>2, <3>2 DEF FileAdded
      <4>2. \A f \in InputFiles(c) :
              f.largest.key < file.smallest.key \/ file.largest.key < f.smallest.key
        <5>1. L \in 0 .. level /\ L + 1 \in 0 .. level /\ level # 0
          BY <1>2, <4>1
        <5>2. \A f \in InputFiles(c) : f \in Range(v[L]) \/ f \in Range(v[L + 1])
          BY <1>2 DEF InputFiles
        <5> QED
          BY <5>1, <5>2 DEF HasRoom
      <4>3. InputFiles(c) \in SUBSET Files(T)
        BY <1>2, FilesOfFacts
      <4>4. Covered(InputFiles(c)) /\ Ranged(Files(T))
        BY <2>1, FilesAreRanged DEF InputsApart
      <4> QED
        BY <4>1, <4>2, <4>3, <4>4, OneSideOfCovered
    <3> QED
      BY <3>1, <3>2
  <2> QED
    BY <2>1, <2>2 DEF InputsApart
<1> QED
  BY <1>1, <1>6, <1>7 DEF WorkRight

(* The table files once one has been written.                              *)
LEMMA WrittenTable ==
  ASSUME NEW T, TablesRight(T), NEW n \in Nat, NEW entries, Memtable(entries), entries # {},
         NEW T2, T2 = WithTable(T, n, entries), NEW v, VersionRight(v, T), n \notin NumbersIn(v)
  PROVE  /\ TablesRight(T2) /\ T2[n] = entries /\ n \in DOMAIN T2
         /\ \A m \in NumbersIn(v) : T2[m] = T[m]
         /\ VersionRight(v, T2)
<1>1. /\ DOMAIN T2 = DOMAIN T \cup {n} /\ T2[n] = entries
      /\ \A m \in DOMAIN T : m # n => T2[m] = T[m]
  BY DEF WithTable
<1>2. TablesRight(T2)
  BY <1>1 DEF TablesRight
<1>3. \A m \in NumbersIn(v) : m \in DOMAIN T2 /\ T2[m] = T[m]
  BY <1>1, FilesOfFacts
<1>4. VersionRight(v, T2)
  BY <1>3, VersionStays
<1> QED
  BY <1>1, <1>2, <1>3, <1>4

(* What an edit that adds one file makes of a version.                     *)
LEMMA AddedVersion ==
  ASSUME NEW T, TablesRight(T), NEW v, VersionRight(v, T), NEW file \in Files(T), NEW level,
         NEW v2, v2 = ApplyEdit(v, Edit({}, {<<level, file>>}))
  PROVE  VersionRight(v2, T) /\ FileAdded(v, v2, level, file)
<1> DEFINE edit == Edit({}, {<<level, file>>})
<1>1. edit.deleted = {} /\ edit.added = {<<level, file>>}
  BY DEF Edit
<1>2. v2 = ApplyEdit(v, edit)
  OBVIOUS
<1> HIDE DEF edit
<1>3. IsFiniteSet(edit.added) /\ \A a \in edit.added : a[2] \in Files(T)
  <2>1. IsFiniteSet({<<level, file>>})
    BY FS_Singleton
  <2>2. \A a \in edit.added : a[2] = file
    BY <1>1
  <2> QED
    BY <1>1, <2>1, <2>2
<1>4. /\ VersionRight(ApplyEdit(v, edit), T)
      /\ \A l \in Levels :
           Range(ApplyEdit(v, edit)[l])
             = {f \in Range(v[l]) \cup {a[2] : a \in {x \in edit.added : x[1] = l}} :
                  <<l, f.number>> \notin edit.deleted
                                            \ {<<a[1], a[2].number>> : a \in edit.added}}
  BY <1>3, SaveToFacts
<1>5. ASSUME NEW l \in Levels
      PROVE  Range(v2[l]) = Range(v[l]) \cup IF l = level THEN {file} ELSE {}
  <2> DEFINE new == {a[2] : a \in {x \in edit.added : x[1] = l}}
  <2>1. Range(v2[l]) = Range(v[l]) \cup new
    BY <1>1, <1>2, <1>4
  <2>2. CASE l = level
    <3>1. new = {file}
      <4> DEFINE pairs == {x \in edit.added : x[1] = l}
                 pair == <<level, file>>
      <4>1. pair \in pairs /\ \A x \in pairs : x = pair
        BY <1>1, <2>2
      <4>2. pair[2] = file
        OBVIOUS
      <4> HIDE DEF pairs, pair
      <4>3. {a[2] : a \in pairs} = {file}
        BY <4>1, <4>2
      <4> QED
        BY <4>3 DEF pairs
    <3> HIDE DEF new
    <3> QED
      BY <2>1, <2>2, <3>1
  <2>3. CASE l # level
    <3>1. new = {}
      BY <1>1, <2>3
    <3> HIDE DEF new
    <3> QED
      BY <2>1, <2>3, <3>1
  <2> QED
    BY <2>2, <2>3
<1> QED
  BY <1>2, <1>4, <1>5 DEF FileAdded

(* What a flush makes of the version it is based on.                       *)
LEMMA FlushedVersion ==
  ASSUME NEW T, TablesRight(T), NEW v, VersionRight(v, T), VersionOrder(v, T), SeqsBounded(Files(T)),
         NEW n \in Nat, \A m \in NumbersIn(v) : m < n,
         NEW entries, Memtable(entries), entries # {},
         \A e \in entries, l \in Levels : \A f \in EntriesAt(v, T, l) : f.seq < e.seq,
         NEW T2, T2 = WithTable(T, n, entries),
         NEW file, file = TableFile(n, entries),
         NEW level, level = PickLevelForMemTableOutput(v, file.smallest.key, file.largest.key),
         NEW v2, v2 = ApplyEdit(v, Edit({}, {<<level, file>>}))
  PROVE  /\ level \in Levels /\ TablesRight(T2) /\ VersionRight(v, T2) /\ VersionRight(v2, T2)
         /\ file \in Files(T2) /\ file.number = n /\ T2[n] = entries
         /\ \A m \in NumbersIn(v) : T2[m] = T[m]
         /\ FileAdded(v, v2, level, file) /\ HasRoom(v, level, file) /\ NewestFile(v, T2, file)
<1>1. n \notin NumbersIn(v) /\ NumbersIn(v) \subseteq DOMAIN T
  BY FilesOfFacts
<1>2. /\ TablesRight(T2) /\ T2[n] = entries /\ n \in DOMAIN T2 /\ VersionRight(v, T2)
      /\ \A m \in NumbersIn(v) : T2[m] = T[m]
  BY <1>1, WrittenTable
<1>3. \A m \in NumbersIn(v) : T2[m] = T[m]
  BY <1>2
<1>4. file \in Files(T2) /\ file.number = n
  BY <1>2 DEF Files, TableFile, FileMetaData
<1>5. file.smallest \in IKeys /\ file.largest \in IKeys
  BY <1>2, <1>4, FilesAreRanged DEF Ranged
<1>6. Sequenced(Files(T), v)
  <2>1. v \in [Levels -> Seq(Files(T))] /\ Ranged(Files(T))
    BY FilesAreRanged DEF VersionRight
  <2>2. \A l \in Levels \ {0} : InSequence(v[l])
    BY LevelInSequence DEF VersionOrder
  <2> QED
    BY <2>1, <2>2 DEF Sequenced
<1>7. /\ level \in Levels
      /\ level # 0 => \A l \in 0 .. level : \A f \in Range(v[l]) :
           f.largest.key < file.smallest.key \/ file.largest.key < f.smallest.key
  <2> DEFINE begin == file.smallest.key
             end == file.largest.key
  <2>1. begin \in Nat /\ end \in Nat
    BY <1>5 DEF IKeys
  <2>2. level = PickLevelForMemTableOutput(v, begin, end)
    OBVIOUS
  <2> HIDE DEF begin, end
  <2>3. /\ level \in Levels
        /\ level # 0 => \A l \in 0 .. level : \A f \in Range(v[l]) :
             f.largest.key < begin \/ end < f.smallest.key
    BY <1>6, <2>1, <2>2, PickedLevelHasRoom
  <2> QED
    BY <2>3 DEF begin, end
<1>8. HasRoom(v, level, file)
  BY <1>7 DEF HasRoom
<1>9. NewestFile(v, T2, file)
  <2>1. \A l \in Levels : EntriesAt(v, T2, l) = EntriesAt(v, T, l)
    BY <1>3, EntriesStay
  <2> QED
    BY <1>2, <1>4, <2>1 DEF NewestFile
<1>10. VersionRight(v2, T2) /\ FileAdded(v, v2, level, file)
  BY <1>2, <1>4, AddedVersion
<1> QED
  BY <1>2, <1>3, <1>4, <1>7, <1>8, <1>9, <1>10

(* No key of a file is out of the bounds of the sequence numbers.          *)
LEMMA SeqsAreBounded ==
  ASSUME LiveInv, AgesInv
  PROVE  SeqsBounded(Files(tables))
<1>1. kMaxSequenceNumber \in Nat /\ MaxEvents \in Nat
  BY CompactionAssumption
<1>2. last_sequence \in Nat /\ last_sequence <= kMaxSequenceNumber
  BY <1>1 DEF LiveInv, MemInv, AgesInv
<1>3. ASSUME NEW f \in Files(tables)
      PROVE  f.largest.seq <= kMaxSequenceNumber
  <2>1. TablesRight(tables)
    BY DEF LiveInv, VersionsInv
  <2>2. f.largest \in tables[f.number] /\ f.number \in DOMAIN tables
    BY <2>1, FilesAreRanged, FilesFacts
  <2>3. f.largest \in Stored
    BY <2>2 DEF Stored
  <2>4. f.largest \in Entry
    BY <2>3, EntriesTyped
  <2>5. f.largest.seq \in Nat /\ f.largest.seq <= last_sequence
    BY <2>3, <2>4 DEF AgesInv, Entry
  <2> QED
    BY <1>1, <1>2, <2>5, AtMostFacts
<1> QED
  BY <1>1, <1>3 DEF SeqsBounded

(* The memtable set aside is newer than all the tables.                    *)
LEMMA AsideIsNewer ==
  ASSUME LiveInv, AgesInv, NEW entries, entries \in imm, NEW v, VersionRight(v, tables)
  PROVE  \A e \in entries, l \in Levels : \A f \in EntriesAt(v, tables, l) : f.seq < e.seq
<1> TAKE e \in entries, l \in Levels
<1> TAKE f \in EntriesAt(v, tables, l)
<1>1. e \in Aside
  BY DEF Aside
<1>2. TablesRight(tables)
  BY DEF LiveInv, VersionsInv
<1>3. PICK g \in Range(v[l]) : f \in tables[g.number]
  BY DEF EntriesAt
<1>4. g.number \in DOMAIN tables
  BY <1>2, <1>3, FilesAtLevel
<1>5. f \in Stored
  BY <1>3, <1>4 DEF Stored
<1> QED
  BY <1>1, <1>5 DEF AgesInv

(* CompactMemTable: the new table is the newest, and goes where no file    *)
(* down to its level meets it.                                             *)
LEMMA FlushInstallsKeepsOrder ==
  ASSUME LiveInv, OrderInv, NEW fl \in flush, FlushInstalls(fl)
  PROVE  OrderInv'
<1> USE DEF clientVars, memVars, fileVars, versionVars, bgVars, callVars
<1> DEFINE entries == CHOOSE m \in imm : TRUE
           file == TableFile(fl.number, entries)
           level == PickLevelForMemTableOutput(fl.base, file.smallest.key, file.largest.key)
           pending == pending_outputs \ {fl.number}
           version == IF entries = {} THEN current
                      ELSE ApplyEdit(current, Edit({}, {<<level, file>>}))
           written == IF entries = {} THEN tables ELSE WithTable(tables, fl.number, entries)
           versions == {current'} \cup {w.c.version : w \in work}
<1>1. /\ flush' = {} /\ imm' = {} /\ pending_outputs' = pending /\ Install(version)
      /\ tables' = Kept(written, versions, pending, bg_error)
      /\ UNCHANGED <<mem, last_sequence, next_file_number, work, caller, crossed, events>>
  BY DEF FlushInstalls
<1>2. current' = version
  BY <1>1 DEF Install
<1>3. Memtable(entries) /\ entries \in imm
  BY DEF LiveInv, MemInv, FlushInv
<1>4. /\ TablesRight(tables) /\ VersionRight(current, tables)
      /\ fl.number \in Nat /\ fl.number \notin NumbersIn(current)
  BY DEF LiveInv, VersionsInv, FlushInv, Referenced
<1>5. AgesInv /\ FlushBase /\ CallerRange
  BY DEF OrderInv
<1>6. fl.base = current /\ \A m \in NumbersIn(current) : m < fl.number
  BY <1>5 DEF FlushBase
<1> HIDE DEF entries
<1>7. /\ TablesRight(written)
      /\ \A m \in DOMAIN written : written[m] = entries \/ (m \in DOMAIN tables /\ written[m] = tables[m])
  <2>1. CASE entries = {}
    BY <1>4, <2>1
  <2>2. CASE entries # {}
    <3> DEFINE n == fl.number
    <3>1. n \in Nat /\ written = WithTable(tables, n, entries) /\ n \notin NumbersIn(current)
      BY <1>4, <2>2
    <3> HIDE DEF n, written
    <3>2. TablesRight(written)
      BY <1>3, <1>4, <2>2, <3>1, WrittenTable
    <3>3. \A m \in DOMAIN written : written[m] = entries \/ (m \in DOMAIN tables /\ written[m] = tables[m])
      BY <3>1 DEF WithTable
    <3> QED
      BY <3>2, <3>3
  <2> QED
    BY <2>1, <2>2
<1> HIDE DEF written, versions, version, pending
<1>8. /\ DOMAIN tables' \subseteq DOMAIN written
      /\ \A n \in DOMAIN tables' : tables'[n] = written[n]
      /\ \A n \in pending : n \in DOMAIN written => n \in DOMAIN tables'
      /\ \A v \in versions : \A n \in NumbersIn(v) : n \in DOMAIN written => n \in DOMAIN tables'
  BY <1>1, <1>7, KeptFacts
<1>9. AgesInv'
  <2>1. entries \subseteq Aside
    BY <1>3 DEF Aside
  <2>2. Stored' \subseteq Stored \cup Aside
    <3>1. \A n \in DOMAIN tables' : tables'[n] \subseteq Stored \cup Aside
      BY <1>7, <1>8, <2>1 DEF Stored
    <3>2. UNION {tables'[n] : n \in DOMAIN tables'} \subseteq Stored \cup Aside
      BY <3>1
    <3>3. UNION {w.input : w \in work'} \subseteq Stored
      BY <1>1 DEF Stored
    <3> QED
      BY <3>2, <3>3 DEF Stored
  <2>3. Aside' = {}
    BY <1>1 DEF Aside
  <2>4. AgesBound' /\ last_sequence' \in Nat /\ last_sequence <= last_sequence'
    <3>1. last_sequence \in Nat
      BY DEF LiveInv, MemInv
    <3> QED
      BY <1>1, <1>5, <3>1, BoundKept
  <2>5. mem' = mem
    BY <1>1
  <2> QED
    BY <1>5, <2>2, <2>3, <2>4, <2>5, AgesShrink
<1>10. FlushBase' /\ CallerRange'
  <2>1. UNCHANGED <<caller, crossed>>
    BY <1>1
  <2>2. CallerRange'
    BY <1>5, <2>1, SameCaller
  <2> QED
    BY <1>1, <2>2 DEF FlushBase
<1>11. ASSUME ~ crossed
       PROVE  /\ VersionOrder(version, written)
              /\ \A w \in work : WorkRight(w, version, written)
              /\ VersionRight(version, written)
  <2>1. VersionOrder(current, tables) /\ \A w \in work : WorkRight(w, current, tables)
    BY <1>11 DEF OrderInv
  <2>2. CASE entries = {}
    <3>1. written = tables /\ version = current
      BY <2>2 DEF written, version
    <3> QED
      BY <1>4, <2>1, <3>1
  <2>3. CASE entries # {}
    <3> DEFINE n == fl.number
    <3>1. /\ n \in Nat /\ written = WithTable(tables, n, entries) /\ \A m \in NumbersIn(current) : m < n
          /\ file = TableFile(n, entries)
          /\ version = ApplyEdit(current, Edit({}, {<<level, file>>}))
          /\ level = PickLevelForMemTableOutput(current, file.smallest.key, file.largest.key)
      BY <1>4, <1>6, <2>3 DEF written, version
    <3>2. SeqsBounded(Files(tables))
      BY <1>5, SeqsAreBounded
    <3>3. \A e \in entries, l \in Levels : \A f \in EntriesAt(current, tables, l) : f.seq < e.seq
      BY <1>3, <1>4, <1>5, AsideIsNewer
    <3> HIDE DEF n, file, level
    <3>4. /\ level \in Levels /\ TablesRight(written)
          /\ VersionRight(current, written) /\ VersionRight(version, written)
          /\ file \in Files(written) /\ file.number = n /\ written[n] = entries
          /\ \A m \in NumbersIn(current) : written[m] = tables[m]
          /\ FileAdded(current, version, level, file) /\ HasRoom(current, level, file)
          /\ NewestFile(current, written, file)
      BY <1>3, <1>4, <2>1, <2>3, <3>1, <3>2, <3>3, FlushedVersion
    <3>5. VersionOrder(current, written)
      BY <2>1, <3>4, OrderStays
    <3>6. VersionOrder(version, written)
      BY <3>4, <3>5, FlushedOrder
    <3>7. ASSUME NEW w \in work
          PROVE  WorkRight(w, version, written)
      <4>1. \A m \in NumbersIn(current) \cup Range(w.outputs) : written[m] = tables[m]
        <5>1. \A m \in Range(w.outputs) : m \in DOMAIN tables /\ m # n
          BY DEF LiveInv, OutputsInv, n
        <5>2. \A m \in Range(w.outputs) : written[m] = tables[m]
          BY <3>1, <5>1 DEF WithTable
        <5> QED
          BY <3>4, <5>2
      <4>2. WorkRight(w, current, written)
        BY <2>1, <4>1, WorkStays
      <4>3. version \in [Levels -> Seq(Files(written))]
        BY <3>4 DEF VersionRight
      <4> QED
        BY <3>4, <4>2, <4>3, FlushedWork
    <3> QED
      BY <3>4, <3>6, <3>7
  <2> QED
    BY <2>2, <2>3
<1>12. ASSUME ~ crossed
       PROVE  /\ VersionOrder(version, tables')
              /\ \A w \in work : WorkRight(w, version, tables')
  <2>1. version \in versions
    BY <1>2 DEF versions
  <2>2. \A m \in NumbersIn(version) : tables'[m] = written[m]
    <3>1. NumbersIn(version) \subseteq DOMAIN written
      BY <1>7, <1>11, <1>12, FilesOfFacts
    <3> QED
      BY <1>8, <2>1, <3>1
  <2>3. VersionOrder(version, tables')
    BY <1>11, <1>12, <2>2, OrderStays
  <2>4. ASSUME NEW w \in work
        PROVE  WorkRight(w, version, tables')
    <3>1. ASSUME NEW m \in Range(w.outputs)
          PROVE  tables'[m] = written[m]
      <4>1. m \in DOMAIN tables /\ m \in pending_outputs /\ m # fl.number
        BY DEF LiveInv, OutputsInv
      <4>2. m \in pending
        BY <4>1 DEF pending
      <4>3. m \in DOMAIN written
        BY <4>1 DEF written, WithTable
      <4> QED
        BY <1>8, <4>2, <4>3
    <3>2. \A m \in NumbersIn(version) \cup Range(w.outputs) : tables'[m] = written[m]
      BY <2>2, <3>1
    <3> QED
      BY <1>11, <1>12, <3>2, WorkStays
  <2> QED
    BY <2>3, <2>4
<1>13. ~ crossed => \A w \in work : "is_manual" \in DOMAIN w
  BY DEF OrderInv
<1> QED
  BY <1>1, <1>2, <1>9, <1>10, <1>12, <1>13 DEF OrderInv

(* What an edit that replaces the files first of a level and second of the *)
(* next by new ones of the next makes of a version.                        *)
Replaced(v, v2, L, first, second, new) ==
  /\ Range(v2[L]) = Range(v[L]) \ first
  /\ Range(v2[L + 1]) = (Range(v[L + 1]) \ second) \cup new
  /\ \A l \in Levels : l # L /\ l # L + 1 => Range(v2[l]) = Range(v[l])

(* Such an edit, which adds no file it deletes.                            *)
Replaces(edit, L, first, second, new) ==
  /\ edit.deleted = {<<L, f.number>> : f \in first} \cup {<<L + 1, f.number>> : f \in second}
  /\ edit.added = {<<L + 1, n>> : n \in new}
  /\ \A n \in new, f \in second : n.number # f.number

(* No two files of a set of tables have one number.                        *)
LEMMA NumberTellsFile ==
  ASSUME NEW T, TablesRight(T), NEW f \in Files(T), NEW g \in Files(T), f.number = g.number
  PROVE  f = g
<1> QED
  BY FilesFacts

(* SaveTo replaces the inputs by the new files.                            *)
LEMMA ReplacedVersion ==
  ASSUME NEW T, TablesRight(T), NEW v, VersionRight(v, T), NEW L \in 0 .. kNumLevels - 2,
         NEW first \in SUBSET Range(v[L]), NEW second \in SUBSET Range(v[L + 1]),
         NEW new \in SUBSET Files(T), IsFiniteSet(new),
         NEW edit, Replaces(edit, L, first, second, new),
         NEW v2, v2 = ApplyEdit(v, edit)
  PROVE  VersionRight(v2, T) /\ Replaced(v, v2, L, first, second, new)
<1>1. L \in Levels /\ L + 1 \in Levels /\ L \in Nat
  BY LevelsAreNumbers
<1>2. IsFiniteSet(edit.added) /\ \A a \in edit.added : a[2] \in Files(T)
  <2> DEFINE pair == [n \in new |-> <<L + 1, n>>]
             pairs == {<<L + 1, n>> : n \in new}
  <2>1. pair \in Surjection(new, pairs)
    BY DEF Surjection
  <2> HIDE DEF pair
  <2>2. IsFiniteSet(pairs)
    BY <2>1, FS_Surjection
  <2> QED
    BY <2>2 DEF Replaces
<1>3. /\ VersionRight(ApplyEdit(v, edit), T)
      /\ \A l \in Levels :
           Range(ApplyEdit(v, edit)[l])
             = {f \in Range(v[l]) \cup {a[2] : a \in {x \in edit.added : x[1] = l}} :
                  <<l, f.number>> \notin edit.deleted
                                            \ {<<a[1], a[2].number>> : a \in edit.added}}
  BY <1>2, SaveToFacts
<1> DEFINE gone == edit.deleted \ {<<a[1], a[2].number>> : a \in edit.added}
           come(l) == {a[2] : a \in {x \in edit.added : x[1] = l}}
<1>4. \A l \in Levels : Range(v2[l]) = {f \in Range(v[l]) \cup come(l) : <<l, f.number>> \notin gone}
  BY <1>3
<1>5. come(L + 1) = new /\ \A l \in Levels : l # L + 1 => come(l) = {}
  <2>1. edit.added = {<<L + 1, n>> : n \in new}
    BY DEF Replaces
  <2> DEFINE at(l) == {x \in edit.added : x[1] = l}
  <2>2. ASSUME NEW l, l # L + 1
        PROVE  come(l) = {}
    BY <2>1, <2>2
  <2>3. ASSUME NEW x
        PROVE  x \in come(L + 1) <=> x \in new
    <3>1. ASSUME x \in new
          PROVE  x \in come(L + 1)
      <4>1. <<L + 1, x>> \in at(L + 1)
        BY <2>1, <3>1
      <4>2. x = <<L + 1, x>>[2]
        OBVIOUS
      <4> QED
        BY <4>1, <4>2
    <3>2. ASSUME x \in come(L + 1)
          PROVE  x \in new
      <4>1. PICK a \in edit.added : a[2] = x
        BY <3>2
      <4> QED
        BY <2>1, <4>1
    <3> QED
      BY <3>1, <3>2
  <2>4. come(L + 1) = new
    BY <2>3
  <2> QED
    BY <2>2, <2>4
<1>6. ASSUME NEW l, NEW m
      PROVE  <<l, m>> \in gone
               <=> (l = L /\ \E f \in first : f.number = m) \/ (l = L + 1 /\ \E f \in second : f.number = m)
  <2> DEFINE back == {<<a[1], a[2].number>> : a \in edit.added}
             inFirst == l = L /\ \E f \in first : f.number = m
             inSecond == l = L + 1 /\ \E f \in second : f.number = m
  <2>1. <<l, m>> \in edit.deleted <=> inFirst \/ inSecond
    BY DEF Replaces
  <2>2. <<l, m>> \in back => l = L + 1 /\ \E n \in new : n.number = m
    BY DEF Replaces
  <2>3. \A n \in new, f \in second : n.number # f.number
    BY DEF Replaces
  <2>4. L # L + 1
    BY <1>1
  <2>5. <<l, m>> \in back => ~ inFirst /\ ~ inSecond
    BY <2>2, <2>3, <2>4
  <2>6. <<l, m>> \in gone <=> <<l, m>> \in edit.deleted /\ <<l, m>> \notin back
    OBVIOUS
  <2> HIDE DEF back, inFirst, inSecond, gone
  <2>7. <<l, m>> \in gone <=> inFirst \/ inSecond
    BY <2>1, <2>5, <2>6
  <2> QED
    BY <2>7 DEF inFirst, inSecond
<1> HIDE DEF gone, come
<1>7. \A l \in Levels : Range(v[l]) \subseteq Files(T)
  BY FilesAtLevel
<1>8. Range(v2[L]) = Range(v[L]) \ first
  <2>1. Range(v2[L]) = {f \in Range(v[L]) : <<L, f.number>> \notin gone}
    BY <1>1, <1>4, <1>5
  <2>2. \A f \in Range(v[L]) : <<L, f.number>> \in gone <=> f \in first
    <3> TAKE f \in Range(v[L])
    <3> DEFINE m == f.number
    <3> HIDE DEF m
    <3>3. <<L, m>> \in gone
            <=> (L = L /\ \E g \in first : g.number = m) \/ (L = L + 1 /\ \E g \in second : g.number = m)
      BY <1>6
    <3>1. <<L, f.number>> \in gone <=> \E g \in first : g.number = f.number
      BY <1>1, <3>3 DEF m
    <3>2. \A g \in first : g.number = f.number => g = f
      BY <1>1, <1>7, NumberTellsFile
    <3> QED
      BY <3>1, <3>2
  <2> QED
    BY <2>1, <2>2
<1>9. Range(v2[L + 1]) = (Range(v[L + 1]) \ second) \cup new
  <2>1. Range(v2[L + 1]) = {f \in Range(v[L + 1]) \cup new : <<L + 1, f.number>> \notin gone}
    BY <1>1, <1>4, <1>5
  <2>2. \A m : <<L + 1, m>> \in gone <=> \E g \in second : g.number = m
    BY <1>1, <1>6
  <2>3. \A f \in Range(v[L + 1]) : <<L + 1, f.number>> \in gone <=> f \in second
    <3> TAKE f \in Range(v[L + 1])
    <3>1. \A g \in second : g.number = f.number => g = f
      BY <1>1, <1>7, NumberTellsFile
    <3> QED
      BY <2>2, <3>1
  <2>4. \A f \in new : <<L + 1, f.number>> \notin gone /\ f \notin second
    BY <2>2 DEF Replaces
  <2> QED
    BY <2>1, <2>3, <2>4
<1>10. ASSUME NEW l \in Levels, l # L, l # L + 1
       PROVE  Range(v2[l]) = Range(v[l])
  <2>1. Range(v2[l]) = {f \in Range(v[l]) : <<l, f.number>> \notin gone}
    BY <1>4, <1>5, <1>10
  <2>2. \A m : <<l, m>> \notin gone
    BY <1>6, <1>10
  <2> QED
    BY <2>1, <2>2
<1>11. VersionRight(v2, T)
  BY <1>3
<1> QED
  BY <1>8, <1>9, <1>10, <1>11 DEF Replaced

(* What files left at a level have of a key is newer than what those taken *)
(* from it have, and new files hold nothing but what some files held.      *)
TakenAreOlder(v, T, L, first) ==
  \A g \in Range(v[L]) \ first, f \in first : Newer(T[g.number], T[f.number])
EntriesIn(T, files) == UNION {T[f.number] : f \in files}
MadeFrom(T, new, files) == \A n \in new : T[n.number] \subseteq EntriesIn(T, files)

(* Newer, of parts.                                                        *)
LEMMA NewerParts ==
  ASSUME NEW S, NEW S2 \in SUBSET S, NEW U, NEW U2 \in SUBSET U, Newer(S, U)
  PROVE  Newer(S2, U2)
<1> QED
  BY DEF Newer

(* What the levels hold after such an edit.                                *)
EntriesMoved(v, v2, T, L, first) ==
  /\ EntriesAt(v2, T, L) = EntriesIn(T, Range(v[L]) \ first)
  /\ EntriesAt(v2, T, L + 1) \subseteq EntriesAt(v, T, L + 1) \cup EntriesIn(T, first)
  /\ EntriesIn(T, first) \subseteq EntriesAt(v, T, L)
  /\ EntriesAt(v2, T, L) \subseteq EntriesAt(v, T, L)
  /\ \A l \in Levels : l # L /\ l # L + 1 => EntriesAt(v2, T, l) = EntriesAt(v, T, l)

(* Entries go down by one level.                                           *)
LEMMA ReplacedEntries ==
  ASSUME NEW T, NEW v, NEW L \in 0 .. kNumLevels - 2,
         NEW first \in SUBSET Range(v[L]), NEW second \in SUBSET Range(v[L + 1]), NEW new,
         MadeFrom(T, new, first \cup second),
         NEW v2, Replaced(v, v2, L, first, second, new)
  PROVE  EntriesMoved(v, v2, T, L, first)
<1>1. EntriesAt(v2, T, L) = EntriesIn(T, Range(v[L]) \ first)
  BY DEF Replaced, EntriesAt, EntriesIn
<1>2. ASSUME NEW e \in EntriesAt(v2, T, L + 1)
      PROVE  e \in EntriesAt(v, T, L + 1) \cup EntriesIn(T, first)
  <2>1. PICK g \in (Range(v[L + 1]) \ second) \cup new : e \in T[g.number]
    BY DEF Replaced, EntriesAt
  <2>2. CASE g \in Range(v[L + 1])
    BY <2>1, <2>2 DEF EntriesAt
  <2>3. CASE g \in new
    <3>1. e \in EntriesIn(T, first \cup second)
      BY <2>1, <2>3 DEF MadeFrom
    <3>2. PICK f \in first \cup second : e \in T[f.number]
      BY <3>1 DEF EntriesIn
    <3>3. CASE f \in first
      BY <3>2, <3>3 DEF EntriesIn
    <3>4. CASE f \in second
      BY <3>2, <3>4 DEF EntriesAt
    <3> QED
      BY <3>3, <3>4
  <2> QED
    BY <2>1, <2>2, <2>3
<1>3. EntriesIn(T, first) \subseteq EntriesAt(v, T, L)
  BY DEF EntriesIn, EntriesAt
<1>4. EntriesAt(v2, T, L) \subseteq EntriesAt(v, T, L)
  BY <1>1 DEF EntriesIn, EntriesAt
<1>5. ASSUME NEW l \in Levels, l # L, l # L + 1
      PROVE  EntriesAt(v2, T, l) = EntriesAt(v, T, l)
  BY <1>5 DEF Replaced, EntriesAt
<1> QED
  BY <1>1, <1>2, <1>3, <1>4, <1>5 DEF EntriesMoved

(* Going down by one level keeps ages in order.                            *)
LEMMA ReplacedAges ==
  ASSUME NEW T, NEW v, AgesInOrder(v, T), NEW L \in 0 .. kNumLevels - 2,
         NEW first \in SUBSET Range(v[L]), NEW second \in SUBSET Range(v[L + 1]), NEW new,
         MadeFrom(T, new, first \cup second), TakenAreOlder(v, T, L, first),
         NEW v2, Replaced(v, v2, L, first, second, new)
  PROVE  AgesInOrder(v2, T)
<1>1. L \in Levels /\ L + 1 \in Levels /\ L \in Nat
  BY LevelsAreNumbers
<1>0. EntriesMoved(v, v2, T, L, first)
  BY ReplacedEntries
<1> DEFINE E(l) == EntriesAt(v, T, l)
           E2(l) == EntriesAt(v2, T, l)
           F == EntriesIn(T, first)
<1>2. /\ E2(L) = EntriesIn(T, Range(v[L]) \ first)
      /\ E2(L + 1) \subseteq E(L + 1) \cup F
      /\ F \subseteq E(L)
      /\ E2(L) \subseteq E(L)
      /\ \A l \in Levels : l # L /\ l # L + 1 => E2(l) = E(l)
  BY <1>0 DEF EntriesMoved
<1>3. ASSUME NEW a \in Levels, NEW b \in Levels, a < b
      PROVE  Newer(E(a), E(b))
  <2>1. b \in a + 1 .. kNumLevels - 1
    BY <1>3, LevelsAreNumbers DEF Levels
  <2> QED
    BY <2>1 DEF AgesInOrder
<1>4. Newer(E2(L), F)
  <2> SUFFICES ASSUME NEW e \in E2(L), NEW d \in F, e.key = d.key
               PROVE  e.seq > d.seq
    BY DEF Newer
  <2>1. PICK g \in Range(v[L]) \ first : e \in T[g.number]
    BY <1>2 DEF EntriesIn
  <2>2. PICK f \in first : d \in T[f.number]
    BY DEF EntriesIn
  <2>3. Newer(T[g.number], T[f.number])
    BY DEF TakenAreOlder
  <2> QED
    BY <2>1, <2>2, <2>3 DEF Newer
<1> HIDE DEF E, E2, F
<1>5. ASSUME NEW a \in Levels, NEW b \in Levels, a < b
      PROVE  Newer(E2(a), E2(b))
  <2>1. a \in Nat /\ b \in Nat
    BY LevelsAreNumbers
  <2>2. CASE a = L /\ b = L + 1
    <3>1. Newer(E(L), E(L + 1))
      BY <1>1, <1>3
    <3>2. Newer(E2(L), E(L + 1) \cup F)
      BY <1>2, <1>4, <3>1 DEF Newer
    <3>3. E2(b) \subseteq E(L + 1) \cup F
      BY <1>2, <2>2
    <3> QED
      BY <2>2, <3>2, <3>3, NewerParts
  <2>3. CASE a = L /\ b # L + 1
    <3>0. b # L
      BY <1>5, <2>1, <2>3
    <3>1. E2(b) = E(b) /\ E2(a) \subseteq E(a)
      BY <1>2, <2>3, <3>0
    <3>2. Newer(E(a), E(b))
      BY <1>3, <1>5
    <3> QED
      BY <3>1, <3>2, NewerParts
  <2>4. CASE a = L + 1
    <3>1. E2(b) = E(b) /\ E2(a) \subseteq E(a) \cup F
      BY <1>1, <1>2, <1>5, <2>1, <2>4
    <3>2. L < b
      BY <1>1, <1>5, <2>1, <2>4
    <3>3. Newer(E(a), E(b)) /\ Newer(E(L), E(b))
      BY <1>1, <1>3, <1>5, <3>2
    <3>4. Newer(E(a) \cup F, E(b))
      BY <1>2, <3>3 DEF Newer
    <3> QED
      BY <3>1, <3>4, NewerParts
  <2>5. CASE a # L /\ a # L + 1 /\ b = L + 1
    <3>1. E2(a) = E(a) /\ E2(b) \subseteq E(b) \cup F
      BY <1>2, <2>5
    <3>2. a < L
      BY <1>1, <1>5, <2>1, <2>5
    <3>3. Newer(E(a), E(b)) /\ Newer(E(a), E(L))
      BY <1>1, <1>3, <1>5, <3>2
    <3>4. Newer(E(a), E(b) \cup F)
      BY <1>2, <3>3 DEF Newer
    <3> QED
      BY <3>1, <3>4, NewerParts
  <2>6. CASE a # L /\ a # L + 1 /\ b # L + 1
    <3>1. E2(a) = E(a) /\ E2(b) \subseteq E(b)
      BY <1>2, <2>6
    <3>2. Newer(E(a), E(b))
      BY <1>3, <1>5
    <3> QED
      BY <3>1, <3>2, NewerParts
  <2> QED
    BY <2>2, <2>3, <2>4, <2>5, <2>6
<1>6. Range(v2[0]) \subseteq Range(v[0])
  <2>1. CASE L = 0
    BY <2>1 DEF Replaced
  <2>2. CASE L # 0
    <3>1. 0 \in Levels /\ 0 # L /\ 0 # L + 1
      BY <1>1, <2>2, LevelsAreNumbers DEF Levels
    <3> QED
      BY <3>1 DEF Replaced
  <2> QED
    BY <2>1, <2>2
<1>7. \A f, g \in Range(v2[0]) : f.number > g.number => Newer(T[f.number], T[g.number])
  BY <1>6 DEF AgesInOrder
<1>8. \A a \in Levels : \A b \in a + 1 .. kNumLevels - 1 :
        Newer(EntriesAt(v2, T, a), EntriesAt(v2, T, b))
  <2> TAKE a \in Levels
  <2> TAKE b \in a + 1 .. kNumLevels - 1
  <2>1. b \in Levels /\ a < b
    BY LevelsAreNumbers DEF Levels
  <2> QED
    BY <1>5, <2>1 DEF E2
<1> QED
  BY <1>7, <1>8 DEF AgesInOrder

(* A file outside the keys of some files is apart from one made of what    *)
(* they hold.                                                              *)
LEMMA OutsideIsApart ==
  ASSUME NEW T, TablesRight(T), NEW files \in SUBSET Files(T), NEW g \in Files(T), OneSide(g, files),
         NEW n \in Files(T), T[n.number] \subseteq EntriesIn(T, files)
  PROVE  Apart(g, n) /\ Apart(n, g)
<1>1. /\ Ranged(Files(T))
      /\ \A f \in Files(T) :
           /\ f.smallest \in T[f.number] /\ f.largest \in T[f.number]
           /\ T[f.number] \subseteq IKeys
           /\ \A e \in T[f.number] : ~ Less(e, f.smallest) /\ ~ Less(f.largest, e)
  BY FilesAreRanged
<1>2. PICK f \in files : n.smallest \in T[f.number]
  BY <1>1 DEF EntriesIn
<1>3. PICK h \in files : n.largest \in T[h.number]
  BY <1>1 DEF EntriesIn
<1>4. /\ ~ Less(n.smallest, f.smallest) /\ ~ Less(h.largest, n.largest)
      /\ n.smallest \in IKeys /\ n.largest \in IKeys /\ f.smallest \in IKeys /\ h.largest \in IKeys
      /\ g.smallest \in IKeys /\ g.largest \in IKeys
  BY <1>1, <1>2, <1>3 DEF Ranged
<1>5. CASE \A x \in files : Less(g.largest, x.smallest)
  <2>1. Less(g.largest, f.smallest)
    BY <1>5
  <2>2. Less(g.largest, n.smallest)
    BY <1>4, <2>1, LessFacts
  <2> QED
    BY <2>2 DEF Apart
<1>6. CASE \A x \in files : Less(x.largest, g.smallest)
  <2>1. Less(h.largest, g.smallest)
    BY <1>6
  <2>2. Less(n.largest, g.smallest)
    BY <1>4, <2>1, LessFacts
  <2> QED
    BY <2>2 DEF Apart
<1> QED
  BY <1>5, <1>6 DEF OneSide

(* And the levels disjoint, when what was left out lies aside.             *)
LEMMA ReplacedDisjoint ==
  ASSUME NEW T, TablesRight(T), NEW v, VersionRight(v, T),
         \A l \in Levels \ {0} : Disjoint(Range(v[l])), NEW L \in 0 .. kNumLevels - 2,
         NEW first \in SUBSET Range(v[L]), NEW second \in SUBSET Range(v[L + 1]),
         NEW new \in SUBSET Files(T), NEW files, files = first \cup second,
         MadeFrom(T, new, files), Disjoint(new),
         \A g \in Range(v[L + 1]) \ second : OneSide(g, files),
         NEW v2, Replaced(v, v2, L, first, second, new)
  PROVE  \A l \in Levels \ {0} : Disjoint(Range(v2[l]))
<1>1. L \in Levels /\ L + 1 \in Levels \ {0} /\ L \in Nat
  BY LevelsAreNumbers
<1>2. Range(v[L]) \subseteq Files(T) /\ Range(v[L + 1]) \subseteq Files(T)
  BY <1>1, FilesAtLevel
<1> TAKE l \in Levels \ {0}
<1>3. CASE l = L + 1
  <2>1. Range(v2[l]) = (Range(v[l]) \ second) \cup new
    BY <1>3 DEF Replaced
  <2>2. ASSUME NEW g \in Range(v[l]) \ second, NEW n \in new
        PROVE  Apart(g, n) /\ Apart(n, g)
    <3>1. OneSide(g, files) /\ g \in Files(T) /\ files \in SUBSET Files(T)
      BY <1>2, <1>3
    <3>2. T[n.number] \subseteq EntriesIn(T, files)
      BY DEF MadeFrom
    <3> QED
      BY <3>1, <3>2, OutsideIsApart
  <2> QED
    BY <2>1, <2>2 DEF Disjoint
<1>4. CASE l = L
  BY <1>1, <1>4 DEF Replaced, Disjoint
<1>5. CASE l # L /\ l # L + 1
  BY <1>5 DEF Replaced
<1> QED
  BY <1>3, <1>4, <1>5

(* Once the inputs are closed at their level, what is left out there is    *)
(* newer: entries of a key lie in files from the newest on.                *)
LEMMA ClosedIsNewer ==
  ASSUME NEW T, TablesRight(T), NEW v, VersionRight(v, T), NEW L \in Levels,
         NEW first \in SUBSET Range(v[L]), Closed(Range(v[L]), first),
         \A d, e \in EntriesAt(v, T, L) : d.key = e.key /\ d.seq = e.seq => d = e
  PROVE  TakenAreOlder(v, T, L, first)
<1>1. Range(v[L]) \subseteq Files(T)
  BY FilesAtLevel
<1> SUFFICES ASSUME NEW g \in Range(v[L]) \ first, NEW f \in first,
                    NEW e \in T[g.number], NEW d \in T[f.number], e.key = d.key
             PROVE  e.seq > d.seq
  BY DEF TakenAreOlder, Newer
<1>2. g \in Files(T) /\ f \in Files(T)
  BY <1>1
<1>3. /\ e \in IKeys /\ d \in IKeys
      /\ ~ Less(g.largest, e) /\ ~ Less(d, f.smallest)
      /\ g.largest \in IKeys /\ f.smallest \in IKeys
      /\ f.largest.key \in Nat /\ g.smallest.key \in Nat
      /\ g.smallest.key <= e.key /\ d.key <= f.largest.key
  BY <1>2, KeysOfTable DEF IKeys
<1>4. Less(g.largest, f.smallest) \/ f.largest.key < g.smallest.key
  BY DEF Closed
<1>5. ~ f.largest.key < g.smallest.key
  <2>1. d.key \in Nat /\ e.key \in Nat
    BY <1>3 DEF IKeys
  <2>2. g.smallest.key <= f.largest.key
    BY <1>3, <2>1, AtMostFacts
  <2> QED
    BY <1>3, <2>2
<1>6. Less(e, d)
  <2>1. Less(g.largest, f.smallest)
    BY <1>4, <1>5
  <2>2. Less(e, f.smallest)
    BY <1>3, <2>1, LessFacts
  <2> QED
    BY <1>3, <2>2, LessFacts
<1>7. e.seq >= d.seq /\ e # d
  BY <1>3, <1>6, LessFacts
<1>8. e \in EntriesAt(v, T, L) /\ d \in EntriesAt(v, T, L)
  BY <1>1, FilesAtLevel
<1>9. e.seq # d.seq
  BY <1>7, <1>8
<1>10. e.seq \in Nat /\ d.seq \in Nat
  BY <1>3 DEF IKeys
<1> QED
  BY <1>7, <1>9, <1>10

(* What BackgroundCompaction picks from levels in order.                   *)
LEMMA PickedRight ==
  ASSUME LiveInv, OrderInv, ~ crossed, NEW c \in Picked
  PROVE  /\ Chosen(c, current)
         /\ InputsRight(c, current, tables) /\ TakenAreOlder(current, tables, c.level, Range(c.inputs[1]))
         /\ ~ manual => InputsApart(c, current)
<1> DEFINE F == Files(tables)
<1>1. TablesRight(tables) /\ VersionRight(current, tables) /\ VersionOrder(current, tables)
  BY DEF LiveInv, VersionsInv, Referenced, OrderInv
<1>2. Sequenced(F, current)
  <2>1. current \in [Levels -> Seq(F)] /\ Ranged(F)
    BY <1>1, FilesAreRanged DEF VersionRight
  <2>2. \A l \in Levels \ {0} : InSequence(current[l])
    BY <1>1, LevelInSequence DEF VersionOrder
  <2> QED
    BY <2>1, <2>2 DEF Sequenced
<1>3. Chosen(c, current) /\ (~ manual => Covered(InputFiles(c)))
  <2> HIDE DEF F
  <2>1. CASE manual
    <3> DEFINE level == caller.level
               begin == caller.from
               end == caller.end
    <3>1. c \in CompactRange(current, level, begin, end)
      BY <2>1 DEF Picked
    <3>2. level \in 0 .. kNumLevels - 2 /\ begin \in Nat /\ end \in Nat
      BY DEF LiveInv, CallerInv, OrderInv, CallerRange
    <3> HIDE DEF level, begin, end
    <3>3. Chosen(c, current)
      BY <1>2, <3>1, <3>2, CompactRangeChosen
    <3> QED
      BY <2>1, <3>3
  <2>2. CASE ~ manual
    <3>1. c \in PickCompaction(current, compact_pointer, file_to_compact)
      BY <2>2 DEF Picked
    <3>2. \A d \in file_to_compact :
            d.level \in 0 .. kNumLevels - 2 /\ d.file \in Range(current[d.level])
      BY DEF LiveInv, ReaderInv
    <3> QED
      BY <1>2, <3>1, <3>2, PickChosen
  <2> QED
    BY <2>1, <2>2
<1>4. /\ c.level \in Levels /\ c.level + 1 \in Levels /\ c.level \in 0 .. kNumLevels - 2
      /\ Range(c.inputs[1]) \subseteq Range(current[c.level])
  BY <1>3, LevelsAreNumbers, RangeFacts DEF Chosen
<1>5. TakenAreOlder(current, tables, c.level, Range(c.inputs[1]))
  <2> DEFINE L == c.level
             first == Range(c.inputs[1])
  <2>1. first \in SUBSET Range(current[L]) /\ Closed(Range(current[L]), first) /\ L \in Levels
    BY <1>3, <1>4 DEF Chosen
  <2>2. \A d, e \in EntriesAt(current, tables, L) : d.key = e.key /\ d.seq = e.seq => d = e
    <3>1. EntriesAt(current, tables, L) \subseteq Stored
      <4> SUFFICES ASSUME NEW e \in EntriesAt(current, tables, L)
                   PROVE  e \in Stored
        OBVIOUS
      <4>1. PICK g \in Range(current[L]) : e \in tables[g.number]
        BY DEF EntriesAt
      <4>2. g.number \in DOMAIN tables
        BY <1>1, <1>4, <4>1, FilesAtLevel
      <4> QED
        BY <4>1, <4>2 DEF Stored
    <3>2. \A d, e \in Stored : d.key = e.key /\ d.seq = e.seq => d = e
      BY DEF OrderInv, AgesInv
    <3> QED
      BY <3>1, <3>2
  <2> HIDE DEF L, first
  <2>3. TakenAreOlder(current, tables, L, first)
    BY <1>1, <2>1, <2>2, ClosedIsNewer
  <2> QED
    BY <2>3 DEF L, first
<1>6. InputsRight(c, current, tables)
  BY <1>3, <1>5 DEF Chosen, InputsRight, TakenAreOlder
<1>7. ~ manual => InputsApart(c, current)
  BY <1>3 DEF Chosen, InputsApart
<1> QED
  BY <1>3, <1>5, <1>6, <1>7

(* A step that only gives the current version another form, while nothing  *)
(* else is under way.                                                      *)
LEMMA CalmAges ==
  ASSUME LiveInv, AgesInv, UNCHANGED <<mem, imm>>, Stored' \subseteq Stored,
         \/ UNCHANGED <<events, last_sequence>>
         \/ Event /\ last_sequence' \in {last_sequence, last_sequence + 1}
  PROVE  AgesInv'
<1>1. last_sequence \in Nat
  BY DEF LiveInv, MemInv
<1>2. AgesBound' /\ last_sequence' \in Nat /\ last_sequence <= last_sequence'
  BY <1>1, BoundKept
<1>3. mem' = mem /\ Aside' = Aside
  BY DEF Aside
<1> QED
  BY <1>2, <1>3, AgesShrink

(* A compaction begins.                                                    *)
LEMMA WorkStartKeepsOrder ==
  ASSUME LiveInv, OrderInv, NEW c \in Picked, DoCompactionWork(c)
  PROVE  OrderInv'
<1> USE DEF clientVars, memVars, fileVars, versionVars, bgVars, callVars
<1>1. /\ UNCHANGED <<mem, imm, last_sequence, tables, current, crossed, flush, caller, events>>
      /\ flush = {} /\ work = {}
  BY DEF DoCompactionWork, BackgroundStarts
<1>2. PICK w : /\ work' = {w} /\ "is_manual" \in DOMAIN w
               /\ w.c = c /\ w.input = InputOf(c) /\ w.outputs = << >> /\ w.is_manual = manual
  <2>1. PICK smallest, last, scan :
          work' = {[c |-> c, is_manual |-> manual, input |-> InputOf(c),
                    smallest_snapshot |-> smallest, key |-> 0, last_sequence_for_key |-> last,
                    scan |-> scan, outputs |-> << >>, open |-> FALSE]}
    BY DEF DoCompactionWork
  <2> DEFINE w == [c |-> c, is_manual |-> manual, input |-> InputOf(c),
                   smallest_snapshot |-> smallest, key |-> 0, last_sequence_for_key |-> last,
                   scan |-> scan, outputs |-> << >>, open |-> FALSE]
  <2>2. /\ "is_manual" \in DOMAIN w
        /\ w.c = c /\ w.input = InputOf(c) /\ w.outputs = << >> /\ w.is_manual = manual
    OBVIOUS
  <2> HIDE DEF w
  <2>3. work' = {w}
    BY <2>1 DEF w
  <2> QED
    BY <2>2, <2>3
<1>3. AgesInv' /\ CallerRange'
  <2>1. AgesInv /\ CallerRange
    BY DEF OrderInv
  <2>4. InputOf(c) \subseteq Stored
    <3>1. ReadsFrom(c, current)
      BY PickedFacts
    <3>2. Range(c.inputs[1]) \subseteq FilesOf(current) /\ Range(c.inputs[2]) \subseteq FilesOf(current)
      BY <3>1, RangeFacts DEF ReadsFrom
    <3>3. \A f \in FilesOf(current) : f.number \in DOMAIN tables
      BY FilesOfFacts DEF LiveInv, VersionsInv, Referenced
    <3> QED
      BY <3>2, <3>3 DEF InputOf, Stored
  <2>5. Stored' \subseteq Stored
    BY <1>1, <1>2, <2>4 DEF Stored
  <2>2. AgesInv'
    BY <1>1, <2>1, <2>5, CalmAges
  <2>3. CallerRange'
    BY <1>1, <2>1, SameCaller
  <2> QED
    BY <2>2, <2>3
<1>4. FlushBase'
  BY <1>1 DEF FlushBase
<1>5. ASSUME ~ crossed
      PROVE  WorkRight(w, current, tables)
  <2>1. InputsRight(c, current, tables) /\ (~ manual => InputsApart(c, current))
    BY <1>5, PickedRight
  <2>2. OutputsRight(w, tables)
    <3>1. w.input = UNION {tables[f.number] : f \in InputFiles(w.c)}
      BY <1>2 DEF InputOf, InputFiles
    <3>2. Range(w.outputs) = {} /\ DOMAIN w.outputs = {}
      BY <1>2 DEF Range
    <3> QED
      BY <3>1, <3>2 DEF OutputsRight
  <2> QED
    BY <1>2, <2>1, <2>2 DEF WorkRight
<1>6. ~ crossed => VersionOrder(current, tables)
  BY DEF OrderInv
<1> QED
  BY <1>1, <1>2, <1>3, <1>4, <1>5, <1>6 DEF OrderInv

(* A single file moves to the next level.                                  *)
LEMMA TrivialMoveKeepsOrder ==
  ASSUME LiveInv, OrderInv, NEW c \in Picked, TrivialMove(c)
  PROVE  OrderInv'
<1> USE DEF clientVars, memVars, fileVars, versionVars, bgVars, callVars
<1> DEFINE f == c.inputs[1][1]
           L == c.level
           edit == Edit({<<L, f.number>>}, {<<L + 1, f>>})
           version == ApplyEdit(current, edit)
<1>1. /\ UNCHANGED <<mem, imm, last_sequence, tables, crossed, flush, work, caller>>
      /\ flush = {} /\ work = {} /\ ~ manual
      /\ Len(c.inputs[1]) = 1 /\ Len(c.inputs[2]) = 0
      /\ \/ current' = version /\ UNCHANGED events
         \/ current' = current /\ Event
  BY DEF TrivialMove, BackgroundStarts, IsTrivialMove, Install, Fail
<1>2. AgesInv' /\ CallerRange'
  <2>1. AgesInv /\ CallerRange
    BY DEF OrderInv
  <2>4. Stored' = Stored
    BY <1>1 DEF Stored
  <2>2. AgesInv'
    BY <1>1, <2>1, <2>4, CalmAges
  <2>3. CallerRange'
    BY <1>1, <2>1, SameCaller
  <2> QED
    BY <2>2, <2>3
<1>3. FlushBase'
  BY <1>1 DEF FlushBase
<1>4. ASSUME ~ crossed
      PROVE  VersionOrder(version, tables)
  <2> DEFINE T == tables
             v == current
  <2>1. TablesRight(T) /\ VersionRight(v, T) /\ VersionOrder(v, T)
    BY <1>4 DEF LiveInv, VersionsInv, Referenced, OrderInv
  <2>2. /\ Chosen(c, v) /\ TakenAreOlder(v, T, L, Range(c.inputs[1]))
        /\ InputsApart(c, v)
    BY <1>1, <1>4, PickedRight
  <2>3. /\ L \in 0 .. kNumLevels - 2 /\ L \in Levels /\ L \in Nat
        /\ c.inputs[1] \in Seq(Range(v[L])) /\ c.inputs[2] \in Seq(Range(v[L + 1]))
    BY <2>2, LevelsAreNumbers DEF Chosen
  <2>4. Range(c.inputs[1]) = {f} /\ Range(c.inputs[2]) = {} /\ f \in Range(v[L])
    BY <1>1, <2>3 DEF Range
  <2>5. InputFiles(c) = {f}
    BY <2>4 DEF InputFiles
  <2> HIDE DEF f, L, T, v
  <2>6. f \in Files(T)
    BY <2>1, <2>3, <2>4, FilesAtLevel
  <2>7. Replaces(edit, L, {f}, {}, {f})
    <3>1. edit.deleted = {<<L, f.number>>} /\ edit.added = {<<L + 1, f>>}
      BY DEF Edit
    <3> QED
      BY <3>1 DEF Replaces
  <2>8. IsFiniteSet({f})
    BY FS_Singleton
  <2> DEFINE first == {f}
             second == {}
             new == {f}
             files == {f}
  <2>9. /\ first \in SUBSET Range(v[L]) /\ second \in SUBSET Range(v[L + 1])
        /\ new \in SUBSET Files(T) /\ IsFiniteSet(new) /\ files = first \cup second
        /\ Replaces(edit, L, first, second, new)
    BY <2>4, <2>6, <2>7, <2>8
  <2>10. MadeFrom(T, new, files) /\ Disjoint(new) /\ TakenAreOlder(v, T, L, first)
    BY <2>2, <2>4 DEF MadeFrom, EntriesIn, Disjoint
  <2>11. \A g \in Range(v[L + 1]) \ second : OneSide(g, files)
    BY <2>2, <2>4, <2>5 DEF InputsApart, L
  <2> HIDE DEF first, second, new, files, edit
  <2>12. Replaced(v, version, L, first, second, new)
    <3>1. version = ApplyEdit(v, edit)
      BY DEF v
    <3> HIDE DEF version
    <3> QED
      BY <2>1, <2>3, <2>9, <3>1, ReplacedVersion
  <2> HIDE DEF version
  <2>13. AgesInOrder(version, T)
    <3>1. MadeFrom(T, new, first \cup second) /\ AgesInOrder(v, T)
      BY <2>1, <2>9, <2>10 DEF VersionOrder
    <3> QED
      BY <2>3, <2>9, <2>10, <2>12, <3>1, ReplacedAges
  <2>14. \A l \in Levels \ {0} : Disjoint(Range(version[l]))
    <3>1. \A l \in Levels \ {0} : Disjoint(Range(v[l]))
      BY <2>1 DEF VersionOrder
    <3> QED
      BY <2>1, <2>3, <2>9, <2>10, <2>11, <2>12, <3>1, ReplacedDisjoint
  <2> QED
    BY <2>13, <2>14 DEF VersionOrder, T
<1>5. ~ crossed => VersionOrder(current, tables)
  BY DEF OrderInv
<1> HIDE DEF version
<1> QED
  BY <1>1, <1>2, <1>3, <1>4, <1>5 DEF OrderInv

(* Outputs in order, and before what is left of the input.                 *)
OutputsInOrder(T, outputs, input) ==
  /\ \A i, j \in DOMAIN outputs : i < j => \A e \in T[outputs[i]], f \in T[outputs[j]] : Less(e, f)
  /\ \A n \in Range(outputs) : \A e \in T[n], f \in input : Less(e, f)

(* The smallest entry goes to the last output ...                          *)
LEMMA OutputContinues ==
  ASSUME NEW T, NEW outputs \in Seq(Nat), outputs # << >>,
         \A n \in Range(outputs) : T[n] # {} /\ T[n] \subseteq IKeys,
         NEW input, OutputsInOrder(T, outputs, input), NEW x \in input,
         NEW left, left = input \ {x}, \A e \in left : Less(x, e),
         NEW last, last = Last(outputs), NEW T2, T2[last] = T[last] \cup {x},
         \A n \in Range(outputs) : n # last => T2[n] = T[n]
  PROVE  OutputsInOrder(T2, outputs, left)
<1> DEFINE m == Len(outputs)
<1>1. m \in Nat \ {0} /\ DOMAIN outputs = 1 .. m /\ last = outputs[m]
  BY DEF Last
<1> HIDE DEF m
<1>2. ASSUME NEW i \in 1 .. m, i # m
      PROVE  outputs[i] # last /\ outputs[i] \in Range(outputs) /\ i < m
  <2>1. i < m /\ i \in DOMAIN outputs /\ m \in DOMAIN outputs
    BY <1>1, <1>2
  <2>2. outputs[i] \in Range(outputs)
    BY <2>1 DEF Range
  <2>3. PICK e : e \in T[outputs[i]] /\ e \in IKeys
    BY <2>2
  <2>4. outputs[i] = last => Less(e, e)
    BY <1>1, <2>1, <2>3 DEF OutputsInOrder
  <2> QED
    BY <2>1, <2>2, <2>3, <2>4, LessFacts
<1>3. ASSUME NEW i \in DOMAIN outputs, NEW j \in DOMAIN outputs, i < j,
             NEW e \in T2[outputs[i]], NEW f \in T2[outputs[j]]
      PROVE  Less(e, f)
  <2>1. i \in 1 .. m /\ j \in 1 .. m /\ i # m
    BY <1>1, <1>3
  <2>2. e \in T[outputs[i]] /\ outputs[i] \in Range(outputs)
    BY <1>2, <2>1
  <2>3. CASE j = m
    <3>1. f \in T[outputs[j]] \/ f = x
      BY <1>1, <2>3
    <3> QED
      BY <1>3, <2>2, <3>1 DEF OutputsInOrder
  <2>4. CASE j # m
    <3>1. f \in T[outputs[j]]
      BY <1>2, <2>1, <2>4
    <3> QED
      BY <1>3, <2>2, <3>1 DEF OutputsInOrder
  <2> QED
    BY <2>3, <2>4
<1>4. ASSUME NEW n \in Range(outputs), NEW e \in T2[n], NEW f \in left
      PROVE  Less(e, f)
  <2>1. e \in T[n] \/ e = x
    OBVIOUS
  <2> QED
    BY <2>1 DEF OutputsInOrder
<1> QED
  BY <1>3, <1>4 DEF OutputsInOrder

(* ... or to a new one.                                                    *)
LEMMA OutputOpens ==
  ASSUME NEW T, NEW outputs \in Seq(Nat),
         NEW input, OutputsInOrder(T, outputs, input), NEW x \in input,
         NEW left, left = input \ {x}, \A e \in left : Less(x, e),
         NEW number \in Nat, number \notin Range(outputs), NEW T2, T2[number] = {x},
         \A n \in Range(outputs) : T2[n] = T[n],
         NEW outputs2, outputs2 = Append(outputs, number)
  PROVE  OutputsInOrder(T2, outputs2, left)
<1> DEFINE m == Len(outputs)
<1>1. /\ m \in Nat /\ DOMAIN outputs = 1 .. m /\ DOMAIN outputs2 = 1 .. m + 1
      /\ outputs2[m + 1] = number /\ \A i \in 1 .. m : outputs2[i] = outputs[i]
  OBVIOUS
<1> HIDE DEF m
<1>2. \A i \in 1 .. m : outputs[i] \in Range(outputs) /\ T2[outputs2[i]] = T[outputs[i]]
  BY <1>1 DEF Range
<1>3. \A n \in Range(outputs2) : n \in Range(outputs) \/ n = number
  BY <1>1 DEF Range
<1>4. ASSUME NEW i \in DOMAIN outputs2, NEW j \in DOMAIN outputs2, i < j,
             NEW e \in T2[outputs2[i]], NEW f \in T2[outputs2[j]]
      PROVE  Less(e, f)
  <2>1. i \in 1 .. m /\ e \in T[outputs[i]]
    BY <1>1, <1>2, <1>4
  <2>2. CASE j = m + 1
    <3>1. f = x
      BY <1>1, <2>2
    <3> QED
      BY <1>2, <2>1, <3>1 DEF OutputsInOrder
  <2>3. CASE j # m + 1
    <3>1. j \in 1 .. m /\ f \in T[outputs[j]]
      BY <1>1, <1>2, <2>3
    <3> QED
      BY <1>1, <1>4, <2>1, <3>1 DEF OutputsInOrder
  <2> QED
    BY <2>2, <2>3
<1>5. ASSUME NEW n \in Range(outputs2), NEW e \in T2[n], NEW f \in left
      PROVE  Less(e, f)
  <2>1. CASE n \in Range(outputs)
    BY <2>1 DEF OutputsInOrder
  <2>2. CASE n = number
    BY <2>2
  <2> QED
    BY <1>3, <2>1, <2>2
<1> QED
  BY <1>4, <1>5 DEF OutputsInOrder

(* One round of the loop of a compaction.                                  *)
LEMMA CompactKeyKeepsOrder ==
  ASSUME LiveInv, OrderInv, NEW w \in work, CompactKey(w)
  PROVE  OrderInv'
<1> USE DEF clientVars, memVars, fileVars, versionVars, bgVars, callVars
<1> DEFINE ikey == Smallest(w.input)
           stop == ShouldStopBefore(w.c, w.scan, ikey)
           open == w.open /\ ~ stop.stop
           drop == Drop(w, ikey)
           number == IF open THEN Last(w.outputs) ELSE next_file_number
           entries == IF open THEN tables[number] \cup {ikey} ELSE {ikey}
           input == w.input \ {ikey}
           outputs == IF drop \/ open THEN w.outputs ELSE Append(w.outputs, number)
           opened == IF drop THEN open ELSE Cardinality(entries) < TargetFileSize
<1>1. /\ w.input # {} /\ flush = {} /\ flush' = {}
      /\ IF drop THEN tables' = tables ELSE tables' = WithTable(tables, number, entries)
      /\ UNCHANGED <<mem, imm, last_sequence, current, crossed, caller, events>>
  BY DEF CompactKey
<1>2. PICK v : /\ work' = {v}
               /\ "is_manual" \in DOMAIN w => "is_manual" \in DOMAIN v /\ v.is_manual = w.is_manual
               /\ v.c = w.c /\ v.input = input /\ v.outputs = outputs
  <2>1. PICK key, last, scan :
          work' = {[w EXCEPT !.input = input, !.key = key, !.last_sequence_for_key = last,
                             !.scan = scan, !.outputs = outputs, !.open = opened]}
    BY DEF CompactKey
  <2> HIDE DEF input, outputs, opened
  <2> DEFINE v == [w EXCEPT !.input = input, !.key = key, !.last_sequence_for_key = last,
                            !.scan = scan, !.outputs = outputs, !.open = opened]
  <2>2. {"c", "input", "outputs", "open"} \subseteq DOMAIN w
    BY DEF LiveInv, OutputsInv
  <2>3. /\ "is_manual" \in DOMAIN w => "is_manual" \in DOMAIN v /\ v.is_manual = w.is_manual
        /\ v.c = w.c /\ v.input = input /\ v.outputs = outputs
    BY <2>2
  <2> HIDE DEF v
  <2>4. work' = {v}
    BY <2>1 DEF v
  <2> QED
    BY <2>3, <2>4
<1>3. /\ Memtable(w.input) /\ w.outputs \in Seq(Nat) /\ (w.open => w.outputs # << >>)
      /\ \A n \in Range(w.outputs) :
            /\ n \in DOMAIN tables /\ n < next_file_number
            /\ \A u \in Referenced : n \notin NumbersIn(u)
      /\ work = {w}
  BY DEF LiveInv, OutputsInv
<1>4. /\ TablesRight(tables) /\ next_file_number \in Nat /\ VersionRight(current, tables)
      /\ \A n \in NumbersIn(current) : n < next_file_number
  BY DEF LiveInv, VersionsInv, Referenced
<1>5. ikey \in w.input /\ ikey \in IKeys /\ \A e \in input : Less(ikey, e)
  <2>1. w.input \subseteq IKeys
    BY <1>3, EntryIsIKey DEF Memtable
  <2>2. ikey \in w.input /\ \A e \in w.input : ~ Less(e, ikey)
    BY <1>1, <1>3, EndsOfTable
  <2> HIDE DEF ikey
  <2> QED
    BY <2>1, <2>2, LessFacts
<1> HIDE DEF ikey, stop, drop, input, opened
<1>6. /\ open => w.outputs # << >> /\ number \in Range(w.outputs) /\ number = Last(w.outputs)
      /\ ~ open => number = next_file_number
  <2> SUFFICES ASSUME open
               PROVE  w.outputs # << >> /\ Last(w.outputs) \in Range(w.outputs)
    BY DEF number
  <2>1. w.outputs \in Seq(Nat) /\ w.outputs # << >>
    BY <1>3
  <2>2. Len(w.outputs) \in DOMAIN w.outputs
    BY <2>1
  <2> QED
    BY <2>1, <2>2 DEF Range, Last
<1>7. number \in Nat /\ number \notin NumbersIn(current) /\ (~ open => number \notin Range(w.outputs))
  <2>1. CASE open
    BY <1>3, <1>6, <2>1, RangeFacts DEF Referenced
  <2>2. CASE ~ open
    <3>1. NumbersIn(current) \subseteq Nat /\ Range(w.outputs) \subseteq Nat
      BY <1>3, <1>4, FilesOfFacts, RangeFacts DEF TablesRight
    <3> QED
      BY <1>3, <1>4, <1>6, <2>2, <3>1
  <2> QED
    BY <2>1, <2>2
<1>8. \A n \in DOMAIN tables : n # number => tables'[n] = tables[n]
  BY <1>1 DEF WithTable
<1>9. ~ drop => tables'[number] = entries
  BY <1>1 DEF WithTable
<1>10. open => number \in DOMAIN tables
  BY <1>3, <1>6
<1>11. AgesInv' /\ CallerRange'
  <2>1. AgesInv /\ CallerRange
    BY DEF OrderInv
  <2>2. Stored' \subseteq Stored
    <3>1. w.input \subseteq Stored /\ \A n \in DOMAIN tables : tables[n] \subseteq Stored
      BY DEF Stored
    <3>2. entries \subseteq Stored
      BY <1>5, <1>10, <3>1
    <3>3. \A n \in DOMAIN tables' : tables'[n] \subseteq Stored
      <4> HIDE DEF entries, number
      <4> QED
        BY <1>1, <3>1, <3>2 DEF WithTable
    <3>4. UNION {tables'[n] : n \in DOMAIN tables'} \subseteq Stored
      BY <3>3
    <3>5. UNION {u.input : u \in work'} \subseteq Stored
      BY <1>2, <3>1 DEF input
    <3> QED
      BY <3>4, <3>5 DEF Stored
  <2>3. AgesInv'
    BY <1>1, <2>1, <2>2, CalmAges
  <2>4. CallerRange'
    BY <1>1, <2>1, SameCaller
  <2> QED
    BY <2>3, <2>4
<1>12. FlushBase'
  BY <1>1 DEF FlushBase
<1>13. \A n \in NumbersIn(current) : tables'[n] = tables[n]
  BY <1>4, <1>7, <1>8, FilesOfFacts
<1> HIDE DEF number, entries, open, outputs
<1>14. ASSUME ~ crossed
       PROVE  VersionOrder(current, tables') /\ "is_manual" \in DOMAIN v /\ WorkRight(v, current, tables')
  <2>1. /\ VersionOrder(current, tables) /\ "is_manual" \in DOMAIN w /\ WorkRight(w, current, tables)
    BY <1>14 DEF OrderInv
  <2>2. VersionOrder(current, tables')
    BY <1>13, <2>1, OrderStays
  <2> DEFINE c == w.c
             all == UNION {tables[f.number] : f \in InputFiles(c)}
  <2>3. /\ InputsRight(c, current, tables) /\ (~ w.is_manual => InputsApart(c, current))
        /\ OutputsRight(w, tables)
    BY <2>1 DEF WorkRight
  <2>4. /\ c.level \in Levels /\ Range(c.inputs[1]) \subseteq Range(current[c.level])
        /\ \A f \in InputFiles(c) : f.number \in NumbersIn(current)
    BY <2>3, InputsAreFiles
  <2>5. \A g \in Range(current[c.level]) : tables'[g.number] = tables[g.number]
    BY <1>13, <2>4, FilesAt
  <2>6. InputsRight(c, current, tables')
    BY <2>3, <2>4, <2>5 DEF InputsRight
  <2>7. UNION {tables'[f.number] : f \in InputFiles(c)} = all
    BY <1>13, <2>4
  <2>8. /\ w.input \subseteq all /\ \A n \in Range(w.outputs) : tables[n] \subseteq all
        /\ OutputsInOrder(tables, w.outputs, w.input)
    BY <2>3 DEF OutputsRight, OutputsInOrder
  <2> HIDE DEF all
  <2>9. input \subseteq all
    BY <2>8 DEF input
  <2>10. /\ \A n \in Range(outputs) : tables'[n] \subseteq all
         /\ OutputsInOrder(tables', outputs, input)
    <3>1. CASE drop
      <4>1. outputs = w.outputs /\ tables' = tables
        BY <1>1, <3>1 DEF outputs
      <4>2. OutputsInOrder(tables, w.outputs, input)
        BY <2>8 DEF OutputsInOrder, input
      <4> QED
        BY <2>8, <4>1, <4>2
    <3>2. CASE ~ drop /\ open
      <4>1. outputs = w.outputs /\ tables'[number] = tables[number] \cup {ikey}
        BY <1>9, <3>2 DEF outputs, entries
      <4>2. \A n \in Range(w.outputs) : n # number => tables'[n] = tables[n]
        BY <1>3, <1>8
      <4>3. \A n \in Range(w.outputs) : tables[n] # {} /\ tables[n] \subseteq IKeys
        BY <1>3, <1>4, EntryIsIKey DEF TablesRight, Memtable
      <4>4. OutputsInOrder(tables', w.outputs, input)
        BY <1>3, <1>5, <1>6, <2>8, <3>2, <4>1, <4>2, <4>3, OutputContinues DEF input
      <4>5. \A n \in Range(w.outputs) : tables'[n] \subseteq all
        BY <1>5, <2>8, <4>1, <4>2
      <4> QED
        BY <4>1, <4>4, <4>5
    <3>3. CASE ~ drop /\ ~ open
      <4>1. outputs = Append(w.outputs, number) /\ tables'[number] = {ikey}
        BY <1>9, <3>3 DEF outputs, entries
      <4>2. \A n \in Range(w.outputs) : tables'[n] = tables[n]
        BY <1>3, <1>7, <1>8, <3>3
      <4>3. OutputsInOrder(tables', outputs, input)
        BY <1>3, <1>5, <1>7, <2>8, <3>3, <4>1, <4>2, OutputOpens DEF input
      <4>4. \A n \in Range(outputs) : n \in Range(w.outputs) \/ n = number
        BY <1>3, <1>7, <4>1 DEF Range
      <4>5. \A n \in Range(outputs) : tables'[n] \subseteq all
        BY <1>5, <2>8, <4>1, <4>2, <4>4
      <4> QED
        BY <4>3, <4>5
    <3> QED
      BY <3>1, <3>2, <3>3
  <2>11. OutputsRight(v, tables')
    BY <1>2, <2>7, <2>9, <2>10 DEF OutputsRight, OutputsInOrder
  <2> QED
    BY <1>2, <2>1, <2>2, <2>3, <2>6, <2>11 DEF WorkRight
<1> QED
  BY <1>1, <1>2, <1>11, <1>12, <1>14 DEF OrderInv

(* The files of outputs that are in order lie apart.                       *)
LEMMA OutputsDisjoint ==
  ASSUME NEW T, TablesRight(T), NEW outputs \in Seq(Nat), \A n \in Range(outputs) : n \in DOMAIN T,
         \A i, j \in DOMAIN outputs : i < j =>
           \A e \in T[outputs[i]], f \in T[outputs[j]] : Less(e, f),
         NEW new, new = {TableFile(n, T[n]) : n \in Range(outputs)}
  PROVE  new \in SUBSET Files(T) /\ IsFiniteSet(new) /\ Disjoint(new)
<1>1. new \in SUBSET Files(T)
  BY DEF Files
<1>2. IsFiniteSet(new)
  <2> DEFINE made == [n \in Range(outputs) |-> TableFile(n, T[n])]
  <2>1. made \in Surjection(Range(outputs), new)
    BY DEF Surjection
  <2>2. IsFiniteSet(Range(outputs))
    BY RangeIsFinite
  <2> HIDE DEF made
  <2> QED
    BY <2>1, <2>2, FS_Surjection
<1>3. ASSUME NEW f \in new, NEW g \in new, f # g
      PROVE  Apart(f, g)
  <2>1. PICK n \in Range(outputs) : f = TableFile(n, T[n])
    OBVIOUS
  <2>2. PICK m \in Range(outputs) : g = TableFile(m, T[m])
    OBVIOUS
  <2>3. f.number = n /\ g.number = m /\ n # m
    BY <1>3, <2>1, <2>2 DEF TableFile, FileMetaData
  <2>4. PICK i \in DOMAIN outputs : outputs[i] = n
    BY DEF Range
  <2>5. PICK j \in DOMAIN outputs : outputs[j] = m
    BY DEF Range
  <2>6. i < j \/ j < i
    BY <2>3, <2>4, <2>5
  <2>7. /\ f.smallest \in T[n] /\ f.largest \in T[n]
        /\ g.smallest \in T[m] /\ g.largest \in T[m]
    BY <1>1, <2>3, FilesAreRanged
  <2>8. CASE i < j
    <3>1. Less(f.largest, g.smallest)
      BY <2>4, <2>5, <2>7, <2>8
    <3> QED
      BY <3>1 DEF Apart
  <2>9. CASE j < i
    <3>1. Less(g.largest, f.smallest)
      BY <2>4, <2>5, <2>7, <2>9
    <3> QED
      BY <3>1 DEF Apart
  <2> QED
    BY <2>6, <2>8, <2>9
<1> QED
  BY <1>1, <1>2, <1>3 DEF Disjoint

(* A compaction puts its outputs in the place of its inputs.               *)
LEMMA WorkInstallsKeepsOrder ==
  ASSUME LiveInv, OrderInv, NEW w \in work, WorkInstalls(w)
  PROVE  OrderInv'
<1> USE DEF clientVars, memVars, fileVars, versionVars, bgVars, callVars
<1> DEFINE c == w.c
           L == c.level
           pending == pending_outputs \ Range(w.outputs)
           added == {<<w.c.level + 1, TableFile(n, tables[n])>> : n \in Range(w.outputs)}
           edit == Edit(AddInputDeletions(w.c), added)
           version == ApplyEdit(current, edit)
<1>1. /\ flush = {} /\ flush' = {} /\ work' = {}
      /\ current' = version /\ tables' = Kept(tables, {current'}, pending, bg_error)
      /\ crossed' = (crossed \/ (w.is_manual /\ ~ LevelsDisjoint(current')))
      /\ UNCHANGED <<mem, imm, last_sequence, events>>
      /\ caller' = caller \/ caller' = [caller EXCEPT !.from = Last(w.c.inputs[1]).largest.key]
  BY DEF WorkInstalls, FinishWork, Install
<1>2. /\ TablesRight(tables) /\ VersionRight(current, tables)
      /\ w.outputs \in Seq(Nat)
      /\ \A n \in Range(w.outputs) : n \in DOMAIN tables /\ n \notin NumbersIn(current)
  BY DEF LiveInv, VersionsInv, OutputsInv, Referenced
<1> HIDE DEF pending, version
<1>3. /\ TablesRight(tables') /\ DOMAIN tables' \subseteq DOMAIN tables
      /\ \A n \in DOMAIN tables' : tables'[n] = tables[n]
      /\ \A v \in {current'} : \A n \in NumbersIn(v) : n \in DOMAIN tables => n \in DOMAIN tables'
  <2> DEFINE versions == {current'}
  <2>1. tables' = Kept(tables, versions, pending, bg_error)
    BY <1>1
  <2> HIDE DEF versions
  <2>2. /\ TablesRight(tables') /\ DOMAIN tables' \subseteq DOMAIN tables
        /\ \A n \in DOMAIN tables' : tables'[n] = tables[n]
        /\ \A v \in versions : \A n \in NumbersIn(v) : n \in DOMAIN tables => n \in DOMAIN tables'
    BY <1>2, <2>1, KeptFacts
  <2> QED
    BY <2>2 DEF versions
<1>4. AgesInv'
  <2>1. \A n \in DOMAIN tables' : tables'[n] \subseteq Stored
    BY <1>3 DEF Stored
  <2>2. UNION {tables'[n] : n \in DOMAIN tables'} \subseteq Stored
    BY <2>1
  <2>3. Stored' \subseteq Stored
    BY <1>1, <2>2 DEF Stored
  <2> QED
    BY <1>1, <2>3, CalmAges DEF OrderInv
<1>5. FlushBase'
  BY <1>1 DEF FlushBase
<1>6. CASE crossed
  <2>1. crossed'
    BY <1>1, <1>6
  <2>2. CallerRange /\ CallerRange'
    BY <1>1, <2>1 DEF OrderInv, CallerRange
  <2> QED
    BY <1>4, <1>5, <2>1, <2>2 DEF OrderInv
<1>7. CASE ~ crossed
  <2> DEFINE T == tables
             v == current
             first == Range(c.inputs[1])
             second == Range(c.inputs[2])
             files == first \cup second
             new == {TableFile(n, T[n]) : n \in Range(w.outputs)}
  <2>1. VersionOrder(v, T) /\ WorkRight(w, v, T)
    BY <1>7 DEF OrderInv
  <2>2. /\ InputsRight(c, v, T) /\ (~ w.is_manual => InputsApart(c, v)) /\ OutputsRight(w, T)
    BY <2>1 DEF WorkRight
  <2>3. /\ L \in 0 .. kNumLevels - 2 /\ L \in Levels /\ L + 1 \in Levels
        /\ c.inputs[1] \in Seq(Range(v[L])) /\ c.inputs[1] # << >> /\ c.inputs[2] \in Seq(Range(v[L + 1]))
        /\ first \in SUBSET Range(v[L]) /\ second \in SUBSET Range(v[L + 1])
        /\ \A f \in files : f.number \in NumbersIn(v)
        /\ TakenAreOlder(v, T, L, first)
    BY <2>2, InputsAreFiles, LevelsAreNumbers DEF InputsRight, InputFiles, TakenAreOlder
  <2>4. CallerRange'
    <3>1. CallerRange
      BY DEF OrderInv
    <3>2. Last(c.inputs[1]) \in Files(T)
      <4>1. Range(v[L]) \subseteq Files(T)
        BY <1>2, <2>3, FilesAtLevel
      <4>2. Last(c.inputs[1]) \in Range(v[L])
        BY <2>3 DEF Last
      <4> QED
        BY <4>1, <4>2
    <3>3. Last(c.inputs[1]).largest.key \in Nat
      BY <1>2, <3>2, FilesAreRanged DEF Ranged, IKeys
    <3> HIDE DEF T, v, first, second, files, new
    <3> QED
      BY <1>1, <1>7, <3>1, <3>3 DEF CallerRange
  <2>5. new \in SUBSET Files(T) /\ IsFiniteSet(new) /\ Disjoint(new)
    BY <1>2, <2>2, OutputsDisjoint DEF OutputsRight
  <2>6. MadeFrom(T, new, files)
    <3>1. \A n \in Range(w.outputs) : T[n] \subseteq UNION {T[f.number] : f \in files}
      BY <2>2 DEF OutputsRight, InputFiles
    <3>2. \A n : TableFile(n, T[n]).number = n
      BY DEF TableFile, FileMetaData
    <3> QED
      BY <3>1, <3>2 DEF MadeFrom, EntriesIn
  <2>7. Replaces(edit, L, first, second, new)
    <3>1. edit.deleted = AddInputDeletions(c) /\ edit.added = added
      BY DEF Edit
    <3>2. added = {<<L + 1, n>> : n \in new}
      OBVIOUS
    <3>3. \A n \in new, f \in second : n.number # f.number
      <4>1. \A n : TableFile(n, T[n]).number = n
        BY DEF TableFile, FileMetaData
      <4> QED
        BY <1>2, <2>3, <4>1
    <3> HIDE DEF edit, added, new
    <3> QED
      BY <3>1, <3>2, <3>3 DEF Replaces, AddInputDeletions
  <2> HIDE DEF T, v, first, second, files, new, L, edit
  <2>8. VersionRight(version, T) /\ Replaced(v, version, L, first, second, new)
    <3>1. version = ApplyEdit(v, edit)
      BY DEF version, edit, v
    <3> QED
      BY <1>2, <2>3, <2>5, <2>7, <3>1, ReplacedVersion DEF T, v
  <2>9. AgesInOrder(version, T)
    <3>1. MadeFrom(T, new, first \cup second) /\ AgesInOrder(v, T)
      BY <2>1, <2>6 DEF VersionOrder, files
    <3> QED
      BY <2>3, <2>8, <3>1, ReplacedAges
  <2>10. ASSUME ~ crossed'
         PROVE  \A l \in Levels \ {0} : Disjoint(Range(version[l]))
    <3>1. CASE w.is_manual
      <4>1. LevelsDisjoint(version)
        BY <1>1, <2>10, <3>1
      <4> QED
        BY <1>2, <2>8, <4>1, DisjointVersion DEF T
    <3>2. CASE ~ w.is_manual
      <4>1. \A g \in Range(v[L + 1]) \ second : OneSide(g, files)
        BY <2>2, <3>2 DEF InputsApart, InputFiles, L, second, files, first
      <4>2. \A l \in Levels \ {0} : Disjoint(Range(v[l]))
        BY <2>1 DEF VersionOrder
      <4>3. files = first \cup second
        BY DEF files
      <4>4. TablesRight(T) /\ VersionRight(v, T)
        BY <1>2 DEF T, v
      <4> QED
        BY <2>3, <2>5, <2>6, <2>8, <4>1, <4>2, <4>3, <4>4, ReplacedDisjoint
    <3> QED
      BY <3>1, <3>2
  <2>11. \A n \in NumbersIn(version) : tables'[n] = tables[n]
    <3>1. NumbersIn(version) \subseteq DOMAIN tables
      BY <1>2, <2>8, FilesOfFacts DEF T
    <3> QED
      BY <1>1, <1>3, <3>1
  <2>12. ASSUME ~ crossed'
         PROVE  VersionOrder(version, tables')
    <3>1. VersionOrder(version, tables)
      BY <2>9, <2>10, <2>12 DEF VersionOrder, T
    <3> QED
      BY <2>11, <3>1, OrderStays
  <2> QED
    BY <1>1, <1>4, <1>5, <2>4, <2>12 DEF OrderInv
<1> QED
  BY <1>6, <1>7

(* All that the background thread does.                                    *)
LEMMA BackgroundKeepsOrder ==
  ASSUME LiveInv, OrderInv, Background
  PROVE  OrderInv'
<1>1. CASE FlushBegins
  BY <1>1, FlushBeginKeepsOrder
<1>2. CASE \E fl \in flush : FlushInstalls(fl) \/ FlushFails(fl)
  BY <1>2, FlushInstallsKeepsOrder, FlushFailKeepsOrder
<1>3. CASE BackgroundIdles \/ NothingToCompact
  BY <1>3, IdleKeepsOrder
<1>4. CASE \E c \in Picked : TrivialMove(c) \/ DoCompactionWork(c)
  BY <1>4, TrivialMoveKeepsOrder, WorkStartKeepsOrder
<1>5. CASE \E w \in work : CompactKey(w) \/ WorkInstalls(w) \/ WorkFails(w)
  BY <1>5, CompactKeyKeepsOrder, WorkInstallsKeepsOrder, WorkFailKeepsOrder
<1> QED
  BY <1>1, <1>2, <1>3, <1>4, <1>5 DEF Background

(* A recovered database is in order, as the run that left it kept it.      *)
LEMMA RecoveredInOrder ==
  ASSUME Init
  PROVE  OrderInv
<1>1. PICK db \in Recovered :
        /\ tables = db.tables /\ current = VersionOf(db)
        /\ last_sequence = db.last_sequence
  BY DEF Init
<1>2. /\ mem = {} /\ imm = {} /\ flush = {} /\ work = {} /\ events = 0
      /\ caller = [pc |-> "idle", level |-> 0, max |-> 1, begin |-> 0, end |-> 0,
                   from |-> 0, done |-> FALSE]
  BY DEF Init
<1>3. LevelsDisjoint(current) /\ AgesInOrder(current, tables)
  BY <1>1, RecoveredAssumption
<1>4. TablesRight(tables) /\ VersionRight(current, tables)
  BY RecoveredIsLive DEF LiveInv, VersionsInv, Referenced
<1>5. VersionOrder(current, tables)
  BY <1>3, <1>4, DisjointVersion DEF VersionOrder
<1>6. mem \cup Aside \cup Stored = UNION Range(db.tables) /\ Aside = {}
  <2>1. Aside = {} /\ UNION {w.input : w \in work} = {}
    BY <1>2 DEF Aside
  <2>2. UNION {tables[n] : n \in DOMAIN tables} = UNION Range(db.tables)
    BY <1>1 DEF Range
  <2> QED
    BY <1>2, <2>1, <2>2 DEF Stored
<1>7. AgesInv
  <2>1. events \in 0 .. MaxEvents /\ last_sequence + MaxEvents < kMaxSequenceNumber + events
    BY <1>1, <1>2, CompactionAssumption
  <2>2. /\ \A e \in UNION Range(db.tables) : e.seq <= last_sequence
        /\ \A e, f \in UNION Range(db.tables) : e.key = f.key /\ e.seq = f.seq => e = f
    BY <1>1, RecoveredAssumption
  <2> QED
    BY <1>2, <1>6, <2>1, <2>2 DEF AgesInv
<1>8. FlushBase /\ CallerRange
  BY <1>2 DEF FlushBase, CallerRange
<1> QED
  BY <1>2, <1>5, <1>7, <1>8 DEF OrderInv

(* The invariant holds of every reachable state.                           *)
LEMMA OrderHolds == Spec => []OrderInv
<1>1. LiveInv /\ OrderInv /\ [Next]_vars => OrderInv'
  <2>1. ASSUME LiveInv, OrderInv, UNCHANGED vars
        PROVE  OrderInv'
    <3>1. UNCHANGED <<mem, imm, last_sequence, tables, current, flush, work, caller, crossed, events>>
      BY <2>1 DEF vars, clientVars, memVars, fileVars, versionVars, bgVars, callVars
    <3>2. CallerRange'
      BY <2>1, <3>1, SameCaller DEF OrderInv
    <3> QED
      BY <2>1, <3>1, <3>2, QuietStep
  <2> QED
    BY <2>1, ClientKeepsOrder, CallerKeepsOrder, BackgroundKeepsOrder DEF Next
<1>2. Init => OrderInv
  BY RecoveredInOrder
<1> QED
  BY <1>1, <1>2, LiveHolds, PTL DEF Spec

(* What the searches of a level and the order of lookups count on (the     *)
(* comments in Version::Get and the check in SaveTo): whatever is written, *)
(* flushed, moved down, merged, failed or asked for between the steps, the *)
(* files of a level above 0 do not overlap, and what a level holds of a    *)
(* key is newer than what the levels below it hold, so long as no range    *)
(* compaction has laid an output across a file flushed meanwhile.          *)
THEOREM VersionsStayInOrder == Spec => []VersionsInOrder
<1>1. LiveInv /\ OrderInv /\ DBTypeOK => VersionsInOrder
  <2> SUFFICES ASSUME LiveInv, OrderInv, DBTypeOK
               PROVE  VersionsInOrder
    OBVIOUS
  <2>1. TablesRight(tables) /\ VersionRight(current, tables)
    BY DEF LiveInv, VersionsInv, Referenced
  <2>2. ~ crossed => VersionOrder(current, tables)
    BY DEF OrderInv
  <2>3. NoOverlap
    BY <2>1, <2>2, DisjointVersion DEF NoOverlap, VersionOrder
  <2>4. ASSUME NEW m \in imm, NEW level \in Levels
        PROVE  Newer(m, EntriesAt(current, tables, level))
    <3>1. \A e \in m : \A f \in EntriesAt(current, tables, level) : f.seq < e.seq
      BY <2>1, <2>4, AsideIsNewer DEF OrderInv
    <3>2. \A e \in m : e.seq \in Nat
      BY DEF LiveInv, MemInv, Memtable, Entry
    <3>3. \A f \in EntriesAt(current, tables, level) : f.seq \in Nat
      <4> TAKE f \in EntriesAt(current, tables, level)
      <4>1. PICK g \in Range(current[level]) : f \in tables[g.number]
        BY DEF EntriesAt
      <4>2. g.number \in DOMAIN tables
        BY <2>1, <4>1, FilesAtLevel
      <4> QED
        BY <2>1, <4>1, <4>2 DEF TablesRight, Memtable, Entry
    <3> QED
      BY <3>1, <3>2, <3>3 DEF Newer
  <2>5. NewerAbove
    BY <2>2, <2>4 DEF NewerAbove, VersionOrder
  <2> QED
    BY <2>3, <2>5 DEF VersionsInOrder
<1> QED
  BY <1>1, OrderHolds, LiveHolds, LevelsStaySorted, PTL

=============================================================================
