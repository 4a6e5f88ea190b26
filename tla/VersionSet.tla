----------------------------- MODULE VersionSet -----------------------------
(***************************************************************************)
(* The decisions of leveldb's db/version_set.cc as operators on versions.  *)
(* A version maps each level to its sequence of files; a file has a        *)
(* number, a size and the range of internal keys in its table.  Pointers   *)
(* to a key that may be null are user keys here: 0 stands for "before all  *)
(* keys", and a key no file holds for "after all keys".                    *)
(***************************************************************************)
EXTENDS InternalKeys, Sequences, SequencesExt, FiniteSets

CONSTANTS kNumLevels, kMaxMemCompactLevel, kL0_CompactionTrigger,
          TargetFileSize,              \* options->max_file_size
          MaxBytesForLevel,            \* for each level above 0
          GrandParentFactor, ExpandedFactor

Levels == 0 .. kNumLevels - 1

MaxGrandParentOverlapBytes == GrandParentFactor * TargetFileSize
ExpandedCompactionByteSizeLimit == ExpandedFactor * TargetFileSize

FileMetaData(number, size, smallest, largest) ==
  [number |-> number, size |-> size, smallest |-> smallest, largest |-> largest]

FilesOf(version) == UNION {Range(version[level]) : level \in Levels}
AddLiveFiles(versions) == {f.number : f \in UNION {FilesOf(v) : v \in versions}}

TotalFileSize(files) ==
  LET sum[n \in 0 .. Len(files)] == IF n = 0 THEN 0 ELSE sum[n - 1] + files[n].size
  IN  sum[Len(files)]

(* The elements of a finite set in the order Before, which is strict and   *)
(* total on it; and what a sequence has at some of its places.             *)
InOrder(S, Before(_, _)) ==
  [i \in 1 .. Cardinality(S) |-> CHOOSE x \in S : Cardinality({y \in S : Before(y, x)}) = i - 1]
AtPlaces(files, places) ==
  LET at == InOrder(places, LAMBDA i, j : i < j) IN [n \in DOMAIN at |-> files[at[n]]]

-----------------------------------------------------------------------------
(* Finding files.                                                          *)

(* The binary search for the first file whose largest key is not below     *)
(* target, as an index from 0; Len(files) when there is none.  What is     *)
(* left of the range of the search after each round of the loop, of which  *)
(* there are at most as many as files.                                     *)
FindFile(files, target) ==
  LET narrowed[n \in 0 .. Len(files)] ==
        IF n = 0 THEN [left |-> 0, right |-> Len(files)]
        ELSE LET range == narrowed[n - 1]
                 mid == (range.left + range.right) \div 2
             IN  IF range.left >= range.right THEN range
                 ELSE IF Less(files[mid + 1].largest, target)
                      THEN [left |-> mid + 1, right |-> range.right]
                      ELSE [left |-> range.left, right |-> mid]
  IN  narrowed[Len(files)].right

AfterFile(user_key, f) == user_key > f.largest.key
BeforeFile(user_key, f) == user_key < f.smallest.key

SomeFileOverlapsRange(disjoint, files, smallest, largest) ==
  IF disjoint
  THEN LET index == FindFile(files, Earliest(smallest))
       IN  index < Len(files) /\ ~ BeforeFile(largest, files[index + 1])
  ELSE \E f \in Range(files) : ~ AfterFile(smallest, f) /\ ~ BeforeFile(largest, f)

OverlapInLevel(version, level, smallest, largest) ==
  SomeFileOverlapsRange(level > 0, version[level], smallest, largest)

(* The files a lookup reads, in order: those of level 0 from the newest,   *)
(* then at most one of each other level.                                   *)
FilesFor(version, user_key, target) ==
  LET zero == {f \in Range(version[0]) : ~ AfterFile(user_key, f) /\ ~ BeforeFile(user_key, f)}
      newest == InOrder(zero, LAMBDA f, g : f.number > g.number)
      place(level) == FindFile(version[level], target) + 1
      deeper == {level \in 1 .. kNumLevels - 1 :
                   /\ place(level) \in DOMAIN version[level]
                   /\ ~ BeforeFile(user_key, version[level][place(level)])}
      levels == InOrder(deeper, LAMBDA a, b : a < b)
  IN  [i \in DOMAIN newest |-> [level |-> 0, file |-> newest[i]]]
      \o [i \in DOMAIN levels |->
            [level |-> levels[i], file |-> version[levels[i]][place(levels[i])]]]

(* Version::Get: the first file that has an entry for the key ends the     *)
(* search; the answer is that entry, or nothing, and the file charged when *)
(* more than one was read.  tables maps a file number to its entries.      *)
VersionGet(version, tables, user_key, sequence) ==
  LET files == FilesFor(version, user_key, LookupKey(user_key, sequence))
      hits == {i \in DOMAIN files : Find(tables[files[i].file.number], user_key, sequence) # {}}
      last == IF hits = {} THEN Len(files) ELSE CHOOSE i \in hits : \A j \in hits : i <= j
  IN  [found |-> IF hits = {} THEN {}
                 ELSE Find(tables[files[last].file.number], user_key, sequence),
       charged |-> IF last >= 2 THEN {files[1]} ELSE {}]

(* Version::RecordReadSample with ForEachOverlapping: the file charged.    *)
ReadSample(version, ikey) ==
  LET files == FilesFor(version, ikey.key, ikey)
  IN  IF Len(files) >= 2 THEN {files[1]} ELSE {}

(* The files of a level from the first that may hold keys at or after      *)
(* target, and the entries met in each: target is sought in the first one. *)
LevelFileNumIterator(files, target) == SubSeq(files, FindFile(files, target) + 1, Len(files))
GetFileIterator(entries, target) == {e \in entries : ~ Less(e, target)}
NewConcatenatingIterator(files, tables, target) ==
  LET from == LevelFileNumIterator(files, target) IN
  [i \in DOMAIN from |-> IF i > 1 THEN tables[from[i].number]
                         ELSE GetFileIterator(tables[from[i].number], target)]

(* Mutant: level 0 is read like the others.                                *)
AddIteratorsConcatenated(version, tables, target) ==
  {NewConcatenatingIterator(version[level], tables, target) : level \in Levels}

(* What the iterators on a version meet from target on.                    *)
AddIterators(version, tables, target) ==
  {<<GetFileIterator(tables[f.number], target)>> : f \in Range(version[0])}
    \cup {NewConcatenatingIterator(version[level], tables, target) : level \in Levels \ {0}}

(* Mutant: a file that the key falls into is counted whole.                *)
ApproximateOffsetOfWhole(version, tables, ikey) ==
  MapThenSumSet(LAMBDA f : f.size, {f \in FilesOf(version) : ~ Less(ikey, f.smallest)})

(* The bytes before a key; a table's entries have size 1.  The scan of a   *)
(* level above 0 ends at the first file after the key.                     *)
ApproximateOffsetOf(version, tables, ikey) ==
  LET scanned(level) ==
        {f \in Range(version[level]) : level = 0 \/ ~ Less(ikey, f.smallest)}
      before(f) == IF ~ Less(ikey, f.largest) THEN f.size
                   ELSE Cardinality({e \in tables[f.number] : Less(e, ikey)})
  IN  MapThenSumSet(before, UNION {scanned(level) : level \in Levels})

-----------------------------------------------------------------------------
(* Choosing the inputs of a compaction.                                    *)

Overlapping(files, begin, end) ==
  AtPlaces(files, {i \in DOMAIN files : ~ AfterFile(begin, files[i]) /\ ~ BeforeFile(end, files[i])})

LeastOf(S) == CHOOSE x \in S : \A y \in S : x <= y
GreatestOf(S) == CHOOSE x \in S : \A y \in S : x >= y

(* At level 0 a file found may widen the range, and the search restarts:   *)
(* it ends at the least range that cuts no file.                           *)
GetOverlappingInputs(version, level, begin, end) ==
  LET files == version[level]
      grown[n \in 0 .. Len(files)] ==
        IF n = 0 THEN <<begin, end>>
        ELSE LET r == grown[n - 1]
                 hits == Range(Overlapping(files, r[1], r[2]))
             IN  <<LeastOf({r[1]} \cup {f.smallest.key : f \in hits}),
                   GreatestOf({r[2]} \cup {f.largest.key : f \in hits})>>
      range == IF level = 0 THEN grown[Len(files)] ELSE <<begin, end>>
  IN  Overlapping(files, range[1], range[2])

(* Mutant: overlapping files at the next level are not looked for.         *)
PickLevelTooDeep(version, smallest, largest) ==
  IF OverlapInLevel(version, 0, smallest, largest) THEN 0 ELSE kMaxMemCompactLevel

PickLevelForMemTableOutput(version, smallest, largest) ==
  LET stops(level) ==
        \/ level = kMaxMemCompactLevel
        \/ OverlapInLevel(version, level + 1, smallest, largest)
        \/ /\ level + 2 < kNumLevels
           /\ TotalFileSize(GetOverlappingInputs(version, level + 2, smallest, largest))
                > MaxGrandParentOverlapBytes
  IN  IF OverlapInLevel(version, 0, smallest, largest) THEN 0
      ELSE CHOOSE level \in 0 .. kMaxMemCompactLevel :
             stops(level) /\ \A l \in 0 .. level - 1 : ~ stops(l)

(* The least smallest and the greatest largest key of some files.          *)
GetRange(inputs) ==
  LET S == Range(inputs) IN
  [smallest |-> (CHOOSE f \in S : \A g \in S : ~ Less(g.smallest, f.smallest)).smallest,
   largest |-> (CHOOSE f \in S : \A g \in S : ~ Less(f.largest, g.largest)).largest]

GetRange2(inputs1, inputs2) == GetRange(inputs1 \o inputs2)

FindSmallestBoundaryFile(files, largest_key) ==
  LET bounds == {f \in Range(files) : /\ Less(largest_key, f.smallest)
                                      /\ f.smallest.key = largest_key.key}
  IN  {f \in bounds : \A g \in bounds : ~ Less(g.smallest, f.smallest)}

(* Files that go on with the last user key of the inputs are added one by  *)
(* one; each step uses the largest key of the file added last.             *)
AddBoundaryInputs(files, inputs) ==
  LET added[n \in 0 .. Len(files)] ==
        IF n = 0 THEN inputs
        ELSE LET before == added[n - 1]
                 key == IF before = inputs THEN GetRange(inputs).largest
                        ELSE Last(before).largest
                 more == FindSmallestBoundaryFile(files, key)
             IN  IF more = {} THEN before ELSE Append(before, CHOOSE f \in more : TRUE)
  IN  IF inputs = << >> THEN inputs ELSE added[Len(files)]

InputsOver(version, level, range) ==
  GetOverlappingInputs(version, level, range.smallest.key, range.largest.key)

(* level_, inputs_, input_version_ and grandparents_, and the compaction   *)
(* pointer that goes with the inputs.                                      *)
Compaction(version, level, first, second, grandparents) ==
  [level |-> level, inputs |-> <<first, second>>, version |-> version,
   grandparents |-> grandparents, pointer |-> GetRange(first).largest]

WithGrandparents(version, level, first, second) ==
  Compaction(version, level, first, second,
             IF level + 2 < kNumLevels
             THEN InputsOver(version, level + 2, GetRange2(first, second)) ELSE << >>)

(* The inputs are expanded when it costs nothing at the next level.        *)
Expanded(version, level, inputs0, inputs1) ==
  LET expanded0 == AddBoundaryInputs(version[level],
                     InputsOver(version, level, GetRange2(inputs0, inputs1)))
      expanded1 == InputsOver(version, level + 1, GetRange(expanded0))
      expand == /\ inputs1 # << >>
                /\ Len(expanded0) > Len(inputs0)
                /\ TotalFileSize(inputs1) + TotalFileSize(expanded0)
                     < ExpandedCompactionByteSizeLimit
                /\ Len(expanded1) = Len(inputs1)
  IN  IF expand THEN WithGrandparents(version, level, expanded0, expanded1)
      ELSE WithGrandparents(version, level, inputs0, inputs1)

(* The boundary files, the files of the next level, the expansion, the     *)
(* grandparents and the new compaction pointer.                            *)
SetupOtherInputs(version, level, picked) ==
  LET with(inputs0) ==
        Expanded(version, level, inputs0, InputsOver(version, level + 1, GetRange(inputs0)))
  IN  with(AddBoundaryInputs(version[level], picked))

-----------------------------------------------------------------------------
(* Choosing a compaction.  Each operator returns a set of at most one.     *)

(* A level's score as a fraction, and the first level with the highest:    *)
(* compaction_level_.                                                      *)
Score(version, level) ==
  IF level = 0 THEN <<Len(version[0]), kL0_CompactionTrigger>>
  ELSE <<TotalFileSize(version[level]), MaxBytesForLevel[level]>>

Finalize(version) ==
  LET above(a, b) == Score(version, a)[1] * Score(version, b)[2]
                       > Score(version, b)[1] * Score(version, a)[2]
  IN  {a \in 0 .. kNumLevels - 2 :
         \A b \in 0 .. kNumLevels - 2 : ~ above(b, a) /\ (b < a => above(a, b))}

(* compaction_score_ >= 1                                                  *)
SizeIsDue(version) ==
  \E level \in Finalize(version) : Score(version, level)[1] >= Score(version, level)[2]

(* file_to_compact is the file charged with too many seeks, if any.        *)
NeedsCompaction(version, file_to_compact) == SizeIsDue(version) \/ file_to_compact # {}

(* compact_pointer maps a level to the key its last compaction ended at,   *)
(* as a set of at most one.  The first file after it is picked, or the     *)
(* first of the level.                                                     *)
PickCompaction(version, compact_pointer, file_to_compact) ==
  LET setup(level, file) ==
        SetupOtherInputs(version, level,
          IF level = 0 THEN InputsOver(version, 0, GetRange(<<file>>)) ELSE <<file>>)
      after(level) == {i \in DOMAIN version[level] :
                         \A p \in compact_pointer[level] : Less(p, version[level][i].largest)}
      next(level) == version[level][IF after(level) = {} THEN 1 ELSE LeastOf(after(level))]
  IN  IF SizeIsDue(version) THEN {setup(level, next(level)) : level \in Finalize(version)}
      ELSE {setup(c.level, c.file) : c \in file_to_compact}

(* A range of a level above 0 is cut after the first file that fills it.   *)
CompactRange(version, level, begin, end) ==
  LET inputs == GetOverlappingInputs(version, level, begin, end)
      full == {i \in DOMAIN inputs : TotalFileSize(SubSeq(inputs, 1, i)) >= TargetFileSize}
      cut == IF level > 0 /\ full # {} THEN SubSeq(inputs, 1, LeastOf(full)) ELSE inputs
  IN  IF inputs = << >> THEN {} ELSE {SetupOtherInputs(version, level, cut)}

IsTrivialMove(c) ==
  /\ Len(c.inputs[1]) = 1 /\ Len(c.inputs[2]) = 0
  /\ TotalFileSize(c.grandparents) <= MaxGrandParentOverlapBytes

(* No file of a level below the outputs holds the key's range: asked for   *)
(* ascending keys, so the pointers level_ptrs_ skip only files before it.  *)
IsBaseLevelForKey(c, user_key) ==
  \A level \in c.level + 2 .. kNumLevels - 1 : \A f \in Range(c.version[level]) :
     AfterFile(user_key, f) \/ BeforeFile(user_key, f)

(* The grandparents passed since the last stop: where the scan stands, the *)
(* bytes it has passed, and whether the output is to be closed.            *)
ShouldStopBefore(c, scan, ikey) ==
  LET passed == {i \in scan.index + 1 .. Len(c.grandparents) :
                   \A j \in scan.index + 1 .. i : Less(c.grandparents[j].largest, ikey)}
      index == scan.index + Cardinality(passed)
      bytes == scan.bytes + IF scan.seen
                            THEN TotalFileSize(SubSeq(c.grandparents, scan.index + 1, index))
                            ELSE 0
      stop == bytes > MaxGrandParentOverlapBytes
  IN  [scan |-> [index |-> index, seen |-> TRUE, bytes |-> IF stop THEN 0 ELSE bytes],
       stop |-> stop]

-----------------------------------------------------------------------------
(* Edits.                                                                  *)

(* A VersionEdit's changes to the files: sets of <<level, number>> and of  *)
(* <<level, file>>.                                                        *)
Edit(deleted, added) == [deleted |-> deleted, added |-> added]

AddInputDeletions(c) ==
  {<<c.level, f.number>> : f \in Range(c.inputs[1])}
    \cup {<<c.level + 1, f.number>> : f \in Range(c.inputs[2])}

(* A VersionSet::Builder that has seen no edit yet.                        *)
Builder == [deleted |-> {}, added |-> {}]

(* VersionSet::Builder::Apply, from what earlier edits left.               *)
Apply(builder, edit) ==
  [deleted |-> (builder.deleted \cup edit.deleted)
                 \ {<<a[1], a[2].number>> : a \in edit.added},
   added |-> builder.added \cup edit.added]

BySmallestKey(f, g) ==
  Less(f.smallest, g.smallest) \/ (f.smallest = g.smallest /\ f.number < g.number)

(* Mutant: added files go to the front.                                    *)
SaveToFront(base, builder) ==
  [level \in Levels |->
     SetToSeq({a[2] : a \in {b \in builder.added : b[1] = level}})
       \o AtPlaces(base[level], {i \in DOMAIN base[level] :
                                   <<level, base[level][i].number>> \notin builder.deleted})]

(* SaveTo merges the added files into those of the base and leaves out the *)
(* deleted ones.                                                           *)
SaveTo(base, builder) ==
  [level \in Levels |->
     InOrder({f \in Range(base[level]) \cup {a[2] : a \in {b \in builder.added : b[1] = level}} :
                <<level, f.number>> \notin builder.deleted},
             BySmallestKey)]

(* What SaveTo checks in a debug build: no overlap in levels above 0.      *)
LevelsDisjoint(version) ==
  \A level \in Levels \ {0} : \A i, j \in DOMAIN version[level] :
    i < j => Less(version[level][i].largest, version[level][j].smallest)

ApplyEdit(base, edit) == SaveTo(base, Apply(Builder, edit))

=============================================================================
