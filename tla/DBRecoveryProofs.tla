--------------------------- MODULE DBRecoveryProofs ---------------------------
(***************************************************************************)
(* What DBRecovery shows on a small instance, for any number of writes,    *)
(* crashes and failures: a database whose logs and manifests are not       *)
(* reused (options_.reuse_logs is off, its default) can be opened at every *)
(* moment and loses nothing that was promised.                             *)
(***************************************************************************)
EXTENDS DBRecovery, SequenceTheorems, FiniteSetTheorems, WellFoundedInduction, TLAPS

-----------------------------------------------------------------------------
(* The inductive invariant.                                                *)

Entry == Nat \X Nat
EditType == [deleted : SUBSET Nat, added : SUBSET Nat, log : SUBSET Nat, next : SUBSET Nat,
             sequence : SUBSET Nat]
Wholes(data) == {Whole(d) : d \in data}
File(data) == [records : Seq({Torn} \cup Wholes(data)), synced : Nat]
VersionsType == [files : SUBSET Nat, log_number : Nat, next_file : Nat, last_sequence : Nat,
                 manifest : Nat, open : BOOLEAN]

TypeInv ==
  /\ CURRENT \in Nat
  /\ DOMAIN manifests \subseteq Nat /\ manifests \in [DOMAIN manifests -> File(EditType)]
  /\ DOMAIN logs \subseteq Nat /\ logs \in [DOMAIN logs -> File(Entry)]
  /\ DOMAIN tables \subseteq Nat /\ tables \in [DOMAIN tables -> SUBSET Entry]
  /\ pc \in {"down", "newdb", "open", "logs", "save", "up", "failed"}
  /\ vs \in VersionsType
  /\ ~ reuse /\ todo \in SUBSET Nat /\ edit \in EditType
  /\ mem \in SUBSET Entry /\ (imm = {} \/ \E m \in SUBSET Entry : imm = {m})
  /\ logfile \in Nat /\ flushing \in Nat
  /\ apply \in {"none", "create", "append", "sync", "current", "install"}
  /\ record \in EditType
  /\ collect \in BOOLEAN /\ bg_error \in BOOLEAN
  /\ written \in SUBSET Entry /\ synced \in SUBSET Entry /\ incarnation \in Nat

FilesInv ==
  /\ \A n \in DOMAIN manifests : manifests[n].synced <= Len(manifests[n].records)
  /\ \A n \in DOMAIN logs : logs[n].synced <= Len(logs[n].records)

AllWhole(file) == \A i \in 1 .. Len(file.records) : file.records[i].whole

(* What the manifest in use may say after a crash.                         *)
SavedAfter(file) == {Replay(Records(left)) : left \in LeftOf(file)}
Survivors == SavedAfter(manifests[CURRENT])

(* The entries of a log that a crash of the machine leaves at least.       *)
SyncedPart(file) == [file EXCEPT !.records = SubSeq(file.records, 1, file.synced)]
KeptEntries(n) == Range(Records(SyncedPart(logs[n])))

(* What Open finds, and what it finds at least after a crash.              *)
Found(state) ==
  EntriesIn(state.added) \cup UNION {LogEntries(n) : n \in LogsFrom(The(state.log))}
FoundSynced(state) ==
  EntriesIn(state.added) \cup UNION {KeptEntries(n) : n \in LogsFrom(The(state.log))}

Unique(entries) == \A e, f \in entries : e[1] = f[1] => e = f
UpTo(entries, sequence) == \A e \in entries : e[1] <= sequence

(* The fields are there, and the numbers are above all that are in use.    *)
Fields(state) ==
  \E log, next, sequence \in Nat :
    /\ state.log = {log} /\ state.next = {next} /\ state.sequence = {sequence}
    /\ log < next /\ CURRENT < next
    /\ \A n \in state.added : n < next
    /\ UpTo(EntriesIn(state.added), sequence)

Sound(state) ==
  /\ Fields(state)
  /\ state.added \subseteq DOMAIN tables
  /\ Unique(Found(state))
  /\ synced \subseteq FoundSynced(state)

(* Whatever a crash leaves of the manifest is sound, except that nothing   *)
(* may be left of the first one.                                           *)
DiskInv ==
  /\ CURRENT = 0 =>
       /\ pc \in {"down", "newdb"} /\ written = {} /\ synced = {}
       /\ DOMAIN logs = {} /\ DOMAIN tables = {}
  /\ CURRENT # 0 =>
       /\ CURRENT \in DOMAIN manifests
       /\ \A state \in Survivors : Sound(state) \/ (CURRENT = 1 /\ state = NoEdit)
       /\ Saved = NoEdit => pc = "down"
       /\ Saved # NoEdit =>
            /\ written \subseteq Found(Saved)
            /\ \A state \in Survivors : \A n \in state.added : n < The(Saved.next)

(* Nothing is in memory of a database that is not open.                    *)
DownInv ==
  /\ pc # "up" => mem = {} /\ imm = {} /\ flushing = 0 /\ ~ collect /\ ~ bg_error
  /\ pc \notin {"save", "up"} => apply = "none"
  /\ pc \in {"down", "newdb", "open"} => logfile = 0
  /\ logfile # 0 => logfile \in DOMAIN logs
  /\ pc = "newdb" => CURRENT = 0 /\ 1 \in DOMAIN manifests
                     /\ manifests[1] = AddRecord(EmptyFile, Edit({}, {}, {0}, {2}, {0}))
  /\ pc = "open" => CURRENT # 0

(* Open, until CURRENT names the new manifest: what was read from the logs *)
(* is in the tables of the edit.                                           *)
RecoveredInv ==
  pc \in {"logs", "save"} /\ apply # "install" =>
    /\ CURRENT # 0 /\ ~ vs.open /\ save
    /\ Saved.log = {vs.log_number} /\ Saved.next = {vs.manifest} /\ vs.files = Saved.added
    /\ vs.manifest < vs.next_file
    /\ edit.deleted = {} /\ edit.log = {}
    /\ edit.added \subseteq DOMAIN tables
    /\ \A n \in edit.added : vs.manifest < n /\ n < vs.next_file
    /\ EntriesIn(edit.added) \subseteq UNION {LogEntries(n) : n \in LogsFrom(vs.log_number)}
    /\ UpTo(EntriesIn(vs.files \cup edit.added), vs.last_sequence)
    /\ todo \subseteq LogsFrom(vs.log_number)
    /\ \A n \in LogsFrom(vs.log_number) \ todo :
         n < vs.next_file /\ LogEntries(n) \subseteq EntriesIn(edit.added)
    /\ pc = "logs" => logfile = 0

Snapshot == AddRecord(EmptyFile, [NoEdit EXCEPT !.added = vs.files])

(* The rest of Open: an empty log, and a manifest of two records.          *)
SaveInv ==
  pc = "save" =>
    /\ todo = {} /\ ~ vs.open /\ vs.manifest < vs.next_file
    /\ logfile \in DOMAIN logs /\ logfile # 0 /\ logs[logfile] = EmptyFile
    /\ \A n \in DOMAIN logs : n <= logfile
    /\ logfile < vs.next_file
    /\ UpTo(EntriesIn(vs.files \cup edit.added), vs.last_sequence)
    /\ edit.deleted = {} /\ \A n \in vs.files \cup edit.added : n < vs.next_file
    /\ apply # "none" => /\ record.deleted = {} /\ record.added = edit.added
                         /\ record.log = {logfile}
    /\ apply \in {"append", "sync", "current", "install"} =>
         record.next = {vs.next_file} /\ record.sequence = {vs.last_sequence}
    /\ apply = "append" => vs.manifest \in DOMAIN manifests /\ manifests[vs.manifest] = Snapshot
    /\ apply = "sync" => vs.manifest \in DOMAIN manifests
                         /\ manifests[vs.manifest] = AddRecord(Snapshot, record)
    /\ apply \in {"current", "install"} => vs.manifest \in DOMAIN manifests
                         /\ manifests[vs.manifest] = Sync(AddRecord(Snapshot, record))
    /\ apply = "install" => CURRENT = vs.manifest

(* A database that is open.                                                *)
UpInv ==
  pc = "up" =>
    /\ vs.open /\ CURRENT # 0 /\ CURRENT = vs.manifest /\ vs.manifest < vs.next_file
    /\ apply \in {"none", "append", "sync", "install"}
    /\ collect \/ bg_error => apply = "none"
    /\ apply = "none" => flushing = 0
    /\ logfile \in DOMAIN logs /\ logfile # 0 /\ \A n \in DOMAIN logs : n <= logfile
    /\ logfile < vs.next_file /\ vs.log_number <= logfile
    /\ AllWhole(logs[logfile]) /\ mem = LogEntries(logfile)
    /\ \A n \in LogsFrom(vs.log_number) \ {logfile} :
         LogEntries(n) \subseteq (UNION imm) \cup EntriesIn(vs.files)
    /\ mem \cup (UNION imm) \cup EntriesIn(vs.files) \subseteq Found(Saved)
    /\ vs.files \subseteq DOMAIN tables /\ \A n \in vs.files : n < vs.next_file
    /\ AllWhole(manifests[CURRENT])
    /\ \A state \in Survivors :
         /\ state # NoEdit /\ The(state.log) <= logfile
         /\ \A n \in state.added : n < vs.next_file
         /\ UpTo(Found(state), vs.last_sequence)
    /\ ~ bg_error /\ apply \in {"none", "append"} =>
         Saved.added = vs.files /\ Saved.log = {vs.log_number}
    /\ ~ bg_error /\ apply # "sync" =>
         manifests[CURRENT].synced = Len(manifests[CURRENT].records)

(* What LogAndApply is given by a flush, and by a compaction.              *)
FlushInv ==
  pc = "up" /\ apply # "none" =>
    /\ flushing # 0 /\ flushing \in DOMAIN tables /\ flushing \notin vs.files
    /\ flushing < vs.next_file /\ record.added = {flushing}
    /\ \/ /\ record.deleted = {} /\ record.log = {logfile} /\ imm # {}
          /\ tables[flushing] = UNION imm
       \/ /\ record.deleted = vs.files /\ vs.files # {}
          /\ tables[flushing] = EntriesIn(vs.files)
          /\ record.log = IF apply = "append" THEN {} ELSE {vs.log_number}
    /\ apply # "append" => Saved.added = (vs.files \ record.deleted) \cup record.added
                           /\ Saved.log = record.log

RecoveryInv ==
  /\ TypeInv /\ FilesInv /\ DiskInv /\ DownInv /\ RecoveredInv /\ SaveInv /\ UpInv /\ FlushInv

-----------------------------------------------------------------------------
(* Lemmas on numbers and sequences.                                        *)

(* A non-empty set of natural numbers has a least element: what stands for *)
(* induction in these proofs.                                              *)
LEMMA LeastNumber ==
  ASSUME NEW S \in SUBSET Nat, S # {}
  PROVE  /\ Least(S) \in S
         /\ \A m \in S : Least(S) <= m
<1> DEFINE R == OpToRel(<, Nat)
<1>1. IsWellFoundedOn(R, Nat)
  BY NatLessThanWellFounded
<1>2. \A x, y \in Nat : <<y, x>> \in R <=> y < x
  BY DEF OpToRel
<1> HIDE DEF R
<1>3. PICK n \in S : \A m \in S : ~ (<<m, n>> \in R)
  BY <1>1, WFMin
<1>4. \A m \in S : ~ (m < n)
  BY <1>2, <1>3
<1>5. \A m \in S : n <= m
  <2>1. n \in Nat /\ \A m \in S : m \in Nat
    OBVIOUS
  <2> QED
    BY <1>4, <2>1
<1> QED
  BY <1>5 DEF Least

(* A set of numbers with a bound has a greatest element.                   *)
LEMMA GreatestNumber ==
  ASSUME NEW S \in SUBSET Nat, S # {}, NEW bound \in Nat, \A n \in S : n <= bound
  PROVE  /\ Greatest(S) \in S
         /\ \A m \in S : m <= Greatest(S)
<1> DEFINE U == {b \in Nat : \A n \in S : n <= b}
<1>1. U \in SUBSET Nat /\ U # {}
  OBVIOUS
<1> HIDE DEF U
<1>2. PICK b \in U : \A m \in U : b <= m
  BY <1>1, LeastNumber
<1>3. b \in S
  <2> SUFFICES ASSUME b \notin S PROVE FALSE
    OBVIOUS
  <2>1. \A n \in S : n <= b /\ n # b
    BY <1>2 DEF U
  <2>2. b # 0 /\ b \in Nat
    <3>1. b \in Nat
      BY <1>2 DEF U
    <3>2. PICK m \in S : TRUE
      OBVIOUS
    <3>3. m \in Nat /\ m <= b /\ m # b
      BY <2>1, <3>2
    <3> QED
      BY <3>1, <3>3
  <2>3. b - 1 \in U
    BY <2>1, <2>2 DEF U
  <2> QED
    BY <1>2, <2>2, <2>3
<1>4. \A m \in S : m <= b
  BY <1>2 DEF U
<1> QED
  BY <1>3, <1>4 DEF Greatest

(* The last sequence number of a log and of what was there before.         *)
LEMMA GreatestOfLog ==
  ASSUME NEW D, NEW entries \in Seq(Nat \X D), NEW last \in Nat
  PROVE  LET S == {last} \cup {e[1] : e \in Range(entries)}
         IN  /\ Greatest(S) \in Nat /\ last <= Greatest(S)
             /\ \A e \in Range(entries) : e[1] <= Greatest(S)
<1> DEFINE N == Len(entries)
           S == {last} \cup {e[1] : e \in Range(entries)}
           Bad == {n \in 0 .. N : ~ \E b \in Nat : last <= b /\ \A i \in 1 .. n : entries[i][1] <= b}
<1>1. N \in Nat /\ \A i \in 1 .. N : entries[i] \in Nat \X D
  BY ElementOfSeq
<1>2. \A i \in 1 .. N : entries[i][1] \in Nat
  BY <1>1
<1>3. Bad = {}
  <2> SUFFICES ASSUME Bad # {} PROVE FALSE
    OBVIOUS
  <2>1. PICK n \in Bad : \A m \in Bad : n <= m
    <3>1. Bad \in SUBSET Nat
      OBVIOUS
    <3> HIDE DEF Bad
    <3> QED
      BY <3>1, LeastNumber
  <2>2. n # 0
    <3> SUFFICES ASSUME n = 0 PROVE FALSE
      OBVIOUS
    <3>1. last <= last /\ 1 .. 0 = {}
      OBVIOUS
    <3>2. \E b \in Nat : last <= b /\ \A i \in 1 .. n : entries[i][1] <= b
      BY <3>1
    <3> QED
      BY <2>1, <3>2
  <2>3. n \in 1 .. N /\ n - 1 \in 0 .. N /\ n - 1 \notin Bad
    <3>1. n \in 0 .. N
      BY <2>1
    <3>2. n \in 1 .. N /\ n - 1 \in 0 .. N /\ ~ (n <= n - 1)
      BY <1>1, <2>2, <3>1
    <3> HIDE DEF Bad
    <3> QED
      BY <2>1, <3>2
  <2>4. PICK b \in Nat : last <= b /\ \A i \in 1 .. n - 1 : entries[i][1] <= b
    BY <2>3
  <2> DEFINE c == IF b <= entries[n][1] THEN entries[n][1] ELSE b
  <2>5. c \in Nat /\ last <= c /\ b <= c /\ entries[n][1] <= c
    BY <1>2, <2>3, <2>4, SMTT(30)
  <2>6. \A i \in 1 .. n : i = n \/ i \in 1 .. n - 1
    BY <2>3
  <2> HIDE DEF c
  <2>7. \A i \in 1 .. n : entries[i][1] <= c
    <3> SUFFICES ASSUME NEW i \in 1 .. n PROVE entries[i][1] <= c
      OBVIOUS
    <3>1. CASE i = n
      BY <2>5, <3>1
    <3>2. CASE i \in 1 .. n - 1
      <4>1. entries[i][1] \in Nat /\ entries[i][1] <= b
        BY <1>2, <2>3, <2>4, <3>2
      <4> QED
        BY <2>4, <2>5, <4>1
    <3> QED
      BY <2>6, <3>1, <3>2
  <2> QED
    BY <2>1, <2>5, <2>7
<1>4. PICK b \in Nat : last <= b /\ \A i \in 1 .. N : entries[i][1] <= b
  BY <1>1, <1>3
<1>5. DOMAIN entries = 1 .. N
  OBVIOUS
<1>6. S \in SUBSET Nat /\ S # {} /\ \A n \in S : n <= b
  BY <1>2, <1>4, <1>5 DEF Range
<1>7. last \in S /\ \A e \in Range(entries) : e[1] \in S
  OBVIOUS
<1> HIDE DEF S
<1>8. Greatest(S) \in S /\ \A m \in S : m <= Greatest(S)
  BY <1>6, GreatestNumber
<1> QED
  BY <1>6, <1>7, <1>8 DEF S

(* The tables made of a log hold its entries, all of them and no others.   *)
LEMMA TablesRight ==
  ASSUME NEW D, NEW entries \in Seq(D)
  PROVE  /\ Tables(entries) \in Seq(SUBSET D)
         /\ \A i \in 1 .. Len(Tables(entries)) : Tables(entries)[i] \subseteq Range(entries)
         /\ \A e \in Range(entries) :
              \E i \in 1 .. Len(Tables(entries)) : e \in Tables(entries)[i]
<1> DEFINE N == Len(entries)
           full == WriteBufferSize + 1
           enough(j) == {n \in 0 .. N : j <= n * full}
           nth(j) == Least(enough(j))
           table(i) == {entries[j] : j \in {k \in DOMAIN entries : nth(k) = i}}
<1>1. N \in Nat /\ DOMAIN entries = 1 .. N /\ \A i \in 1 .. N : entries[i] \in D
  BY ElementOfSeq
<1>2. full \in Nat /\ full >= 1
  BY RecoveryAssumption
<1>3. Tables(entries) = [i \in 1 .. nth(N) |-> table(i)]
  BY DEF Tables
<1> HIDE DEF full
<1>4. \A n \in Nat : n <= n * full /\ n * full \in Nat
  <2>1. \A n, f \in Nat : f >= 1 => n <= n * f
    OBVIOUS
  <2> QED
    BY <1>2, <2>1
<1>5. \A j \in 0 .. N : enough(j) \in SUBSET Nat /\ N \in enough(j)
  <2> SUFFICES ASSUME NEW j \in 0 .. N PROVE N \in enough(j)
    BY <1>1
  <2>1. N <= N * full /\ N * full \in Nat
    BY <1>1, <1>4
  <2> QED
    BY <1>1, <2>1
<1>6. \A j \in 0 .. N : nth(j) \in enough(j) /\ \A n \in enough(j) : nth(j) <= n
  <2> SUFFICES ASSUME NEW j \in 0 .. N
               PROVE  nth(j) \in enough(j) /\ \A n \in enough(j) : nth(j) <= n
    OBVIOUS
  <2>1. enough(j) \in SUBSET Nat /\ enough(j) # {}
    BY <1>5
  <2> HIDE DEF enough
  <2> QED
    BY <2>1, LeastNumber
<1>7. \A j \in 0 .. N : nth(j) \in 0 .. N /\ (j > 0 => nth(j) > 0)
  <2> SUFFICES ASSUME NEW j \in 0 .. N PROVE nth(j) \in 0 .. N /\ (j > 0 => nth(j) > 0)
    OBVIOUS
  <2>1. nth(j) \in 0 .. N /\ j <= nth(j) * full
    BY <1>6
  <2> HIDE DEF nth
  <2>2. 0 * full = 0
    BY <1>2
  <2> QED
    BY <1>1, <2>1, <2>2
<1>8. \A j \in 0 .. N : nth(j) <= nth(N)
  <2> SUFFICES ASSUME NEW j \in 0 .. N PROVE nth(j) <= nth(N)
    OBVIOUS
  <2>1. nth(N) \in 0 .. N /\ N <= nth(N) * full
    BY <1>1, <1>6
  <2>2. nth(N) * full \in Nat
    BY <1>4, <2>1
  <2>3. j <= nth(N) * full
    <3> HIDE DEF nth
    <3> QED
      BY <1>1, <2>1, <2>2
  <2>4. nth(N) \in enough(j)
    BY <2>1, <2>3
  <2> QED
    BY <1>6, <2>4
<1>9. nth(N) \in Nat
  BY <1>1, <1>7
<1>10. \A i : table(i) \subseteq Range(entries) /\ table(i) \in SUBSET D
  BY <1>1 DEF Range
<1>11. \A e \in Range(entries) : \E i \in 1 .. nth(N) : e \in table(i)
  <2> SUFFICES ASSUME NEW e \in Range(entries) PROVE \E i \in 1 .. nth(N) : e \in table(i)
    OBVIOUS
  <2>1. PICK j \in 1 .. N : e = entries[j]
    BY <1>1 DEF Range
  <2>2. nth(j) \in 1 .. nth(N)
    <3>1. j \in 0 .. N /\ j > 0
      BY <1>1
    <3>2. nth(j) \in 0 .. N /\ nth(j) > 0 /\ nth(j) <= nth(N)
      BY <1>7, <1>8, <3>1
    <3> HIDE DEF nth
    <3> QED
      BY <1>1, <1>9, <3>2
  <2>3. e \in table(nth(j))
    BY <1>1, <2>1
  <2> QED
    BY <2>2, <2>3
<1> HIDE DEF nth, table
<1>12. Tables(entries) \in Seq(SUBSET D) /\ Len(Tables(entries)) = nth(N)
  BY <1>3, <1>9, <1>10
<1> QED
  BY <1>3, <1>10, <1>11, <1>12


-----------------------------------------------------------------------------
(* Lemmas on what a manifest says.                                         *)

(* An edit applied to a state gives a state.                               *)
LEMMA ApplyEditType ==
  ASSUME NEW state \in EditType, NEW e \in EditType
  PROVE  /\ ApplyEdit(state, e) \in EditType
         /\ ApplyEdit(state, e).added = (state.added \ e.deleted) \cup e.added
         /\ ApplyEdit(state, e).log = IF e.log = {} THEN state.log ELSE e.log
         /\ ApplyEdit(state, e).next = IF e.next = {} THEN state.next ELSE e.next
         /\ ApplyEdit(state, e).sequence = IF e.sequence = {} THEN state.sequence ELSE e.sequence
BY DEF ApplyEdit, Edit, EditType

(* The edit that says nothing is one.                                      *)
LEMMA NoEditType == NoEdit \in EditType
BY DEF NoEdit, Edit, EditType

(* The states after the first n edits.                                     *)
Run(f, edits, n) ==
  /\ f \in [0 .. n -> EditType] /\ f[0] = NoEdit
  /\ \A m \in 1 .. n : f[m] = ApplyEdit(f[m - 1], edits[m])

(* States is what its recursion says.                                      *)
LEMMA StatesRight ==
  ASSUME NEW edits \in Seq(EditType)
  PROVE  Run(States(edits), edits, Len(edits))
<1> DEFINE N == Len(edits)
           Bad == {n \in 0 .. N : ~ \E f : Run(f, edits, n)}
<1>1. N \in Nat /\ \A n \in 1 .. N : edits[n] \in EditType
  BY ElementOfSeq
<1>2. Bad = {}
  <2> SUFFICES ASSUME Bad # {} PROVE FALSE
    OBVIOUS
  <2>1. PICK n \in Bad : \A m \in Bad : n <= m
    <3>1. Bad \in SUBSET Nat
      BY <1>1
    <3> HIDE DEF Bad
    <3> QED
      BY <3>1, LeastNumber
  <2>2. CASE n = 0
    <3>1. Run([m \in 0 .. 0 |-> NoEdit], edits, 0)
      BY NoEditType DEF Run
    <3> QED
      BY <3>1, <2>1, <2>2
  <2>3. CASE n # 0
    <3>1. n \in 1 .. N /\ n - 1 \in 0 .. N /\ n - 1 \notin Bad
      BY <1>1, <2>1, <2>3
    <3>2. PICK f : Run(f, edits, n - 1)
      BY <3>1
    <3> DEFINE g == [m \in 0 .. n |-> IF m = n THEN ApplyEdit(f[n - 1], edits[n]) ELSE f[m]]
    <3>3. \A m \in 0 .. n - 1 : f[m] \in EditType
      BY <3>1, <3>2 DEF Run
    <3>4. ApplyEdit(f[n - 1], edits[n]) \in EditType
      <4>1. f[n - 1] \in EditType /\ edits[n] \in EditType
        BY <1>1, <3>1, <3>3
      <4> QED
        BY <4>1, ApplyEditType
    <3>5. g \in [0 .. n -> EditType]
      BY <3>1, <3>3, <3>4
    <3>6. g[0] = NoEdit
      BY <3>1, <3>2 DEF Run
    <3>7. \A m \in 1 .. n : g[m] = ApplyEdit(g[m - 1], edits[m])
      <4> SUFFICES ASSUME NEW m \in 1 .. n PROVE g[m] = ApplyEdit(g[m - 1], edits[m])
        OBVIOUS
      <4>1. CASE m = n
        BY <3>1, <4>1
      <4>2. CASE m # n
        <5>1. m \in 1 .. n - 1 /\ m - 1 \in 0 .. n /\ m - 1 # n
          BY <3>1, <4>2
        <5>2. f[m] = ApplyEdit(f[m - 1], edits[m])
          BY <3>2, <5>1 DEF Run
        <5> QED
          BY <4>2, <5>1, <5>2
      <4> QED
        BY <4>1, <4>2
    <3>8. Run(g, edits, n)
      <4> HIDE DEF g
      <4> QED
        BY <3>5, <3>6, <3>7 DEF Run
    <3> QED
      BY <3>8, <2>1
  <2> QED
    BY <2>2, <2>3
<1>3. PICK f : Run(f, edits, N)
  BY <1>1, <1>2
<1> DEFINE Eq(g) == g = [n \in 0 .. N |-> IF n = 0 THEN NoEdit ELSE ApplyEdit(g[n - 1], edits[n])]
<1>4. Eq(f)
  BY <1>3 DEF Run
<1>5. States(edits) = CHOOSE g : Eq(g)
  BY DEF States
<1> HIDE DEF Eq
<1>6. Eq(States(edits))
  BY <1>4, <1>5
<1> DEFINE s == States(edits)
<1> HIDE DEF s
<1>7. s = [n \in 0 .. N |-> IF n = 0 THEN NoEdit ELSE ApplyEdit(s[n - 1], edits[n])]
  BY <1>6 DEF Eq, s
<1> DEFINE Off == {n \in 0 .. N : s[n] \notin EditType}
<1>8. s[0] = NoEdit /\ \A n \in 1 .. N : s[n] = ApplyEdit(s[n - 1], edits[n])
  BY <1>1, <1>7
<1>9. Off = {}
  <2> SUFFICES ASSUME Off # {} PROVE FALSE
    OBVIOUS
  <2>1. PICK n \in Off : \A m \in Off : n <= m
    <3>1. Off \in SUBSET Nat
      BY <1>1
    <3> HIDE DEF Off
    <3> QED
      BY <3>1, LeastNumber
  <2>2. n # 0
    BY <1>8, <2>1, NoEditType
  <2>3. n \in 1 .. N /\ n - 1 \in 0 .. N /\ n - 1 \notin Off
    BY <1>1, <2>1, <2>2
  <2>4. s[n - 1] \in EditType /\ edits[n] \in EditType
    BY <1>1, <2>3
  <2> QED
    <3>1. s[n] = ApplyEdit(s[n - 1], edits[n])
      BY <1>8, <2>3
    <3>2. ApplyEdit(s[n - 1], edits[n]) \in EditType
      BY <2>4, ApplyEditType
    <3> QED
      BY <2>1, <3>1, <3>2
<1>10. s \in [0 .. N -> EditType]
  <2>1. \A n \in 0 .. N : s[n] \in EditType
    BY <1>9
  <2>2. DOMAIN s = 0 .. N /\ s = [n \in 0 .. N |-> s[n]]
    BY <1>7
  <2> QED
    BY <2>1, <2>2
<1> QED
  BY <1>8, <1>10 DEF Run, s

(* What an empty manifest says, and what an edit more adds.                *)
LEMMA ReplayRight ==
  /\ Replay(<< >>) = NoEdit
  /\ \A edits \in Seq(EditType) : Replay(edits) \in EditType
  /\ \A edits \in Seq(EditType) : \A e \in EditType :
       Replay(Append(edits, e)) = ApplyEdit(Replay(edits), e)
<1>1. ASSUME NEW edits \in Seq(EditType) PROVE Replay(edits) \in EditType
  BY StatesRight DEF Replay, Run
<1>2. Replay(<< >>) = NoEdit
  <2>1. << >> \in Seq(EditType) /\ Len(<< >>) = 0
    OBVIOUS
  <2> QED
    BY <2>1, StatesRight DEF Replay, Run
<1>3. ASSUME NEW edits \in Seq(EditType), NEW e \in EditType
      PROVE  Replay(Append(edits, e)) = ApplyEdit(Replay(edits), e)
  <2> DEFINE N == Len(edits)
             more == Append(edits, e)
             f == States(edits)
             g == States(more)
             Off == {n \in 0 .. N : f[n] # g[n]}
  <2>1. /\ N \in Nat /\ more \in Seq(EditType) /\ Len(more) = N + 1 /\ more[N + 1] = e
        /\ \A n \in 1 .. N : more[n] = edits[n]
    OBVIOUS
  <2>2. Run(f, edits, N) /\ Run(g, more, N + 1)
    BY <2>1, StatesRight
  <2> HIDE DEF f, g, more
  <2>3. Off = {}
    <3> SUFFICES ASSUME Off # {} PROVE FALSE
      OBVIOUS
    <3>1. PICK n \in Off : \A m \in Off : n <= m
      <4>1. Off \in SUBSET Nat
        BY <2>1
      <4> HIDE DEF Off
      <4> QED
        BY <4>1, LeastNumber
    <3>2. n # 0
      BY <2>2, <3>1 DEF Run
    <3>3. n \in 1 .. N /\ n - 1 \in 0 .. N /\ n - 1 \notin Off /\ n \in 1 .. N + 1
      BY <2>1, <3>1, <3>2
    <3>4. f[n - 1] = g[n - 1]
      BY <3>3
    <3>5. f[n] = ApplyEdit(f[n - 1], edits[n]) /\ g[n] = ApplyEdit(g[n - 1], more[n])
      BY <2>2, <3>3 DEF Run
    <3> QED
      BY <2>1, <3>1, <3>3, <3>4, <3>5
  <2>4. f[N] = g[N]
    BY <2>1, <2>3
  <2>5. g[N + 1] = ApplyEdit(g[N], e)
    <3>1. N + 1 \in 1 .. N + 1 /\ (N + 1) - 1 = N
      BY <2>1
    <3> QED
      BY <2>1, <2>2, <3>1 DEF Run
  <2> QED
    BY <2>1, <2>4, <2>5 DEF Replay, f, g, more
<1> QED
  BY <1>1, <1>2, <1>3

-----------------------------------------------------------------------------
(* Lemmas on files.                                                        *)

(* The records that are read: up to the first torn one.                    *)
LEMMA RecordsRight ==
  ASSUME NEW D, NEW file \in File(D)
  PROVE  \E last \in 0 .. Len(file.records) :
           /\ Records(file) = [i \in 1 .. last |-> file.records[i].data]
           /\ \A i \in 1 .. last : file.records[i].whole
           /\ last < Len(file.records) => ~ file.records[last + 1].whole
<1> DEFINE N == Len(file.records)
           S == {i \in 0 .. N : \A j \in 1 .. i : file.records[j].whole}
<1>1. N \in Nat
  BY DEF File
<1>2. S \in SUBSET Nat /\ 0 \in S /\ \A n \in S : n <= N
  BY <1>1
<1> DEFINE last == Greatest(S)
<1>3. last \in S /\ \A m \in S : m <= last
  <2> HIDE DEF S
  <2> QED
    BY <1>1, <1>2, GreatestNumber
<1>4. Records(file) = [i \in 1 .. last |-> file.records[i].data]
  BY DEF Records, Greatest
<1> HIDE DEF last
<1>5. last \in 0 .. N /\ \A i \in 1 .. last : file.records[i].whole
  BY <1>3
<1>6. ASSUME last < N PROVE ~ file.records[last + 1].whole
  <2> SUFFICES ASSUME file.records[last + 1].whole PROVE FALSE
    OBVIOUS
  <2>1. last + 1 \in 0 .. N /\ ~ (last + 1 <= last)
    BY <1>1, <1>5, <1>6
  <2>2. \A j \in 1 .. last + 1 : j \in 1 .. last \/ j = last + 1
    BY <1>1, <1>5
  <2>3. last + 1 \in S
    BY <1>5, <2>1, <2>2
  <2> QED
    BY <1>3, <2>1, <2>3
<1> QED
  BY <1>4, <1>5, <1>6

(* What is read depends on the records only.                               *)
LEMMA SameRecords ==
  ASSUME NEW file, NEW other, file.records = other.records
  PROVE  Records(file) = Records(other)
BY DEF Records

(* How many records are read, and what they are.                           *)
LEMMA ReadsUpTo ==
  ASSUME NEW D, NEW file \in File(D), NEW last \in 0 .. Len(file.records),
         \A i \in 1 .. last : file.records[i].whole,
         last < Len(file.records) => ~ file.records[last + 1].whole
  PROVE  Records(file) = [i \in 1 .. last |-> file.records[i].data]
<1>1. Len(file.records) \in Nat
  BY DEF File
<1>2. PICK n \in 0 .. Len(file.records) :
        /\ Records(file) = [i \in 1 .. n |-> file.records[i].data]
        /\ \A i \in 1 .. n : file.records[i].whole
        /\ n < Len(file.records) => ~ file.records[n + 1].whole
  BY RecordsRight
<1>3. ~ (n < last)
  <2> SUFFICES ASSUME n < last PROVE FALSE
    OBVIOUS
  <2>1. n + 1 \in 1 .. last /\ n < Len(file.records)
    BY <1>1
  <2> QED
    BY <1>2, <2>1
<1>4. ~ (last < n)
  <2> SUFFICES ASSUME last < n PROVE FALSE
    OBVIOUS
  <2>1. last + 1 \in 1 .. n /\ last < Len(file.records)
    BY <1>1
  <2> QED
    BY <1>2, <2>1
<1>5. n = last
  BY <1>1, <1>3, <1>4
<1> QED
  BY <1>2, <1>5

(* A record that is not torn holds data.                                   *)
LEMMA RecordOfFile ==
  ASSUME NEW D, NEW file \in File(D), NEW i \in 1 .. Len(file.records)
  PROVE  /\ file.records[i] \in {Torn} \cup Wholes(D)
         /\ file.records[i].whole => file.records[i].data \in D
<1>1. file.records[i] \in {Torn} \cup Wholes(D)
  BY ElementOfSeq DEF File
<1>2. ~ Torn.whole
  BY DEF Torn
<1>3. \A r \in Wholes(D) : r.data \in D
  BY DEF Wholes, Whole
<1> QED
  BY <1>1, <1>2, <1>3

(* The records of a file are data.                                         *)
LEMMA RecordsType ==
  ASSUME NEW D, NEW file \in File(D)
  PROVE  Records(file) \in Seq(D) /\ Range(Records(file)) \subseteq D
<1>1. Len(file.records) \in Nat
  BY DEF File
<1>2. PICK n \in 0 .. Len(file.records) :
        /\ Records(file) = [i \in 1 .. n |-> file.records[i].data]
        /\ \A i \in 1 .. n : file.records[i].whole
  BY RecordsRight
<1>3. \A i \in 1 .. n : file.records[i].data \in D
  BY <1>1, <1>2, RecordOfFile
<1> QED
  BY <1>1, <1>2, <1>3 DEF Range

(* A file of whole records is read to its end.                             *)
LEMMA WholeRecords ==
  ASSUME NEW D, NEW file \in File(D), AllWhole(file)
  PROVE  Records(file) = [i \in 1 .. Len(file.records) |-> file.records[i].data]
<1>1. Len(file.records) \in Nat
  BY DEF File
<1> QED
  BY <1>1, ReadsUpTo DEF AllWhole

(* A file just created has no record.                                      *)
LEMMA EmptyFileRight ==
  ASSUME NEW D
  PROVE  /\ EmptyFile \in File(D) /\ AllWhole(EmptyFile)
         /\ Records(EmptyFile) = << >> /\ Range(Records(EmptyFile)) = {}
         /\ EmptyFile.synced = 0 /\ Len(EmptyFile.records) = 0
<1>1. /\ EmptyFile \in File(D) /\ AllWhole(EmptyFile)
      /\ EmptyFile.synced = 0 /\ Len(EmptyFile.records) = 0
  BY DEF EmptyFile, File, AllWhole
<1>2. Records(EmptyFile) = << >>
  BY <1>1, WholeRecords
<1> QED
  BY <1>1, <1>2 DEF Range

(* A record appended to whole records is read after them.                  *)
LEMMA AddRecordRight ==
  ASSUME NEW D, NEW file \in File(D), AllWhole(file), NEW e \in D
  PROVE  LET more == AddRecord(file, e)
         IN  /\ more \in File(D) /\ AllWhole(more)
             /\ more.synced = file.synced /\ Len(more.records) = Len(file.records) + 1
             /\ more.records = Append(file.records, Whole(e))
             /\ Records(more) = Append(Records(file), e)
             /\ Range(Records(more)) = Range(Records(file)) \cup {e}
<1> DEFINE more == AddRecord(file, e)
           N == Len(file.records)
<1>1. /\ file.records \in Seq({Torn} \cup Wholes(D)) /\ file.synced \in Nat
      /\ N \in Nat /\ Whole(e) \in {Torn} \cup Wholes(D)
  BY DEF File, Wholes
<1>2. more.records = Append(file.records, Whole(e)) /\ more.synced = file.synced
  BY DEF AddRecord, File
<1>3. more \in File(D)
  BY <1>1 DEF AddRecord, File
<1> HIDE DEF more
<1>4. /\ Len(more.records) = N + 1 /\ more.records[N + 1] = Whole(e)
      /\ \A i \in 1 .. N : more.records[i] = file.records[i]
  BY <1>1, <1>2
<1>5. Whole(e).whole /\ Whole(e).data = e
  BY DEF Whole
<1>6. \A i \in 1 .. N + 1 : i \in 1 .. N \/ i = N + 1
  BY <1>1
<1>7. AllWhole(more)
  BY <1>4, <1>5, <1>6 DEF AllWhole
<1>8. /\ Records(more) = [i \in 1 .. N + 1 |-> more.records[i].data]
      /\ Records(file) = [i \in 1 .. N |-> file.records[i].data]
  BY <1>3, <1>4, <1>7, WholeRecords
<1>9. Records(more) = Append(Records(file), e)
  <2>1. Records(file) \in Seq(D) /\ Len(Records(file)) = N
    BY <1>1, <1>8, RecordsType
  <2> DEFINE r == Records(file)
             a == Append(r, e)
  <2>2. /\ a \in Seq(D) /\ Len(a) = N + 1 /\ a[N + 1] = e
        /\ \A i \in 1 .. N : a[i] = r[i]
    <3> HIDE DEF r
    <3> QED
      BY <2>1, <1>1 DEF r
  <2>3. \A i \in 1 .. N + 1 : a[i] = more.records[i].data
    <3> SUFFICES ASSUME NEW i \in 1 .. N + 1 PROVE a[i] = more.records[i].data
      OBVIOUS
    <3>1. CASE i \in 1 .. N
      BY <1>4, <1>8, <2>2, <3>1
    <3>2. CASE i = N + 1
      BY <1>4, <1>5, <2>2, <3>2
    <3> QED
      BY <1>6, <3>1, <3>2
  <2>4. a = [i \in 1 .. N + 1 |-> a[i]]
    <3> HIDE DEF a
    <3> QED
      BY <2>2
  <2> HIDE DEF a
  <2>5. a = [i \in 1 .. N + 1 |-> more.records[i].data]
    BY <2>3, <2>4
  <2> QED
    BY <1>8, <2>5 DEF a
<1>10. Range(Records(more)) = Range(Records(file)) \cup {e}
  <2>1. \A i \in 1 .. N : Records(more)[i] = Records(file)[i] /\ i \in 1 .. N + 1
    BY <1>1, <1>4, <1>8
  <2>2. Records(more)[N + 1] = e /\ N + 1 \in 1 .. N + 1
    BY <1>1, <1>4, <1>5, <1>8
  <2>3. DOMAIN Records(more) = 1 .. N + 1 /\ DOMAIN Records(file) = 1 .. N
    BY <1>8
  <2> QED
    BY <1>6, <2>1, <2>2, <2>3 DEF Range
<1> QED
  BY <1>2, <1>3, <1>4, <1>7, <1>9, <1>10 DEF more

(* Syncing changes nothing that is read.                                   *)
LEMMA SyncRight ==
  ASSUME NEW D, NEW file \in File(D)
  PROVE  /\ Sync(file) \in File(D) /\ Sync(file).records = file.records
         /\ Sync(file).synced = Len(file.records)
         /\ Records(Sync(file)) = Records(file)
         /\ AllWhole(file) => AllWhole(Sync(file))
<1>1. /\ Sync(file) \in File(D) /\ Sync(file).records = file.records
      /\ Sync(file).synced = Len(file.records)
  BY DEF Sync, File
<1> QED
  BY <1>1, SameRecords DEF AllWhole

-----------------------------------------------------------------------------
(* Lemmas on what a crash of the machine leaves.                           *)

(* The beginning of a file says a part of what the file says.              *)
LEMMA PrefixRecords ==
  ASSUME NEW D, NEW file \in File(D), NEW part \in File(D),
         Len(part.records) <= Len(file.records),
         \A i \in 1 .. Len(part.records) : part.records[i] = file.records[i]
  PROVE  Range(Records(part)) \subseteq Range(Records(file))
<1>1. Len(file.records) \in Nat /\ Len(part.records) \in Nat
  BY DEF File
<1>2. PICK n \in 0 .. Len(file.records) :
        /\ Records(file) = [i \in 1 .. n |-> file.records[i].data]
        /\ n < Len(file.records) => ~ file.records[n + 1].whole
  BY RecordsRight
<1>3. PICK m \in 0 .. Len(part.records) :
        /\ Records(part) = [i \in 1 .. m |-> part.records[i].data]
        /\ \A i \in 1 .. m : part.records[i].whole
  BY RecordsRight
<1>4. m <= n
  <2> SUFFICES ASSUME ~ (m <= n) PROVE FALSE
    OBVIOUS
  <2>1. n + 1 \in 1 .. m /\ n + 1 \in 1 .. Len(part.records) /\ n < Len(file.records)
    BY <1>1
  <2> QED
    BY <1>2, <1>3, <2>1
<1>5. \A i \in 1 .. m : i \in 1 .. n /\ Records(part)[i] = Records(file)[i]
  BY <1>1, <1>2, <1>3, <1>4, SMTT(30)
<1>6. DOMAIN Records(part) = 1 .. m /\ DOMAIN Records(file) = 1 .. n
  BY <1>2, <1>3
<1> QED
  BY <1>5, <1>6 DEF Range

(* A torn record at the end changes nothing that is read.                  *)
LEMMA TornRecords ==
  ASSUME NEW D, NEW file \in File(D), NEW torn, torn.records = Append(file.records, Torn)
  PROVE  Records(torn) = Records(file)
<1> DEFINE N == Len(file.records)
           more == [records |-> Append(file.records, Torn), synced |-> 0]
<1>1. file.records \in Seq({Torn} \cup Wholes(D)) /\ N \in Nat
  BY DEF File
<1>2. more \in File(D)
  BY <1>1 DEF File
<1>3. /\ Len(more.records) = N + 1 /\ more.records[N + 1] = Torn
      /\ \A i \in 1 .. N : more.records[i] = file.records[i]
  BY <1>1
<1>4. more.records = torn.records
  OBVIOUS
<1> HIDE DEF more
<1>5. PICK n \in 0 .. N :
        /\ Records(file) = [i \in 1 .. n |-> file.records[i].data]
        /\ \A i \in 1 .. n : file.records[i].whole
        /\ n < N => ~ file.records[n + 1].whole
  BY RecordsRight
<1>6. n \in 0 .. N + 1 /\ \A i \in 1 .. n : i \in 1 .. N
  BY <1>1
<1>7. n < N + 1 => ~ more.records[n + 1].whole
  <2>1. CASE n < N
    <3>1. n + 1 \in 1 .. N
      BY <1>1, <2>1
    <3> QED
      BY <1>3, <1>5, <2>1, <3>1
  <2>2. CASE n = N
    BY <1>3, <2>2 DEF Torn
  <2> QED
    BY <1>1, <2>1, <2>2
<1>8. \A i \in 1 .. n : more.records[i].whole
  BY <1>3, <1>5, <1>6
<1>9. Records(more) = [i \in 1 .. n |-> more.records[i].data]
  BY <1>2, <1>3, <1>6, <1>7, <1>8, ReadsUpTo
<1>10. \A i \in 1 .. n : more.records[i].data = file.records[i].data
  BY <1>3, <1>6
<1>11. Records(more) = Records(file)
  BY <1>5, <1>9, <1>10
<1> QED
  BY <1>4, <1>11, SameRecords

(* The first records of a file, as a file.                                 *)
LEMMA CutRight ==
  ASSUME NEW D, NEW file \in File(D), NEW n \in 0 .. Len(file.records), NEW k \in Nat
  PROVE  LET r == SubSeq(file.records, 1, n)
         IN  /\ [records |-> r, synced |-> k] \in File(D)
             /\ [records |-> Append(r, Torn), synced |-> k] \in File(D)
             /\ Len(r) = n /\ Len(Append(r, Torn)) = n + 1
             /\ \A i \in 1 .. n : r[i] = file.records[i]
             /\ n = Len(file.records) => r = file.records
<1>1. file.records \in Seq({Torn} \cup Wholes(D)) /\ Len(file.records) \in Nat
  BY DEF File
<1> DEFINE r == SubSeq(file.records, 1, n)
           X == {Torn} \cup Wholes(D)
<1>2. Torn \in X
  OBVIOUS
<1>3. /\ r \in Seq(X) /\ Len(r) = n
      /\ \A i \in 1 .. n : r[i] = file.records[i]
  <2> HIDE DEF X
  <2> QED
    BY <1>1, SubSeqProperties DEF X
<1>4. n = Len(file.records) => r = file.records
  <2> HIDE DEF X, r
  <2> QED
    BY <1>1, <1>3 DEF X
<1> HIDE DEF r
<1>5. Append(r, Torn) \in Seq(X) /\ Len(Append(r, Torn)) = n + 1
  <2> HIDE DEF X
  <2> QED
    BY <1>2, <1>3
<1> QED
  BY <1>3, <1>4, <1>5 DEF File, r

(* What is left of a file.                                                 *)
LEMMA LeftIsCut ==
  ASSUME NEW D, NEW file \in File(D), file.synced <= Len(file.records),
         NEW left \in LeftOf(file)
  PROVE  \E n \in file.synced .. Len(file.records) :
           \/ left = [records |-> SubSeq(file.records, 1, n), synced |-> n]
           \/ /\ n < Len(file.records)
              /\ left = [records |-> Append(SubSeq(file.records, 1, n), Torn), synced |-> n + 1]
<1> DEFINE N == Len(file.records)
           kept == {SubSeq(file.records, 1, n) : n \in file.synced .. N}
           torn == {Append(r, Torn) : r \in {s \in kept : Len(s) < N}}
<1>1. file.synced \in Nat /\ N \in Nat
  BY DEF File
<1>2. \A n \in file.synced .. N : n \in 0 .. N
  BY <1>1
<1>3. PICK r \in kept \cup torn : left = [records |-> r, synced |-> Len(r)]
  BY DEF LeftOf
<1>4. CASE r \in kept
  <2>1. PICK n \in file.synced .. N : r = SubSeq(file.records, 1, n)
    BY <1>4
  <2>2. Len(r) = n
    BY <1>2, <2>1, CutRight
  <2> QED
    BY <1>3, <2>1, <2>2
<1>5. CASE r \in torn
  <2>1. PICK s \in kept : Len(s) < N /\ r = Append(s, Torn)
    BY <1>5
  <2>2. PICK n \in file.synced .. N : s = SubSeq(file.records, 1, n)
    BY <2>1
  <2>3. Len(s) = n /\ Len(r) = n + 1
    BY <1>2, <2>1, <2>2, CutRight
  <2> QED
    BY <1>3, <2>1, <2>2, <2>3
<1> QED
  BY <1>3, <1>4, <1>5

(* What is read of the part of a file that is synced.                      *)
LEMMA SyncedPartRight ==
  ASSUME NEW D, NEW file \in File(D), file.synced <= Len(file.records)
  PROVE  /\ SyncedPart(file) \in File(D)
         /\ SyncedPart(file).records = SubSeq(file.records, 1, file.synced)
         /\ Range(Records(SyncedPart(file))) \subseteq Range(Records(file))
         /\ file.synced = Len(file.records) => Records(SyncedPart(file)) = Records(file)
<1>1. file.synced \in 0 .. Len(file.records) /\ file.synced \in Nat /\ Len(file.records) \in Nat
  BY DEF File
<1> DEFINE r == SubSeq(file.records, 1, file.synced)
<1>2. SyncedPart(file) = [records |-> r, synced |-> file.synced]
  <2>1. DOMAIN file = {"records", "synced"}
    BY DEF File
  <2> HIDE DEF r
  <2>2. [file EXCEPT !.records = r] = [records |-> r, synced |-> file.synced]
    BY <2>1
  <2> QED
    BY <2>2 DEF SyncedPart, r
<1>3. /\ [records |-> r, synced |-> file.synced] \in File(D)
      /\ Len(r) = file.synced
      /\ \A i \in 1 .. file.synced : r[i] = file.records[i]
      /\ file.synced = Len(file.records) => r = file.records
  BY <1>1, CutRight
<1> HIDE DEF r
<1>4. SyncedPart(file) \in File(D) /\ SyncedPart(file).records = r
  BY <1>2, <1>3
<1>5. Range(Records(SyncedPart(file))) \subseteq Range(Records(file))
  BY <1>1, <1>3, <1>4, PrefixRecords
<1>6. file.synced = Len(file.records) => Records(SyncedPart(file)) = Records(file)
  BY <1>3, <1>4, SameRecords
<1> QED
  BY <1>4, <1>5, <1>6 DEF r

(* What a crash leaves of a file is synced; it is a part of what was there,*)
(* and what was synced is in it.                                           *)
LEMMA LeftRight ==
  ASSUME NEW D, NEW file \in File(D), file.synced <= Len(file.records),
         NEW left \in LeftOf(file)
  PROVE  /\ left \in File(D) /\ left.synced = Len(left.records)
         /\ Range(Records(left)) \subseteq Range(Records(file))
         /\ Range(Records(SyncedPart(file))) \subseteq Range(Records(left))
<1>1. file.synced \in Nat /\ Len(file.records) \in Nat
  BY DEF File
<1>2. PICK n \in file.synced .. Len(file.records) :
        \/ left = [records |-> SubSeq(file.records, 1, n), synced |-> n]
        \/ /\ n < Len(file.records)
           /\ left = [records |-> Append(SubSeq(file.records, 1, n), Torn), synced |-> n + 1]
  BY LeftIsCut
<1> DEFINE r == SubSeq(file.records, 1, n)
           cut == [records |-> r, synced |-> n]
<1>3. n \in 0 .. Len(file.records) /\ n \in Nat /\ n + 1 \in Nat /\ file.synced <= n
  BY <1>1
<1>4. /\ cut \in File(D) /\ Len(r) = n /\ \A i \in 1 .. n : r[i] = file.records[i]
      /\ Len(Append(r, Torn)) = n + 1
      /\ [records |-> Append(r, Torn), synced |-> n + 1] \in File(D)
  BY <1>3, CutRight
<1> DEFINE torn == Append(r, Torn)
<1>5. left = [records |-> r, synced |-> n] \/ left = [records |-> torn, synced |-> n + 1]
  BY <1>2
<1>6. [records |-> torn, synced |-> n + 1] \in File(D) /\ Len(torn) = n + 1
  BY <1>4
<1> HIDE DEF r, torn
<1>7. /\ left \in File(D) /\ left.synced = Len(left.records)
      /\ (left.records = r \/ left.records = torn)
  <2>1. CASE left = [records |-> r, synced |-> n]
    BY <1>4, <2>1
  <2>2. CASE left = [records |-> torn, synced |-> n + 1]
    BY <1>6, <2>2
  <2> QED
    BY <1>5, <2>1, <2>2
<1>8. Records(left) = Records(cut)
  BY <1>4, <1>7, SameRecords, TornRecords DEF torn
<1>9. cut.records = r
  OBVIOUS
<1> HIDE DEF cut
<1>10. Range(Records(cut)) \subseteq Range(Records(file))
  BY <1>3, <1>4, <1>9, PrefixRecords
<1>11. /\ SyncedPart(file) \in File(D)
      /\ SyncedPart(file).records = SubSeq(file.records, 1, file.synced)
  BY SyncedPartRight
<1>12. /\ Len(SyncedPart(file).records) = file.synced
       /\ \A i \in 1 .. file.synced : SyncedPart(file).records[i] = file.records[i]
  <2>1. file.synced \in 0 .. Len(file.records)
    BY <1>1
  <2> QED
    BY <1>1, <1>11, <2>1, CutRight
<1>13. \A i \in 1 .. file.synced : i \in 1 .. n
  BY <1>1, <1>3
<1>14. Range(Records(SyncedPart(file))) \subseteq Range(Records(cut))
  BY <1>3, <1>4, <1>9, <1>11, <1>12, <1>13, PrefixRecords, ZenonT(40)
<1> QED
  BY <1>7, <1>8, <1>10, <1>14

(* Nothing is lost of a file that is synced.                               *)
LEMMA LeftOfSynced ==
  ASSUME NEW D, NEW file \in File(D), file.synced = Len(file.records)
  PROVE  LeftOf(file) = {file}
<1>1. file.synced \in Nat /\ Len(file.records) \in Nat
  BY DEF File
<1> DEFINE N == Len(file.records)
           kept == {SubSeq(file.records, 1, n) : n \in file.synced .. N}
           torn == {Append(r, Torn) : r \in {s \in kept : Len(s) < N}}
<1>2. SubSeq(file.records, 1, N) = file.records
  <2>1. N \in 0 .. N
    BY <1>1
  <2> QED
    BY <2>1, CutRight
<1>3. file.synced .. N = {N}
  BY <1>1
<1>4. kept = {file.records}
  BY <1>2, <1>3
<1>5. torn = {}
  BY <1>1, <1>4
<1>6. LeftOf(file) = {[records |-> r, synced |-> Len(r)] : r \in kept \cup torn}
  BY DEF LeftOf
<1>7. file = [records |-> file.records, synced |-> file.synced]
  BY DEF File
<1> QED
  BY <1>4, <1>5, <1>6, <1>7

(* The manifest as it is is one of those that may be left.                 *)
LEMMA SavedSurvives ==
  ASSUME NEW file \in File(EditType), file.synced <= Len(file.records)
  PROVE  Replay(Records(file)) \in SavedAfter(file)
<1>1. file.synced \in Nat /\ Len(file.records) \in Nat
  BY DEF File
<1> DEFINE N == Len(file.records)
           whole == [records |-> file.records, synced |-> N]
<1>2. SubSeq(file.records, 1, N) = file.records
  <2>1. N \in 0 .. N
    BY <1>1
  <2> QED
    BY <2>1, CutRight
<1>3. N \in file.synced .. N
  BY <1>1
<1>4. whole \in LeftOf(file)
  BY <1>2, <1>3 DEF LeftOf
<1>5. Records(whole) = Records(file)
  BY SameRecords
<1> QED
  BY <1>4, <1>5 DEF SavedAfter

(* A manifest that is synced says the same after a crash.                  *)
LEMMA SurvivorOfSynced ==
  ASSUME NEW file \in File(EditType), file.synced = Len(file.records)
  PROVE  SavedAfter(file) = {Replay(Records(file))}
BY LeftOfSynced DEF SavedAfter

(* A record that is not synced yet is there after a crash or is not.       *)
LEMMA SurvivorsOfAppend ==
  ASSUME NEW file \in File(EditType), AllWhole(file), file.synced = Len(file.records),
         NEW e \in EditType
  PROVE  LET more == AddRecord(file, e)
         IN  /\ Replay(Records(more)) = ApplyEdit(Replay(Records(file)), e)
             /\ SavedAfter(more) \subseteq {Replay(Records(file)), Replay(Records(more))}
<1> DEFINE more == AddRecord(file, e)
           N == Len(file.records)
<1>1. /\ more \in File(EditType) /\ AllWhole(more)
      /\ more.synced = file.synced /\ Len(more.records) = N + 1
      /\ more.records = Append(file.records, Whole(e))
      /\ Records(more) = Append(Records(file), e)
  BY AddRecordRight
<1>2. N \in Nat /\ file.records \in Seq({Torn} \cup Wholes(EditType))
  BY DEF File
<1> HIDE DEF more
<1>3. Replay(Records(more)) = ApplyEdit(Replay(Records(file)), e)
  BY <1>1, ReplayRight, RecordsType
<1>4. ASSUME NEW left \in LeftOf(more)
      PROVE  Records(left) \in {Records(file), Records(more)}
  <2>1. PICK n \in N .. N + 1 :
          \/ left = [records |-> SubSeq(more.records, 1, n), synced |-> n]
          \/ /\ n < N + 1
             /\ left = [records |-> Append(SubSeq(more.records, 1, n), Torn), synced |-> n + 1]
    <3>1. more.synced = N /\ more.synced <= Len(more.records)
      BY <1>1, <1>2
    <3>2. \E n \in more.synced .. Len(more.records) :
            \/ left = [records |-> SubSeq(more.records, 1, n), synced |-> n]
            \/ /\ n < Len(more.records)
               /\ left = [records |-> Append(SubSeq(more.records, 1, n), Torn), synced |-> n + 1]
      BY <1>1, <3>1, LeftIsCut
    <3> QED
      BY <1>1, <3>1, <3>2
  <2>2. SubSeq(more.records, 1, N + 1) = more.records
    <3>1. N + 1 \in 0 .. N + 1
      BY <1>2
    <3> QED
      BY <1>1, <3>1, CutRight
  <2>3. SubSeq(more.records, 1, N) = file.records
    <3>1. N \in 0 .. N + 1
      BY <1>2
    <3> DEFINE r == SubSeq(more.records, 1, N)
    <3>2. Len(r) = N /\ \A i \in 1 .. N : r[i] = more.records[i]
      BY <1>1, <1>2, <3>1, CutRight
    <3>3. r \in Seq({Torn} \cup Wholes(EditType))
      <4>1. [records |-> r, synced |-> 0] \in File(EditType)
        BY <1>1, <3>1, CutRight
      <4> QED
        BY <4>1 DEF File
    <3>4. \A i \in 1 .. N : more.records[i] = file.records[i]
      BY <1>1, <1>2
    <3> HIDE DEF r
    <3> QED
      BY <1>2, <3>2, <3>3, <3>4 DEF r
  <2>4. CASE n = N + 1
    BY <1>2, <2>1, <2>2, <2>4, SameRecords
  <2>5. CASE n = N
    <3> DEFINE r == SubSeq(more.records, 1, N)
               torn == Append(r, Torn)
    <3>1. left = [records |-> r, synced |-> N] \/ left = [records |-> torn, synced |-> N + 1]
      BY <2>1, <2>5
    <3> HIDE DEF r, torn
    <3>2. left.records = r \/ left.records = torn
      BY <3>1
    <3>3. left.records = file.records \/ left.records = Append(file.records, Torn)
      BY <2>3, <3>2 DEF r, torn
    <3> QED
      BY <3>3, SameRecords, TornRecords
  <2> QED
    BY <1>2, <2>4, <2>5
<1> QED
  BY <1>3, <1>4 DEF SavedAfter, more

-----------------------------------------------------------------------------
(* Lemmas on what a step leaves as it is.                                  *)

(* The value of a field that is there.                                     *)
LEMMA TheOne == \A x : The({x}) = x
BY DEF The

(* A file is put in its place, and all are files.                          *)
LEMMA PutType ==
  ASSUME NEW T, NEW files, files \in [DOMAIN files -> T], NEW n, NEW file \in T
  PROVE  Put(files, n, file) \in [DOMAIN Put(files, n, file) -> T]
BY DEF Put

(* A file is deleted, and those left are files.                            *)
LEMMA WithoutType ==
  ASSUME NEW T, NEW files, files \in [DOMAIN files -> T], NEW S
  PROVE  Without(files, S) \in [DOMAIN Without(files, S) -> T]
BY DEF Without

(* Nothing is lost of an empty file.                                       *)
LEMMA EmptyEntries ==
  Range(Records(EmptyFile)) = {} /\ Range(Records(SyncedPart(EmptyFile))) = {}
<1>1. /\ EmptyFile \in File(Entry) /\ EmptyFile.synced <= Len(EmptyFile.records)
      /\ Range(Records(EmptyFile)) = {}
  BY EmptyFileRight
<1> QED
  BY <1>1, SyncedPartRight

(* The files a state of the manifest speaks of stay, and new logs are      *)
(* empty.                                                                  *)
Keeps(state) ==
  /\ \A n \in state.added : n \in DOMAIN tables' /\ tables'[n] = tables[n]
  /\ \A n \in DOMAIN logs : n >= The(state.log) => n \in DOMAIN logs' /\ logs'[n] = logs[n]
  /\ \A n \in DOMAIN logs' : n >= The(state.log) => n \in DOMAIN logs \/ logs'[n] = EmptyFile

(* What Open finds by a state whose files are kept.                        *)
LEMMA FoundSame ==
  ASSUME NEW state, Keeps(state)
  PROVE  /\ Found(state)' = Found(state)
         /\ FoundSynced(state)' = FoundSynced(state)
         /\ EntriesIn(state.added)' = EntriesIn(state.added)
<1> DEFINE log == The(state.log)
           read == UNION {LogEntries(n) : n \in LogsFrom(log)}
           kept == UNION {KeptEntries(n) : n \in LogsFrom(log)}
<1>1. EntriesIn(state.added)' = EntriesIn(state.added)
  BY DEF Keeps, EntriesIn
<1>2. \A n \in LogsFrom(log) : n \in LogsFrom(log)'
                               /\ LogEntries(n)' = LogEntries(n) /\ KeptEntries(n)' = KeptEntries(n)
  BY DEF Keeps, LogsFrom, LogEntries, KeptEntries
<1>3. \A n \in LogsFrom(log)' : n \in LogsFrom(log) \/ (LogEntries(n)' = {} /\ KeptEntries(n)' = {})
  BY EmptyEntries DEF Keeps, LogsFrom, LogEntries, KeptEntries
<1>4. read' = read /\ kept' = kept
  BY <1>2, <1>3
<1> QED
  BY <1>1, <1>4 DEF Found, FoundSynced

(* A sound state of the manifest stays sound.                              *)
LEMMA SoundKept ==
  ASSUME NEW state, Sound(state), Keeps(state), synced' = synced, CURRENT' = CURRENT
  PROVE  Sound(state)'
<1>1. /\ Found(state)' = Found(state) /\ FoundSynced(state)' = FoundSynced(state)
      /\ EntriesIn(state.added)' = EntriesIn(state.added)
  BY FoundSame
<1>2. state.added \subseteq DOMAIN tables'
  BY DEF Keeps
<1>3. Fields(state)'
  BY <1>1 DEF Sound, Fields
<1> QED
  BY <1>1, <1>2, <1>3 DEF Sound

(* The manifest in use: what it says now may be left of it.                *)
LEMMA SavedRight ==
  ASSUME TypeInv, FilesInv, CURRENT \in DOMAIN manifests
  PROVE  /\ manifests[CURRENT] \in File(EditType)
         /\ Saved \in Survivors /\ Saved \in EditType
<1>1. /\ manifests[CURRENT] \in File(EditType)
      /\ manifests[CURRENT].synced <= Len(manifests[CURRENT].records)
  BY DEF TypeInv, FilesInv
<1> QED
  BY <1>1, SavedSurvives, RecordsType, ReplayRight DEF Saved, Survivors

(* What Open sees of the manifest has its fields, and so has every other   *)
(* state that is sound.                                                    *)
LEMMA SoundFields ==
  ASSUME NEW state, Sound(state)
  PROVE  /\ state # NoEdit
         /\ \E log, next, sequence \in Nat :
              /\ state.log = {log} /\ state.next = {next} /\ state.sequence = {sequence}
              /\ The(state.log) = log /\ The(state.next) = next /\ The(state.sequence) = sequence
              /\ log < next /\ CURRENT < next
              /\ \A n \in state.added : n < next
              /\ UpTo(EntriesIn(state.added), sequence)
<1>1. state # NoEdit
  <2>1. NoEdit.log = {}
    BY DEF NoEdit, Edit
  <2> QED
    BY <2>1 DEF Sound, Fields
<1> QED
  BY <1>1, TheOne DEF Sound, Fields

(* While Open runs, and later, the manifest in use can be read.            *)
LEMMA SavedIsSound ==
  ASSUME RecoveryInv, pc \notin {"down", "newdb"}
  PROVE  /\ CURRENT # 0 /\ CURRENT \in DOMAIN manifests
         /\ manifests[CURRENT] \in File(EditType)
         /\ Saved \in Survivors /\ Saved \in EditType /\ Saved # NoEdit /\ Sound(Saved)
         /\ written \subseteq Found(Saved)
         /\ \A state \in Survivors : \A n \in state.added : n < The(Saved.next)
<1> USE DEF RecoveryInv
<1>1. CURRENT # 0 /\ CURRENT \in DOMAIN manifests /\ Saved # NoEdit
  BY DEF DiskInv
<1>2. manifests[CURRENT] \in File(EditType) /\ Saved \in Survivors /\ Saved \in EditType
  BY <1>1, SavedRight
<1>3. Sound(Saved)
  BY <1>1, <1>2 DEF DiskInv
<1> QED
  BY <1>1, <1>2, <1>3 DEF DiskInv

(* A step that leaves the manifest in use, and the files it speaks of.     *)
LEMMA DiskKept ==
  ASSUME TypeInv, FilesInv, DiskInv, CURRENT # 0, CURRENT' = CURRENT,
         CURRENT \in DOMAIN manifests', manifests'[CURRENT] = manifests[CURRENT],
         written' = written, synced' = synced,
         \A state \in Survivors : Sound(state) => Keeps(state),
         Saved = NoEdit => pc' = "down"
  PROVE  /\ DiskInv' /\ Saved' = Saved /\ Survivors' = Survivors
         /\ Saved # NoEdit => Found(Saved)' = Found(Saved)
         /\ \A state \in Survivors : Sound(state) => Found(state)' = Found(state)
<1>1. Saved' = Saved /\ Survivors' = Survivors
  BY DEF Saved, Survivors
<1>2. Saved \in Survivors
  BY SavedRight DEF DiskInv
<1>3. \A state \in Survivors : Sound(state) => Sound(state)' /\ Found(state)' = Found(state)
  BY SoundKept, FoundSame
<1>4. Saved # NoEdit => Sound(Saved)
  BY <1>2 DEF DiskInv
<1>5. PICK saved : saved = Saved
  OBVIOUS
<1>6. saved = Saved'
  BY <1>1, <1>5
<1>7. Found(Saved) = Found(saved) /\ Found(Saved)' = Found(saved)'
  BY <1>5, <1>6 DEF Found
<1>8. Saved # NoEdit => Found(Saved)' = Found(Saved)
  BY <1>2, <1>3, <1>4, <1>5, <1>7
<1>9. DiskInv'
  <2>1. CURRENT' # 0
    OBVIOUS
  <2>2. CURRENT' \in DOMAIN manifests'
    OBVIOUS
  <2>3. \A state \in Survivors' : Sound(state)' \/ (CURRENT' = 1 /\ state = NoEdit)
    BY <1>1, <1>3 DEF DiskInv
  <2>4. Saved' # NoEdit =>
          /\ written' \subseteq Found(Saved)'
          /\ \A state \in Survivors' : \A n \in state.added : n < The(Saved'.next)
    BY <1>1, <1>8 DEF DiskInv
  <2>5. Saved' = NoEdit => pc' = "down"
    BY <1>1
  <2> QED
    BY <2>1, <2>2, <2>3, <2>4, <2>5 DEF DiskInv
<1> QED
  BY <1>1, <1>3, <1>8, <1>9

-----------------------------------------------------------------------------
(* Open: the first manifest, and what it says.                             *)

NewEdit == Edit({}, {}, {0}, {2}, {0})

(* What a crash leaves of the first manifest: its edit or nothing.         *)
LEMMA NewEditRight ==
  /\ NewEdit \in EditType /\ AddRecord(EmptyFile, NewEdit) \in File(EditType)
  /\ AllWhole(AddRecord(EmptyFile, NewEdit))
  /\ AddRecord(EmptyFile, NewEdit).synced = 0 /\ Len(AddRecord(EmptyFile, NewEdit).records) = 1
  /\ SavedAfter(AddRecord(EmptyFile, NewEdit)) \subseteq {NoEdit, NewEdit}
  /\ Replay(Records(AddRecord(EmptyFile, NewEdit))) = NewEdit
<1>1. NewEdit \in EditType
  BY DEF NewEdit, Edit, EditType
<1>2. /\ EmptyFile \in File(EditType) /\ AllWhole(EmptyFile)
      /\ EmptyFile.synced = 0 /\ Len(EmptyFile.records) = 0
      /\ Replay(Records(EmptyFile)) = NoEdit
  BY EmptyFileRight, ReplayRight
<1>3. ApplyEdit(NoEdit, NewEdit) = NewEdit
  BY DEF ApplyEdit, NoEdit, NewEdit, Edit
<1> HIDE DEF NewEdit
<1>4. /\ AddRecord(EmptyFile, NewEdit) \in File(EditType)
      /\ AllWhole(AddRecord(EmptyFile, NewEdit))
      /\ AddRecord(EmptyFile, NewEdit).synced = 0
      /\ Len(AddRecord(EmptyFile, NewEdit).records) = 1
  <2>1. /\ AddRecord(EmptyFile, NewEdit) \in File(EditType)
        /\ AllWhole(AddRecord(EmptyFile, NewEdit))
        /\ AddRecord(EmptyFile, NewEdit).synced = EmptyFile.synced
        /\ Len(AddRecord(EmptyFile, NewEdit).records) = Len(EmptyFile.records) + 1
    BY <1>1, <1>2, AddRecordRight, ZenonT(40)
  <2> QED
    BY <1>2, <2>1
<1> QED
  BY <1>1, <1>2, <1>3, <1>4, SurvivorsOfAppend

(* NewDB keeps the invariant.                                              *)
LEMMA NewDBKeeps ==
  ASSUME RecoveryInv, NewDB
  PROVE  RecoveryInv'
<1> USE DEF RecoveryInv
<1> DEFINE file == AddRecord(EmptyFile, NewEdit)
<1>1. /\ pc = "down" /\ CURRENT = 0 /\ pc' = "newdb" /\ manifests' = Put(manifests, 1, file)
      /\ CURRENT' = CURRENT /\ logs' = logs /\ tables' = tables /\ vs' = vs /\ reuse' = reuse
      /\ save' = save /\ todo' = todo /\ edit' = edit /\ mem' = mem /\ imm' = imm
      /\ logfile' = logfile /\ flushing' = flushing /\ apply' = apply /\ record' = record
      /\ collect' = collect /\ bg_error' = bg_error /\ written' = written /\ synced' = synced
      /\ incarnation' = incarnation
  BY DEF NewDB, NewEdit, openVars, memVars, applyVars, ghostVars
<1>2. file \in File(EditType) /\ file.synced = 0 /\ Len(file.records) = 1
  BY NewEditRight
<1> HIDE DEF file
<1>3. /\ DOMAIN manifests' = DOMAIN manifests \cup {1} /\ manifests'[1] = file
      /\ \A m \in DOMAIN manifests : m # 1 => manifests'[m] = manifests[m]
      /\ manifests' \in [DOMAIN manifests' -> File(EditType)]
  <2>1. manifests \in [DOMAIN manifests -> File(EditType)]
    BY DEF TypeInv
  <2>2. manifests' \in [DOMAIN manifests' -> File(EditType)]
    BY <1>1, <1>2, <2>1, PutType
  <2>3. manifests' = Put(manifests, 1, file)
    BY <1>1
  <2> QED
    BY <2>2, <2>3 DEF Put
<1>4. TypeInv'
  BY <1>1, <1>3 DEF TypeInv
<1>5. FilesInv'
  BY <1>1, <1>2, <1>3 DEF FilesInv
<1>6. DiskInv'
  BY <1>1 DEF DiskInv
<1>7. DownInv'
  BY <1>1, <1>3 DEF DownInv, file, NewEdit
<1>8. RecoveredInv' /\ SaveInv' /\ UpInv' /\ FlushInv'
  BY <1>1 DEF RecoveredInv, SaveInv, UpInv, FlushInv
<1> QED
  BY <1>4, <1>5, <1>6, <1>7, <1>8

(* CURRENT names the first manifest.                                       *)
LEMMA NewDBSetCurrentKeeps ==
  ASSUME RecoveryInv, NewDBSetCurrent
  PROVE  RecoveryInv'
<1> USE DEF RecoveryInv
<1> DEFINE file == AddRecord(EmptyFile, NewEdit)
<1>1. /\ pc = "newdb" /\ CURRENT' = 1 /\ pc' = "open" /\ manifests' = manifests
      /\ logs' = logs /\ tables' = tables /\ vs' = vs /\ reuse' = reuse
      /\ save' = save /\ todo' = todo /\ edit' = edit /\ mem' = mem /\ imm' = imm
      /\ logfile' = logfile /\ flushing' = flushing /\ apply' = apply /\ record' = record
      /\ collect' = collect /\ bg_error' = bg_error /\ written' = written /\ synced' = synced
      /\ incarnation' = incarnation
  BY DEF NewDBSetCurrent, openVars, memVars, applyVars, ghostVars
<1>2. CURRENT = 0 /\ 1 \in DOMAIN manifests /\ manifests[1] = file
  BY <1>1 DEF DownInv, NewEdit
<1>3. DOMAIN logs = {} /\ DOMAIN tables = {} /\ written = {} /\ synced = {}
  BY <1>1, <1>2 DEF DiskInv
<1>4. Survivors' \subseteq {NoEdit, NewEdit} /\ Saved' = NewEdit
  BY <1>1, <1>2, NewEditRight DEF Survivors, Saved
<1>5. /\ NewEdit.added = {} /\ NewEdit.log = {0} /\ NewEdit.next = {2} /\ NewEdit.sequence = {0}
      /\ NewEdit # NoEdit /\ NoEdit.added = {}
  BY DEF NewEdit, NoEdit, Edit
<1>6. Sound(NewEdit)'
  <2>1. Found(NewEdit)' = {}
    BY <1>1, <1>3, <1>5 DEF Found, EntriesIn, LogsFrom
  <2>2. EntriesIn(NewEdit.added)' = {}
    BY <1>5 DEF EntriesIn
  <2>3. Fields(NewEdit)'
    <3>1. UpTo({}, 0) /\ 0 \in Nat /\ 2 \in Nat
      BY DEF UpTo
    <3>2. UpTo(EntriesIn(NewEdit.added), 0)'
      BY <2>2 DEF UpTo
    <3> QED
      BY <1>1, <1>5, <3>2 DEF Fields
  <2>4. Unique(Found(NewEdit))'
    BY <2>1 DEF Unique
  <2> QED
    BY <1>1, <1>3, <1>5, <2>3, <2>4 DEF Sound
<1>7. DiskInv'
  <2>1. \A state \in Survivors' : Sound(state)' \/ (CURRENT' = 1 /\ state = NoEdit)
    BY <1>1, <1>4, <1>6
  <2>2. written' \subseteq Found(Saved)'
    BY <1>1, <1>3
  <2>3. \A state \in Survivors' : \A n \in state.added : n < The(Saved'.next)
    BY <1>4, <1>5
  <2> QED
    BY <1>1, <1>2, <1>4, <1>5, <2>1, <2>2, <2>3 DEF DiskInv
<1>8. TypeInv' /\ FilesInv'
  BY <1>1 DEF TypeInv, FilesInv
<1>9. DownInv'
  BY <1>1 DEF DownInv
<1>10. RecoveredInv' /\ SaveInv' /\ UpInv' /\ FlushInv'
  BY <1>1 DEF RecoveredInv, SaveInv, UpInv, FlushInv
<1> QED
  BY <1>7, <1>8, <1>9, <1>10

(* Recover, when the manifest is not reused, keeps the invariant.          *)
LEMMA RecoverKeeps ==
  ASSUME RecoveryInv, Recover, ReuseLogs \subseteq {FALSE}
  PROVE  RecoveryInv'
<1> USE DEF RecoveryInv
<1>1. /\ pc \in {"down", "open"} /\ CURRENT # 0 /\ pc' = "logs"
      /\ ~ reuse' /\ save' /\ edit' = NoEdit /\ todo' = LogsFrom(The(Saved.log))
      /\ vs' = [files |-> Saved.added, log_number |-> The(Saved.log),
                next_file |-> The(Saved.next) + 1, last_sequence |-> The(Saved.sequence),
                manifest |-> The(Saved.next), open |-> FALSE]
  BY DEF Recover, ReuseManifest
<1>2. /\ manifests' = manifests /\ CURRENT' = CURRENT /\ logs' = logs /\ tables' = tables
      /\ mem' = mem /\ imm' = imm /\ logfile' = logfile /\ flushing' = flushing
      /\ apply' = apply /\ record' = record /\ collect' = collect /\ bg_error' = bg_error
      /\ written' = written /\ synced' = synced /\ incarnation' = incarnation
  BY DEF Recover, diskVars, memVars, applyVars, ghostVars
<1>3. CURRENT \in DOMAIN manifests
  BY <1>1 DEF DiskInv
<1>4. Saved # NoEdit
  <2>1. NoEdit.log = {}
    BY DEF NoEdit, Edit
  <2> QED
    BY <2>1 DEF Recover, Readable
<1>5. Saved \in Survivors /\ Saved \in EditType /\ Sound(Saved)
  BY <1>1, <1>3, <1>4, SavedRight DEF DiskInv
<1>6. PICK saved : saved = Saved
  OBVIOUS
<1>7. PICK log, next, sequence \in Nat :
        /\ saved.log = {log} /\ saved.next = {next} /\ saved.sequence = {sequence}
        /\ The(saved.log) = log /\ The(saved.next) = next /\ The(saved.sequence) = sequence
        /\ log < next /\ CURRENT < next /\ \A n \in saved.added : n < next
        /\ UpTo(EntriesIn(saved.added), sequence)
  BY <1>5, <1>6, SoundFields
<1>8. /\ vs'.files = saved.added /\ vs'.log_number = log /\ vs'.next_file = next + 1
      /\ vs'.last_sequence = sequence /\ vs'.manifest = next /\ ~ vs'.open
      /\ vs' \in VersionsType
  BY <1>1, <1>5, <1>6, <1>7 DEF VersionsType, EditType
<1>9. /\ DiskInv' /\ Saved' = Saved
  <2>1. \A state \in Survivors : Sound(state) => Keeps(state)
    BY <1>2 DEF Keeps, Sound
  <2> QED
    BY <1>1, <1>2, <1>3, <1>4, <2>1, DiskKept
<1>10. TypeInv'
  <2>1. LogsFrom(log) \in SUBSET Nat
    BY DEF LogsFrom, TypeInv
  <2> QED
    BY <1>1, <1>2, <1>6, <1>7, <1>8, <2>1, NoEditType DEF TypeInv
<1>11. FilesInv'
  BY <1>2 DEF FilesInv
<1>12. DownInv'
  BY <1>1, <1>2 DEF DownInv
<1>13. RecoveredInv'
  <2>1. edit'.deleted = {} /\ edit'.log = {} /\ edit'.added = {}
    BY <1>1 DEF NoEdit, Edit
  <2>2. todo' = LogsFrom(vs.log_number)'
    BY <1>1, <1>2, <1>6, <1>7, <1>8 DEF LogsFrom
  <2>3. EntriesIn(edit.added)' = {}
    BY <2>1 DEF EntriesIn
  <2>4. UpTo(EntriesIn(vs.files \cup edit.added)', vs'.last_sequence)
    <3>1. vs'.files \cup edit'.added = saved.added
      BY <1>8, <2>1
    <3> QED
      BY <1>2, <1>7, <1>8, <3>1 DEF UpTo, EntriesIn
  <2>5. logfile' = 0
    BY <1>1, <1>2 DEF DownInv
  <2>6. Saved' = saved
    BY <1>6, <1>9
  <2>7. /\ Saved'.log = {vs'.log_number} /\ Saved'.next = {vs'.manifest}
        /\ vs'.files = Saved'.added /\ vs'.manifest < vs'.next_file
    BY <1>7, <1>8, <2>6
  <2>8. CURRENT' # 0 /\ ~ vs'.open /\ save' /\ edit'.added \subseteq DOMAIN tables'
    BY <1>1, <1>2, <1>8, <2>1
  <2>9. \A n \in edit'.added : vs'.manifest < n /\ n < vs'.next_file
    BY <2>1
  <2>10. LogsFrom(vs.log_number)' \ todo' = {}
    BY <2>2
  <2> QED
    BY <2>1, <2>2, <2>3, <2>4, <2>5, <2>7, <2>8, <2>9, <2>10 DEF RecoveredInv
<1>14. SaveInv' /\ UpInv' /\ FlushInv'
  BY <1>1 DEF SaveInv, UpInv, FlushInv
<1> QED
  BY <1>9, <1>10, <1>11, <1>12, <1>13, <1>14

(* What the number of the next file is, after one that was found.          *)
LEMMA MarkRight ==
  ASSUME NEW next \in Nat, NEW number \in Nat
  PROVE  /\ MarkFileNumberUsed(next, number) \in Nat
         /\ next <= MarkFileNumberUsed(next, number)
         /\ number < MarkFileNumberUsed(next, number)
BY DEF MarkFileNumberUsed

(* While Open runs, the tables of the manifest, and its logs, have numbers *)
(* below the next one.                                                     *)
LEMMA OpeningNumbers ==
  ASSUME RecoveryInv, pc \in {"logs", "save"}, apply # "install"
  PROVE  /\ Saved.log = {vs.log_number} /\ Saved.next = {vs.manifest}
         /\ The(Saved.log) = vs.log_number /\ The(Saved.next) = vs.manifest
         /\ vs.log_number < vs.manifest /\ CURRENT < vs.manifest
         /\ \A state \in Survivors : \A n \in state.added : n < vs.manifest
         /\ \A n \in vs.files : n < vs.manifest
         /\ \A n \in DOMAIN logs : n \notin todo => n < vs.next_file
         /\ vs.files = Saved.added /\ vs.files \subseteq DOMAIN tables
         /\ UpTo(EntriesIn(vs.files), vs.last_sequence)
<1> USE DEF RecoveryInv
<1>1. /\ Saved.log = {vs.log_number} /\ Saved.next = {vs.manifest} /\ vs.files = Saved.added
      /\ vs.manifest < vs.next_file
      /\ UpTo(EntriesIn(vs.files \cup edit.added), vs.last_sequence)
      /\ \A n \in LogsFrom(vs.log_number) \ todo : n < vs.next_file
  BY DEF RecoveredInv
<1>2. The(Saved.log) = vs.log_number /\ The(Saved.next) = vs.manifest
  BY <1>1, TheOne
<1>3. /\ Saved \in Survivors /\ Sound(Saved)
      /\ \A state \in Survivors : \A n \in state.added : n < The(Saved.next)
  BY SavedIsSound
<1>4. Fields(Saved) /\ Saved.added \subseteq DOMAIN tables
  BY <1>3 DEF Sound
<1>5. PICK saved : saved = Saved
  OBVIOUS
<1>6. PICK log, next, sequence \in Nat :
        /\ saved.log = {log} /\ saved.next = {next} /\ log < next /\ CURRENT < next
  BY <1>4, <1>5 DEF Fields
<1>7. log = vs.log_number /\ next = vs.manifest
  BY <1>1, <1>5, <1>6
<1>8. /\ vs.log_number \in Nat /\ vs.manifest \in Nat /\ vs.next_file \in Nat
      /\ DOMAIN logs \subseteq Nat
  BY DEF TypeInv, VersionsType
<1>9. \A n \in DOMAIN logs : n \notin todo => n < vs.next_file
  <2> SUFFICES ASSUME NEW n \in DOMAIN logs, n \notin todo PROVE n < vs.next_file
    OBVIOUS
  <2>1. CASE n >= vs.log_number
    BY <1>1, <2>1 DEF LogsFrom
  <2>2. CASE ~ (n >= vs.log_number)
    BY <1>1, <1>6, <1>7, <1>8, <2>2
  <2> QED
    BY <2>1, <2>2
<1>10. UpTo(EntriesIn(vs.files), vs.last_sequence)
  BY <1>1 DEF UpTo, EntriesIn
<1> QED
  BY <1>1, <1>2, <1>3, <1>4, <1>6, <1>7, <1>9, <1>10

(* RecoverLogFile writes the entries of the oldest log left to tables, and *)
(* keeps the invariant.                                                    *)
LEMMA RecoverLogFileKeeps ==
  ASSUME RecoveryInv, RecoverLogFile
  PROVE  RecoveryInv'
<1> USE DEF RecoveryInv
<1> DEFINE number == Least(todo)
           entries == Records(logs[number])
           new == Tables(entries)
           numbers == {vs.next_file + i - 1 : i \in DOMAIN new}
           last == Greatest({vs.last_sequence} \cup {e[1] : e \in Range(entries)})
           next == MarkFileNumberUsed(vs.next_file + Len(new), number)
<1>1. /\ pc = "logs" /\ todo # {} /\ ~ reuse
      /\ CURRENT' = CURRENT /\ manifests' = manifests /\ logs' = logs /\ pc' = pc
      /\ reuse' = reuse /\ imm' = imm /\ flushing' = flushing /\ apply' = apply
      /\ record' = record /\ collect' = collect /\ bg_error' = bg_error
      /\ written' = written /\ synced' = synced /\ incarnation' = incarnation
  BY DEF RecoverLogFile, TypeInv, applyVars, ghostVars
<1>2. /\ mem' = mem /\ logfile' = logfile
      /\ tables' = [n \in DOMAIN tables \cup numbers |->
                      IF n \in numbers THEN new[n - vs.next_file + 1] ELSE tables[n]]
      /\ edit' = [edit EXCEPT !.added = @ \cup numbers]
      /\ todo' = todo \ {number}
      /\ save' = (save \/ new # << >>)
      /\ vs' = [vs EXCEPT !.next_file = next, !.last_sequence = last]
  BY <1>1 DEF RecoverLogFile
<1>3. /\ number \in todo /\ number \in Nat /\ todo \in SUBSET Nat
  <2>1. todo \in SUBSET Nat
    BY DEF TypeInv
  <2> QED
    BY <1>1, <2>1, LeastNumber
<1>4. /\ apply = "none" /\ logfile = 0 /\ vs \in VersionsType /\ edit \in EditType
      /\ vs.next_file \in Nat /\ vs.last_sequence \in Nat /\ vs.manifest \in Nat
  BY <1>1 DEF DownInv, RecoveredInv, TypeInv, VersionsType
<1>5. /\ CURRENT # 0 /\ ~ vs.open /\ save
      /\ Saved.log = {vs.log_number} /\ Saved.next = {vs.manifest} /\ vs.files = Saved.added
      /\ vs.manifest < vs.next_file
      /\ edit.deleted = {} /\ edit.log = {}
      /\ edit.added \subseteq DOMAIN tables
      /\ \A n \in edit.added : vs.manifest < n /\ n < vs.next_file
      /\ EntriesIn(edit.added) \subseteq UNION {LogEntries(n) : n \in LogsFrom(vs.log_number)}
      /\ UpTo(EntriesIn(vs.files \cup edit.added), vs.last_sequence)
      /\ todo \subseteq LogsFrom(vs.log_number)
      /\ \A n \in LogsFrom(vs.log_number) \ todo :
           n < vs.next_file /\ LogEntries(n) \subseteq EntriesIn(edit.added)
  BY <1>1, <1>4 DEF RecoveredInv
<1>6. /\ \A state \in Survivors : \A n \in state.added : n < vs.manifest
      /\ \A n \in vs.files : n < vs.manifest
  BY <1>1, <1>4, OpeningNumbers
<1>7. number \in DOMAIN logs /\ logs[number] \in File(Entry)
  BY <1>3, <1>5 DEF LogsFrom, TypeInv
<1>8. entries \in Seq(Entry) /\ Range(entries) \subseteq Entry /\ LogEntries(number) = Range(entries)
  BY <1>7, RecordsType DEF LogEntries
<1> HIDE DEF number, entries
<1>9. /\ new \in Seq(SUBSET Entry)
      /\ \A i \in 1 .. Len(new) : new[i] \subseteq Range(entries)
      /\ \A e \in Range(entries) : \E i \in 1 .. Len(new) : e \in new[i]
  BY <1>8, TablesRight
<1>10. last \in Nat /\ vs.last_sequence <= last /\ \A e \in Range(entries) : e[1] <= last
  BY <1>4, <1>8, GreatestOfLog DEF Entry
<1> HIDE DEF new, last
<1>11. Len(new) \in Nat /\ DOMAIN new = 1 .. Len(new) /\ \A i \in 1 .. Len(new) : new[i] \in SUBSET Entry
  BY <1>9, ElementOfSeq
<1>12. /\ next \in Nat /\ vs.next_file + Len(new) <= next /\ number < next /\ vs.next_file <= next
  <2>1. vs.next_file + Len(new) \in Nat /\ vs.next_file <= vs.next_file + Len(new)
    BY <1>4, <1>11
  <2>2. next \in Nat /\ vs.next_file + Len(new) <= next /\ number < next
    BY <1>3, <2>1, MarkRight
  <2> HIDE DEF next
  <2> QED
    BY <1>4, <2>1, <2>2
<1> HIDE DEF next
<1>13. \A n \in numbers : /\ n \in Nat /\ vs.next_file <= n /\ n < next
                          /\ n - vs.next_file + 1 \in 1 .. Len(new)
  <2> SUFFICES ASSUME NEW i \in 1 .. Len(new)
               PROVE  LET n == vs.next_file + i - 1
                      IN  /\ n \in Nat /\ vs.next_file <= n /\ n < next
                          /\ n - vs.next_file + 1 \in 1 .. Len(new)
    BY <1>11
  <2> QED
    BY <1>4, <1>11, <1>12
<1>14. \A i \in 1 .. Len(new) :
         vs.next_file + i - 1 \in numbers /\ (vs.next_file + i - 1) - vs.next_file + 1 = i
  BY <1>4, <1>11
<1> HIDE DEF numbers
<1>15. /\ DOMAIN tables' = DOMAIN tables \cup numbers
       /\ \A n \in DOMAIN tables : n < vs.next_file => tables'[n] = tables[n]
       /\ \A n \in numbers : tables'[n] = new[n - vs.next_file + 1]
  <2>1. \A n \in DOMAIN tables : n \in Nat
    BY DEF TypeInv
  <2>2. \A n \in DOMAIN tables : n < vs.next_file => n \notin numbers
    BY <1>4, <1>13, <2>1
  <2> QED
    BY <1>2, <2>2
<1>16. \A n \in numbers : tables'[n] \in SUBSET Entry /\ tables'[n] \subseteq Range(entries)
  BY <1>9, <1>11, <1>13, <1>15
<1>17. /\ vs'.files = vs.files /\ vs'.log_number = vs.log_number /\ vs'.next_file = next
       /\ vs'.last_sequence = last /\ vs'.manifest = vs.manifest /\ ~ vs'.open
       /\ vs' \in VersionsType
  BY <1>2, <1>4, <1>5, <1>10, <1>12 DEF VersionsType
<1>18. /\ edit'.added = edit.added \cup numbers /\ edit'.deleted = {} /\ edit'.log = {}
       /\ edit' \in EditType
  BY <1>2, <1>4, <1>5, <1>13 DEF EditType
<1>19. TypeInv'
  <2>1. DOMAIN tables \subseteq Nat /\ tables \in [DOMAIN tables -> SUBSET Entry]
    BY DEF TypeInv
  <2>2. DOMAIN tables' \subseteq Nat
    BY <1>13, <1>15, <2>1
  <2>3. tables' \in [DOMAIN tables' -> SUBSET Entry]
    <3>1. \A n \in DOMAIN tables \cup numbers :
            (IF n \in numbers THEN new[n - vs.next_file + 1] ELSE tables[n]) \in SUBSET Entry
      BY <1>11, <1>13, <2>1
    <3> QED
      BY <1>2, <3>1
  <2> QED
    BY <1>1, <1>2, <1>17, <1>18, <2>2, <2>3 DEF TypeInv
<1>20. FilesInv'
  BY <1>1 DEF FilesInv
<1>21. DiskInv' /\ Saved' = Saved
  <2>1. \A state \in Survivors : Sound(state) => Keeps(state)
    <3> SUFFICES ASSUME NEW state \in Survivors, Sound(state) PROVE Keeps(state)
      OBVIOUS
    <3>1. \A n \in state.added : n \in DOMAIN tables /\ n < vs.next_file
      <4>1. \A n \in state.added : n \in DOMAIN tables /\ n \in Nat /\ n < vs.manifest
        BY <1>6 DEF Sound, TypeInv
      <4> QED
        BY <1>4, <1>5, <4>1
    <3> QED
      BY <1>1, <1>15, <3>1 DEF Keeps
  <2>2. CURRENT \in DOMAIN manifests /\ Saved # NoEdit
    BY <1>1, SavedIsSound
  <2> QED
    BY <1>1, <1>5, <2>1, <2>2, DiskKept
<1>22. DownInv'
  BY <1>1, <1>2 DEF DownInv
<1>23. EntriesIn(edit.added)' = EntriesIn(edit.added) \cup Range(entries)
  <2>1. \A n \in edit.added : tables'[n] = tables[n]
    BY <1>5, <1>15
  <2>2. Range(entries) \subseteq UNION {tables'[n] : n \in numbers}
    <3> SUFFICES ASSUME NEW e \in Range(entries) PROVE e \in UNION {tables'[n] : n \in numbers}
      OBVIOUS
    <3>1. PICK i \in 1 .. Len(new) : e \in new[i]
      BY <1>9
    <3> QED
      BY <1>14, <1>15, <3>1
  <2> QED
    BY <1>16, <1>18, <2>1, <2>2 DEF EntriesIn
<1>24. EntriesIn(vs.files)' = EntriesIn(vs.files)
  <2>1. vs.files \subseteq DOMAIN tables
    BY <1>1, <1>4, OpeningNumbers
  <2>2. \A n \in vs.files : n \in DOMAIN tables /\ n \in Nat /\ n < vs.next_file
    BY <1>4, <1>5, <1>6, <2>1 DEF TypeInv
  <2> QED
    BY <1>15, <1>17, <2>2 DEF EntriesIn
<1>25. \A n \in Nat : LogEntries(n)' = LogEntries(n)
  BY <1>1 DEF LogEntries
<1>26. LogsFrom(vs.log_number)' = LogsFrom(vs.log_number)
  BY <1>1, <1>17 DEF LogsFrom
<1>27. RecoveredInv'
  <2>1. /\ CURRENT' # 0 /\ ~ vs'.open /\ save'
        /\ Saved'.log = {vs'.log_number} /\ Saved'.next = {vs'.manifest}
        /\ vs'.files = Saved'.added
        /\ edit'.deleted = {} /\ edit'.log = {}
    BY <1>1, <1>2, <1>5, <1>17, <1>18, <1>21
  <2>2. vs'.manifest < vs'.next_file
    BY <1>4, <1>5, <1>12, <1>17
  <2>3. edit'.added \subseteq DOMAIN tables'
    BY <1>5, <1>15, <1>18
  <2>4. \A n \in edit'.added : vs'.manifest < n /\ n < vs'.next_file
    <3>1. \A n \in edit.added : n \in Nat /\ vs.manifest < n /\ n < next
      <4>1. \A n \in edit.added : n \in Nat
        BY <1>4 DEF EditType
      <4> QED
        BY <1>4, <1>5, <1>12, <4>1
    <3>2. \A n \in numbers : vs.manifest < n /\ n < next
      BY <1>4, <1>5, <1>13
    <3> QED
      BY <1>17, <1>18, <3>1, <3>2
  <2>5. EntriesIn(edit.added)' \subseteq UNION {LogEntries(n)' : n \in LogsFrom(vs.log_number)'}
    <3>1. Range(entries) \subseteq UNION {LogEntries(n) : n \in LogsFrom(vs.log_number)}
      BY <1>3, <1>5, <1>8
    <3>2. \A n \in LogsFrom(vs.log_number) : n \in Nat
      BY DEF LogsFrom, TypeInv
    <3> QED
      BY <1>5, <1>23, <1>25, <1>26, <3>1, <3>2
  <2>6. UpTo(EntriesIn(vs.files \cup edit.added)', vs'.last_sequence)
    <3>1. EntriesIn(vs.files \cup edit.added)' = EntriesIn(vs.files)' \cup EntriesIn(edit.added)'
      BY DEF EntriesIn
    <3>2. EntriesIn(vs.files \cup edit.added) = EntriesIn(vs.files) \cup EntriesIn(edit.added)
      BY DEF EntriesIn
    <3>3. \A e \in EntriesIn(vs.files) \cup EntriesIn(edit.added) : e \in Entry
      <4>1. \A n \in vs.files \cup edit.added : tables[n] \subseteq Entry
        BY <1>1, <1>4, <1>5, OpeningNumbers DEF TypeInv
      <4> QED
        BY <4>1 DEF EntriesIn
    <3>4. \A e \in EntriesIn(vs.files) \cup EntriesIn(edit.added) : e[1] \in Nat /\ e[1] <= last
      <4> SUFFICES ASSUME NEW e \in EntriesIn(vs.files) \cup EntriesIn(edit.added)
                   PROVE  e[1] \in Nat /\ e[1] <= last
        OBVIOUS
      <4>1. e[1] \in Nat
        BY <3>3 DEF Entry
      <4>2. e[1] <= vs.last_sequence
        BY <1>5, <3>2 DEF UpTo
      <4> QED
        BY <1>4, <1>10, <4>1, <4>2
    <3> QED
      BY <1>10, <1>17, <1>23, <1>24, <3>1, <3>4 DEF UpTo
  <2>7. todo' \subseteq LogsFrom(vs.log_number)'
    BY <1>2, <1>5, <1>26
  <2>8. \A n \in LogsFrom(vs.log_number)' \ todo' :
          n < vs'.next_file /\ LogEntries(n)' \subseteq EntriesIn(edit.added)'
    <3> SUFFICES ASSUME NEW n \in LogsFrom(vs.log_number)' \ todo'
                 PROVE  n < vs'.next_file /\ LogEntries(n)' \subseteq EntriesIn(edit.added)'
      OBVIOUS
    <3>1. n \in LogsFrom(vs.log_number) /\ (n \notin todo \/ n = number)
      BY <1>2, <1>26
    <3>2. n \in Nat /\ LogEntries(n)' = LogEntries(n)
      BY <1>25, <3>1 DEF LogsFrom, TypeInv
    <3>3. CASE n = number
      BY <1>8, <1>12, <1>17, <1>23, <3>2, <3>3
    <3>4. CASE n # number
      <4>1. n < vs.next_file /\ LogEntries(n) \subseteq EntriesIn(edit.added)
        BY <1>5, <3>1, <3>4
      <4> QED
        BY <1>4, <1>12, <1>17, <1>23, <3>2, <4>1
    <3> QED
      BY <3>3, <3>4
  <2>9. logfile' = 0
    BY <1>2, <1>4
  <2> QED
    BY <2>1, <2>2, <2>3, <2>4, <2>5, <2>6, <2>7, <2>8, <2>9 DEF RecoveredInv
<1>28. SaveInv' /\ UpInv' /\ FlushInv'
  BY <1>1 DEF SaveInv, UpInv, FlushInv
<1> QED
  BY <1>19, <1>20, <1>21, <1>22, <1>27, <1>28

(* The new log of Open.                                                    *)
LEMMA OpenLogKeeps ==
  ASSUME RecoveryInv, OpenLog
  PROVE  RecoveryInv'
<1> USE DEF RecoveryInv
<1>1. PICK n0 : n0 = vs.next_file
  OBVIOUS
<1>2. /\ pc = "logs" /\ todo = {} /\ pc' = "save" /\ logfile = 0 /\ apply = "none" /\ mem = {}
      /\ CURRENT' = CURRENT /\ manifests' = manifests /\ tables' = tables
      /\ reuse' = reuse /\ save' = save /\ todo' = todo /\ edit' = edit
      /\ imm' = imm /\ flushing' = flushing /\ apply' = apply
      /\ record' = record /\ collect' = collect /\ bg_error' = bg_error
      /\ written' = written /\ synced' = synced /\ incarnation' = incarnation
  BY DEF OpenLog, DownInv, RecoveredInv, openVars, applyVars, ghostVars
<1>3. /\ logs' = Put(logs, n0, EmptyFile) /\ logfile' = n0
      /\ vs' = [vs EXCEPT !.next_file = @ + 1] /\ mem' = {}
  BY <1>1, <1>2 DEF OpenLog
<1>4. /\ vs \in VersionsType /\ n0 \in Nat /\ vs.last_sequence \in Nat /\ vs.manifest \in Nat
      /\ vs.log_number \in Nat /\ DOMAIN logs \subseteq Nat /\ edit \in EditType
      /\ logs \in [DOMAIN logs -> File(Entry)]
  BY <1>1 DEF TypeInv, VersionsType
<1>5. /\ CURRENT # 0 /\ ~ vs.open /\ save
      /\ vs.manifest < n0 /\ edit.deleted = {} /\ edit.log = {}
      /\ edit.added \subseteq DOMAIN tables
      /\ \A n \in edit.added : vs.manifest < n /\ n < n0
      /\ EntriesIn(edit.added) \subseteq UNION {LogEntries(n) : n \in LogsFrom(vs.log_number)}
      /\ UpTo(EntriesIn(vs.files \cup edit.added), vs.last_sequence)
      /\ \A n \in LogsFrom(vs.log_number) : LogEntries(n) \subseteq EntriesIn(edit.added)
  BY <1>1, <1>2 DEF RecoveredInv
<1>6. /\ Saved.log = {vs.log_number} /\ Saved.next = {vs.manifest} /\ vs.files = Saved.added
      /\ vs.log_number < vs.manifest
      /\ \A n \in vs.files : n < vs.manifest
      /\ \A n \in DOMAIN logs : n < n0
  BY <1>1, <1>2, OpeningNumbers
<1>7. n0 \notin DOMAIN logs /\ n0 # 0 /\ n0 >= vs.log_number /\ n0 < n0 + 1
  BY <1>4, <1>5, <1>6
<1>8. /\ vs'.files = vs.files /\ vs'.log_number = vs.log_number /\ vs'.next_file = n0 + 1
      /\ vs'.last_sequence = vs.last_sequence /\ vs'.manifest = vs.manifest /\ ~ vs'.open
      /\ vs' \in VersionsType
  BY <1>1, <1>3, <1>4, <1>5 DEF VersionsType
<1>9. /\ DOMAIN logs' = DOMAIN logs \cup {n0} /\ logs'[n0] = EmptyFile
      /\ \A n \in DOMAIN logs : logs'[n] = logs[n]
      /\ logs' \in [DOMAIN logs' -> File(Entry)]
  <2>1. logs' \in [DOMAIN logs' -> File(Entry)]
    BY <1>3, <1>4, EmptyFileRight, PutType
  <2> QED
    BY <1>3, <1>7, <2>1 DEF Put
<1>10. TypeInv'
  BY <1>2, <1>3, <1>4, <1>8, <1>9 DEF TypeInv
<1>11. FilesInv'
  <2>1. EmptyFile.synced <= Len(EmptyFile.records)
    BY EmptyFileRight
  <2> QED
    BY <1>2, <1>9, <2>1 DEF FilesInv
<1>12. DiskInv' /\ Saved' = Saved
  <2>1. \A state : Sound(state) => Keeps(state)
    BY <1>2, <1>9 DEF Keeps, Sound
  <2>2. CURRENT \in DOMAIN manifests /\ Saved # NoEdit
    BY <1>2, SavedIsSound
  <2> QED
    BY <1>2, <1>5, <2>1, <2>2, DiskKept
<1>13. DownInv'
  BY <1>2, <1>3, <1>9 DEF DownInv
<1>14. EntriesIn(edit.added)' = EntriesIn(edit.added)
       /\ EntriesIn(vs.files \cup edit.added)' = EntriesIn(vs.files \cup edit.added)
  BY <1>2, <1>8 DEF EntriesIn
<1>15. /\ LogsFrom(vs.log_number)' = LogsFrom(vs.log_number) \cup {n0}
       /\ \A n \in LogsFrom(vs.log_number) : LogEntries(n)' = LogEntries(n)
       /\ LogEntries(n0)' = {}
  <2>1. LogsFrom(vs.log_number)' = LogsFrom(vs.log_number) \cup {n0}
    BY <1>7, <1>8, <1>9 DEF LogsFrom
  <2>2. \A n \in LogsFrom(vs.log_number) : LogEntries(n)' = LogEntries(n)
    BY <1>9 DEF LogsFrom, LogEntries
  <2>3. LogEntries(n0)' = {}
    BY <1>9, EmptyEntries DEF LogEntries
  <2> QED
    BY <2>1, <2>2, <2>3
<1>16. RecoveredInv'
  <2>1. /\ CURRENT' # 0 /\ ~ vs'.open /\ save'
        /\ Saved'.log = {vs'.log_number} /\ Saved'.next = {vs'.manifest}
        /\ vs'.files = Saved'.added
        /\ edit'.deleted = {} /\ edit'.log = {} /\ edit'.added \subseteq DOMAIN tables'
    BY <1>2, <1>5, <1>6, <1>8, <1>12
  <2>2. vs'.manifest < vs'.next_file
    BY <1>4, <1>5, <1>7, <1>8
  <2>3. \A n \in edit'.added : vs'.manifest < n /\ n < vs'.next_file
    <3>1. \A n \in edit.added : n \in Nat
      BY <1>4 DEF EditType
    <3> QED
      BY <1>2, <1>4, <1>5, <1>8, <3>1
  <2>4. EntriesIn(edit.added)' \subseteq UNION {LogEntries(n)' : n \in LogsFrom(vs.log_number)'}
    BY <1>5, <1>14, <1>15
  <2>5. UpTo(EntriesIn(vs.files \cup edit.added)', vs'.last_sequence)
    BY <1>5, <1>8, <1>14
  <2>6. todo' \subseteq LogsFrom(vs.log_number)'
    BY <1>2
  <2>7. \A n \in LogsFrom(vs.log_number)' \ todo' :
          n < vs'.next_file /\ LogEntries(n)' \subseteq EntriesIn(edit.added)'
    <3>1. \A n \in LogsFrom(vs.log_number) : n < n0 + 1
      <4>1. \A n \in LogsFrom(vs.log_number) : n \in Nat /\ n < n0
        BY <1>4, <1>6 DEF LogsFrom
      <4> QED
        BY <1>4, <4>1
    <3> SUFFICES ASSUME NEW n \in LogsFrom(vs.log_number)'
                 PROVE  n < vs'.next_file /\ LogEntries(n)' \subseteq EntriesIn(edit.added)'
      OBVIOUS
    <3>2. CASE n = n0
      BY <1>7, <1>8, <1>15, <3>2
    <3>3. CASE n # n0
      <4>1. n \in LogsFrom(vs.log_number)
        BY <1>15, <3>3
      <4> QED
        BY <1>5, <1>8, <1>14, <1>15, <3>1, <4>1
    <3> QED
      BY <3>2, <3>3
  <2> QED
    BY <1>2, <2>1, <2>2, <2>3, <2>4, <2>5, <2>6, <2>7 DEF RecoveredInv
<1>17. SaveInv'
  <2>1. \A n \in DOMAIN logs' : n <= logfile'
    <3>1. \A n \in DOMAIN logs : n \in Nat /\ n < n0
      BY <1>4, <1>6
    <3> QED
      BY <1>3, <1>4, <1>9, <3>1
  <2>2. \A n \in vs'.files \cup edit'.added : n < vs'.next_file
    <3>1. \A n \in vs.files \cup edit.added : n \in Nat
      BY <1>4 DEF EditType, VersionsType
    <3> QED
      BY <1>2, <1>4, <1>5, <1>6, <1>8, <3>1
  <2>3. vs'.manifest < vs'.next_file /\ logfile' < vs'.next_file /\ logfile' # 0
    BY <1>3, <1>4, <1>5, <1>7, <1>8
  <2>4. UpTo(EntriesIn(vs.files \cup edit.added)', vs'.last_sequence)
    BY <1>5, <1>8, <1>14
  <2> QED
    BY <1>2, <1>3, <1>5, <1>8, <1>9, <2>1, <2>2, <2>3, <2>4 DEF SaveInv
<1>18. UpInv' /\ FlushInv'
  BY <1>2 DEF UpInv, FlushInv
<1> QED
  BY <1>10, <1>11, <1>12, <1>13, <1>16, <1>17, <1>18

(* The manifest that Open saves is a new one.                              *)
LEMMA OpenSaveKeeps ==
  ASSUME RecoveryInv, OpenSave
  PROVE  RecoveryInv'
<1> USE DEF RecoveryInv
<1>1. pc = "save" /\ apply = "none" /\ save /\ ~ vs.open
  BY DEF OpenSave, RecoveredInv
<1>2. /\ apply' = "create" /\ record' = [edit EXCEPT !.log = {logfile}] /\ pc' = "save"
      /\ CURRENT' = CURRENT /\ manifests' = manifests /\ tables' = tables /\ logs' = logs
      /\ vs' = vs
      /\ reuse' = reuse /\ save' = save /\ todo' = todo /\ edit' = edit /\ mem' = mem
      /\ logfile' = logfile /\ imm' = imm /\ flushing' = flushing
      /\ collect' = collect /\ bg_error' = bg_error
      /\ written' = written /\ synced' = synced /\ incarnation' = incarnation
  BY <1>1 DEF OpenSave, BeginLogAndApply, diskVars, openVars, memVars, ghostVars
<1>3. /\ record' \in EditType /\ record'.deleted = edit.deleted /\ record'.added = edit.added
      /\ record'.log = {logfile}
  <2>1. edit \in EditType /\ logfile \in Nat
    BY DEF TypeInv
  <2> QED
    BY <1>2, <2>1 DEF EditType
<1>4. TypeInv' /\ FilesInv'
  BY <1>2, <1>3 DEF TypeInv, FilesInv
<1>5. DiskInv' /\ Saved' = Saved
  <2>1. \A state : Sound(state) => Keeps(state)
    BY <1>2 DEF Keeps, Sound
  <2>2. CURRENT \in DOMAIN manifests /\ Saved # NoEdit /\ CURRENT # 0
    BY <1>1, SavedIsSound
  <2> QED
    BY <1>2, <2>1, <2>2, DiskKept
<1>6. DownInv'
  BY <1>1, <1>2 DEF DownInv
<1>7. RecoveredInv'
  BY <1>1, <1>2, <1>5 DEF RecoveredInv, EntriesIn, LogEntries, LogsFrom, UpTo
<1>8. SaveInv'
  BY <1>1, <1>2, <1>3 DEF SaveInv, EntriesIn, UpTo
<1>9. UpInv' /\ FlushInv'
  BY <1>2 DEF UpInv, FlushInv
<1> QED
  BY <1>4, <1>5, <1>6, <1>7, <1>8, <1>9

-----------------------------------------------------------------------------
(* LogAndApply, called by Open.                                            *)

(* What a new manifest says: the version there was, and the edit.          *)
LEMMA NewManifest ==
  ASSUME vs \in VersionsType, NEW e \in EditType, e.deleted = {},
         e.log # {}, e.next # {}, e.sequence # {}
  PROVE  LET file == AddRecord(Snapshot, e)
             state == Replay(Records(file))
         IN  /\ Snapshot \in File(EditType) /\ Snapshot.synced = 0 /\ Len(Snapshot.records) = 1
             /\ file \in File(EditType) /\ AllWhole(file)
             /\ file.synced = 0 /\ Len(file.records) = 2
             /\ Sync(file) \in File(EditType) /\ AllWhole(Sync(file))
             /\ Sync(file).synced = Len(Sync(file).records)
             /\ Replay(Records(Sync(file))) = state
             /\ SavedAfter(Sync(file)) = {state}
             /\ state.added = vs.files \cup e.added /\ state.log = e.log
             /\ state.next = e.next /\ state.sequence = e.sequence
<1> DEFINE snap == [NoEdit EXCEPT !.added = vs.files]
           file == AddRecord(Snapshot, e)
<1>1. snap \in EditType /\ snap.added = vs.files /\ snap.deleted = {}
  BY DEF VersionsType, EditType, NoEdit, Edit
<1> HIDE DEF snap
<1>2. Snapshot = AddRecord(EmptyFile, snap)
  BY DEF Snapshot, snap
<1>3. /\ EmptyFile \in File(EditType) /\ AllWhole(EmptyFile)
      /\ EmptyFile.synced = 0 /\ Len(EmptyFile.records) = 0 /\ Records(EmptyFile) = << >>
  BY EmptyFileRight
<1>4. /\ Snapshot \in File(EditType) /\ AllWhole(Snapshot)
      /\ Snapshot.synced = EmptyFile.synced
      /\ Len(Snapshot.records) = Len(EmptyFile.records) + 1
      /\ Records(Snapshot) = Append(Records(EmptyFile), snap)
  <2>1. EmptyFile \in File(EditType) /\ AllWhole(EmptyFile)
    BY <1>3
  <2> QED
    BY <1>1, <1>2, <2>1, AddRecordRight, SMTT(30)
<1>5. Snapshot.synced = 0 /\ Len(Snapshot.records) = 1
  BY <1>3, <1>4
<1>6. /\ file \in File(EditType) /\ AllWhole(file)
      /\ file.synced = Snapshot.synced
      /\ Len(file.records) = Len(Snapshot.records) + 1
      /\ Records(file) = Append(Records(Snapshot), e)
  <2>1. Snapshot \in File(EditType) /\ AllWhole(Snapshot)
    BY <1>4
  <2> QED
    BY <2>1, AddRecordRight
<1>7. file.synced = 0 /\ Len(file.records) = 2
  BY <1>5, <1>6
<1> DEFINE first == Replay(Records(Snapshot))
           state == Replay(Records(file))
<1>8. first \in EditType /\ first.added = vs.files
  <2>1. Replay(Records(EmptyFile)) = NoEdit /\ Records(EmptyFile) \in Seq(EditType)
    BY <1>3, ReplayRight
  <2>2. first = ApplyEdit(NoEdit, snap)
    BY <1>1, <1>4, <2>1, ReplayRight
  <2>3. NoEdit.added = {}
    BY DEF NoEdit, Edit
  <2> HIDE DEF first
  <2>4. /\ ApplyEdit(NoEdit, snap) \in EditType
        /\ ApplyEdit(NoEdit, snap).added = (NoEdit.added \ snap.deleted) \cup snap.added
    BY <1>1, NoEditType, ApplyEditType
  <2> QED
    BY <1>1, <2>2, <2>3, <2>4
<1>9. state = ApplyEdit(first, e)
  BY <1>4, <1>6, RecordsType, ReplayRight
<1> HIDE DEF first, state, file
<1>10. /\ state.added = vs.files \cup e.added /\ state.log = e.log
       /\ state.next = e.next /\ state.sequence = e.sequence
  BY <1>8, <1>9, ApplyEditType
<1>11. /\ Sync(file) \in File(EditType) /\ Sync(file).records = file.records
       /\ Sync(file).synced = Len(file.records)
       /\ Records(Sync(file)) = Records(file) /\ AllWhole(Sync(file))
  BY <1>6, SyncRight
<1>12. Sync(file).synced = Len(Sync(file).records) /\ Replay(Records(Sync(file))) = state
  BY <1>11 DEF state
<1>13. SavedAfter(Sync(file)) = {state}
  BY <1>11, <1>12, SurvivorOfSynced
<1> QED
  BY <1>4, <1>5, <1>6, <1>7, <1>10, <1>11, <1>12, <1>13 DEF file, state

(* A step of LogAndApply, while CURRENT still names the old manifest.      *)
SaveStep ==
  /\ pc = "save" /\ pc' = "save" /\ apply \notin {"none", "install"} /\ apply' # "install"
  /\ CURRENT' = CURRENT /\ logs' = logs /\ tables' = tables /\ vs' = vs
  /\ reuse' = reuse /\ save' = save /\ todo' = todo /\ edit' = edit /\ mem' = mem
  /\ logfile' = logfile /\ imm' = imm /\ flushing' = flushing
  /\ collect' = collect /\ bg_error' = bg_error
  /\ written' = written /\ synced' = synced /\ incarnation' = incarnation
  /\ CURRENT # vs.manifest =>
       CURRENT \in DOMAIN manifests' /\ manifests'[CURRENT] = manifests[CURRENT]

(* The parts that steps of LogAndApply leave while Open saves its edit.    *)
LEMMA SaveStepKeeps ==
  ASSUME RecoveryInv, SaveStep
  PROVE  DiskInv' /\ DownInv' /\ RecoveredInv' /\ UpInv' /\ FlushInv'
<1> USE DEF RecoveryInv
<1>1. DiskInv' /\ Saved' = Saved
  <2>1. \A state : Sound(state) => Keeps(state)
    BY DEF SaveStep, Keeps, Sound
  <2>2. CURRENT \in DOMAIN manifests /\ Saved # NoEdit /\ CURRENT # 0
    BY SavedIsSound DEF SaveStep
  <2>3. CURRENT # vs.manifest
    <3>1. CURRENT < vs.manifest /\ CURRENT \in Nat
      BY OpeningNumbers DEF SaveStep, TypeInv
    <3> QED
      BY <3>1
  <2> QED
    BY <2>1, <2>2, <2>3, DiskKept DEF SaveStep
<1>2. DownInv'
  BY DEF SaveStep, DownInv
<1>3. RecoveredInv'
  <2>1. /\ EntriesIn(edit.added)' = EntriesIn(edit.added)
        /\ EntriesIn(vs.files \cup edit.added)' = EntriesIn(vs.files \cup edit.added)
        /\ LogsFrom(vs.log_number)' = LogsFrom(vs.log_number)
        /\ \A n : LogEntries(n)' = LogEntries(n)
    BY DEF SaveStep, EntriesIn, LogsFrom, LogEntries
  <2> QED
    BY <1>1, <2>1 DEF SaveStep, RecoveredInv
<1>4. UpInv' /\ FlushInv'
  BY DEF SaveStep, UpInv, FlushInv
<1> QED
  BY <1>1, <1>2, <1>3, <1>4

(* What holds of the edit of Open while it is saved.                       *)
LEMMA SavingRight ==
  ASSUME RecoveryInv, pc = "save", apply # "none"
  PROVE  /\ vs \in VersionsType /\ record \in EditType /\ ~ vs.open
         /\ logfile \in DOMAIN logs /\ logfile # 0 /\ logfile \in Nat
         /\ logfile < vs.next_file /\ vs.next_file \in Nat
         /\ record.deleted = {} /\ record.added = edit.added /\ record.log = {logfile}
         /\ manifests \in [DOMAIN manifests -> File(EditType)] /\ DOMAIN manifests \subseteq Nat
BY DEF RecoveryInv, SaveInv, TypeInv, VersionsType

(* The new manifest is created, with a snapshot of the version.            *)
LEMMA CreateManifestKeeps ==
  ASSUME RecoveryInv, CreateManifest
  PROVE  RecoveryInv'
<1> USE DEF RecoveryInv
<1>1. pc = "save" /\ apply = "create"
  BY DEF CreateManifest, DownInv, UpInv
<1>2. /\ CURRENT' = CURRENT /\ logs' = logs /\ tables' = tables /\ vs' = vs /\ pc' = pc
      /\ reuse' = reuse /\ save' = save /\ todo' = todo /\ edit' = edit /\ mem' = mem
      /\ logfile' = logfile /\ imm' = imm /\ flushing' = flushing
      /\ collect' = collect /\ bg_error' = bg_error
      /\ written' = written /\ synced' = synced /\ incarnation' = incarnation
      /\ record' = Filled /\ apply' = "append" /\ manifests' = Put(manifests, vs.manifest, Snapshot)
  BY DEF CreateManifest, Snapshot, openVars, memVars, ghostVars
<1>3. /\ vs \in VersionsType /\ record \in EditType /\ ~ vs.open
      /\ logfile \in Nat /\ vs.next_file \in Nat /\ record.log = {logfile}
      /\ record.deleted = {} /\ record.added = edit.added
      /\ manifests \in [DOMAIN manifests -> File(EditType)] /\ DOMAIN manifests \subseteq Nat
  BY <1>1, SavingRight
<1>4. /\ record' \in EditType /\ record'.deleted = {} /\ record'.added = edit.added
      /\ record'.log = {logfile} /\ record'.next = {vs.next_file}
      /\ record'.sequence = {vs.last_sequence}
  BY <1>2, <1>3 DEF Filled, EditType, VersionsType
<1>5. /\ Snapshot \in File(EditType) /\ Snapshot.synced = 0 /\ Len(Snapshot.records) = 1
  BY <1>3, <1>4, NewManifest
<1>6. /\ DOMAIN manifests' = DOMAIN manifests \cup {vs.manifest}
      /\ manifests'[vs.manifest] = Snapshot
      /\ \A n \in DOMAIN manifests : n # vs.manifest => manifests'[n] = manifests[n]
  BY <1>2 DEF Put
<1>7. manifests' \in [DOMAIN manifests' -> File(EditType)]
  BY <1>2, <1>3, <1>5, PutType
<1>8. TypeInv'
  <2>1. vs.manifest \in Nat
    BY <1>3 DEF VersionsType
  <2> QED
    BY <1>2, <1>3, <1>4, <1>6, <1>7, <2>1 DEF TypeInv
<1>9. FilesInv'
  BY <1>2, <1>5, <1>6 DEF FilesInv
<1>10. SaveInv'
  <2>1. Snapshot' = Snapshot
    BY <1>2 DEF Snapshot
  <2>2. EntriesIn(vs.files \cup edit.added)' = EntriesIn(vs.files \cup edit.added)
    BY <1>2 DEF EntriesIn
  <2> QED
    BY <1>1, <1>2, <1>4, <1>6, <2>1, <2>2 DEF SaveInv
<1>11. SaveStep
  <2>1. CURRENT \in DOMAIN manifests
    BY <1>1, SavedIsSound
  <2> QED
    BY <1>1, <1>2, <1>6, <2>1 DEF SaveStep
<1> QED
  BY <1>8, <1>9, <1>10, <1>11, SaveStepKeeps

(* The edit of Open is appended to the new manifest.                       *)
LEMMA AppendOfOpenKeeps ==
  ASSUME RecoveryInv, AppendManifest, pc = "save"
  PROVE  RecoveryInv'
<1> USE DEF RecoveryInv
<1>1. apply = "append"
  BY DEF AppendManifest
<1>2. /\ vs \in VersionsType /\ record \in EditType /\ ~ vs.open
      /\ record.log = {logfile} /\ record.deleted = {} /\ record.added = edit.added
      /\ manifests \in [DOMAIN manifests -> File(EditType)] /\ DOMAIN manifests \subseteq Nat
  BY <1>1, SavingRight
<1>3. /\ record.next = {vs.next_file} /\ record.sequence = {vs.last_sequence}
      /\ vs.manifest \in DOMAIN manifests /\ manifests[vs.manifest] = Snapshot
  BY <1>1 DEF SaveInv
<1>4. /\ CURRENT' = CURRENT /\ logs' = logs /\ tables' = tables /\ vs' = vs /\ pc' = pc
      /\ reuse' = reuse /\ save' = save /\ todo' = todo /\ edit' = edit /\ mem' = mem
      /\ logfile' = logfile /\ imm' = imm /\ flushing' = flushing
      /\ collect' = collect /\ bg_error' = bg_error
      /\ written' = written /\ synced' = synced /\ incarnation' = incarnation
      /\ record' = record /\ apply' = "sync"
      /\ manifests' = [manifests EXCEPT ![vs.manifest] = AddRecord(@, record)]
  BY <1>2 DEF AppendManifest, openVars, memVars, ghostVars
<1> DEFINE file == AddRecord(Snapshot, record)
<1>5. file \in File(EditType) /\ file.synced = 0 /\ Len(file.records) = 2
  BY <1>2, <1>3, NewManifest
<1> HIDE DEF file
<1>6. /\ DOMAIN manifests' = DOMAIN manifests /\ manifests'[vs.manifest] = file
      /\ \A n \in DOMAIN manifests : n # vs.manifest => manifests'[n] = manifests[n]
  BY <1>3, <1>4 DEF file
<1>7. manifests' \in [DOMAIN manifests' -> File(EditType)]
  BY <1>2, <1>3, <1>4, <1>5, <1>6 DEF file
<1>8. TypeInv'
  BY <1>2, <1>4, <1>6, <1>7 DEF TypeInv
<1>9. FilesInv'
  BY <1>4, <1>5, <1>6 DEF FilesInv
<1>10. SaveInv'
  <2>1. AddRecord(Snapshot, record)' = file
    BY <1>4 DEF Snapshot, file
  <2>2. EntriesIn(vs.files \cup edit.added)' = EntriesIn(vs.files \cup edit.added)
    BY <1>4 DEF EntriesIn
  <2> QED
    BY <1>1, <1>3, <1>4, <1>6, <2>1, <2>2 DEF SaveInv
<1>11. SaveStep
  <2>1. CURRENT \in DOMAIN manifests
    BY SavedIsSound
  <2> QED
    BY <1>1, <1>4, <1>6, <2>1 DEF SaveStep
<1> QED
  BY <1>8, <1>9, <1>10, <1>11, SaveStepKeeps

(* The new manifest is synced.                                             *)
LEMMA SyncOfOpenKeeps ==
  ASSUME RecoveryInv, SyncManifest, pc = "save"
  PROVE  RecoveryInv'
<1> USE DEF RecoveryInv
<1>1. apply = "sync"
  BY DEF SyncManifest
<1>2. /\ vs \in VersionsType /\ record \in EditType /\ ~ vs.open
      /\ record.log = {logfile} /\ record.deleted = {} /\ record.added = edit.added
      /\ manifests \in [DOMAIN manifests -> File(EditType)] /\ DOMAIN manifests \subseteq Nat
  BY <1>1, SavingRight
<1> DEFINE file == AddRecord(Snapshot, record)
<1>3. /\ record.next = {vs.next_file} /\ record.sequence = {vs.last_sequence}
      /\ vs.manifest \in DOMAIN manifests /\ manifests[vs.manifest] = file
  BY <1>1 DEF SaveInv
<1>4. /\ CURRENT' = CURRENT /\ logs' = logs /\ tables' = tables /\ vs' = vs /\ pc' = pc
      /\ reuse' = reuse /\ save' = save /\ todo' = todo /\ edit' = edit /\ mem' = mem
      /\ logfile' = logfile /\ imm' = imm /\ flushing' = flushing
      /\ collect' = collect /\ bg_error' = bg_error
      /\ written' = written /\ synced' = synced /\ incarnation' = incarnation
      /\ record' = record /\ apply' = "current"
      /\ manifests' = [manifests EXCEPT ![vs.manifest] = Sync(@)]
  BY <1>2 DEF SyncManifest, openVars, memVars, ghostVars
<1>5. Sync(file) \in File(EditType) /\ Sync(file).synced = Len(Sync(file).records)
  BY <1>2, <1>3, NewManifest
<1> HIDE DEF file
<1>6. /\ DOMAIN manifests' = DOMAIN manifests /\ manifests'[vs.manifest] = Sync(file)
      /\ \A n \in DOMAIN manifests : n # vs.manifest => manifests'[n] = manifests[n]
  BY <1>3, <1>4
<1>7. manifests' \in [DOMAIN manifests' -> File(EditType)]
  BY <1>2, <1>3, <1>4, <1>5, <1>6
<1>8. TypeInv'
  BY <1>2, <1>4, <1>6, <1>7 DEF TypeInv
<1>9. FilesInv'
  <2>1. Sync(file).synced <= Len(Sync(file).records)
    <3>1. Sync(file).synced \in Nat
      BY <1>5 DEF File
    <3> QED
      BY <1>5, <3>1
  <2> QED
    BY <1>4, <1>6, <2>1 DEF FilesInv
<1>10. SaveInv'
  <2>1. Sync(AddRecord(Snapshot, record))' = Sync(file)
    BY <1>4 DEF Snapshot, file
  <2>2. EntriesIn(vs.files \cup edit.added)' = EntriesIn(vs.files \cup edit.added)
    BY <1>4 DEF EntriesIn
  <2> QED
    BY <1>1, <1>3, <1>4, <1>6, <2>1, <2>2 DEF SaveInv
<1>11. SaveStep
  <2>1. CURRENT \in DOMAIN manifests
    BY SavedIsSound
  <2> QED
    BY <1>1, <1>4, <1>6, <2>1 DEF SaveStep
<1> QED
  BY <1>8, <1>9, <1>10, <1>11, SaveStepKeeps

(* What is synced of a log is a part of it.                                *)
LEMMA KeptIsFound ==
  ASSUME TypeInv, FilesInv
  PROVE  /\ \A n \in DOMAIN logs : KeptEntries(n) \subseteq LogEntries(n)
         /\ \A state : FoundSynced(state) \subseteq Found(state)
<1>1. \A n \in DOMAIN logs : KeptEntries(n) \subseteq LogEntries(n)
  BY SyncedPartRight DEF TypeInv, FilesInv, KeptEntries, LogEntries
<1>2. \A n, m : n \in LogsFrom(m) => n \in DOMAIN logs
  BY DEF LogsFrom
<1> QED
  BY <1>1, <1>2 DEF Found, FoundSynced

(* What Open finds is made of entries.                                     *)
LEMMA FoundType ==
  ASSUME TypeInv, NEW state, state.added \subseteq DOMAIN tables
  PROVE  Found(state) \subseteq Entry /\ EntriesIn(state.added) \subseteq Entry
<1>1. \A n \in DOMAIN logs : LogEntries(n) \subseteq Entry
  BY RecordsType DEF TypeInv, LogEntries
<1>2. \A n \in DOMAIN tables : tables[n] \subseteq Entry
  BY DEF TypeInv
<1> QED
  BY <1>1, <1>2 DEF Found, EntriesIn, LogsFrom

(* The state that Open saves finds what there was.                         *)
LEMMA SavedByOpen ==
  ASSUME RecoveryInv, pc = "save", apply \in {"current", "install"}, NEW state,
         state = Replay(Records(manifests[vs.manifest]))
  PROVE  /\ vs.manifest \in DOMAIN manifests /\ vs.manifest \in Nat
         /\ manifests[vs.manifest] \in File(EditType) /\ AllWhole(manifests[vs.manifest])
         /\ manifests[vs.manifest].synced = Len(manifests[vs.manifest].records)
         /\ SavedAfter(manifests[vs.manifest]) = {state}
         /\ state # NoEdit
         /\ state.added = vs.files \cup edit.added /\ state.log = {logfile}
         /\ state.next = {vs.next_file} /\ state.sequence = {vs.last_sequence}
         /\ Found(state) = EntriesIn(vs.files \cup edit.added)
         /\ EntriesIn(vs.files \cup edit.added) \subseteq FoundSynced(state)
<1> USE DEF RecoveryInv
<1>1. /\ vs \in VersionsType /\ record \in EditType
      /\ record.log = {logfile} /\ record.deleted = {} /\ record.added = edit.added
      /\ logfile \in Nat /\ DOMAIN logs \subseteq Nat
  BY SavingRight DEF TypeInv
<1>2. /\ record.next = {vs.next_file} /\ record.sequence = {vs.last_sequence}
      /\ vs.manifest \in DOMAIN manifests /\ logfile \in DOMAIN logs
      /\ manifests[vs.manifest] = Sync(AddRecord(Snapshot, record))
      /\ logs[logfile] = EmptyFile /\ \A n \in DOMAIN logs : n <= logfile
  BY DEF SaveInv
<1> DEFINE file == manifests[vs.manifest]
<1>3. /\ file \in File(EditType) /\ AllWhole(file) /\ file.synced = Len(file.records)
      /\ SavedAfter(file) = {state}
      /\ state.added = vs.files \cup record.added /\ state.log = record.log
      /\ state.next = record.next /\ state.sequence = record.sequence
  <2> DEFINE new == AddRecord(Snapshot, record)
             s == Replay(Records(new))
  <2>1. record.log # {} /\ record.next # {} /\ record.sequence # {}
    BY <1>1, <1>2
  <2>2. /\ Sync(new) \in File(EditType) /\ AllWhole(Sync(new))
        /\ Sync(new).synced = Len(Sync(new).records)
        /\ Replay(Records(Sync(new))) = s /\ SavedAfter(Sync(new)) = {s}
        /\ s.added = vs.files \cup record.added /\ s.log = record.log
        /\ s.next = record.next /\ s.sequence = record.sequence
    BY <1>1, <2>1, NewManifest
  <2> HIDE DEF s
  <2>3. file = Sync(new) /\ state = s
    BY <1>2, <2>2
  <2> QED
    BY <2>2, <2>3
<1> HIDE DEF file
<1>4. state # NoEdit
  <2>1. state.log # {}
    BY <1>1, <1>3
  <2> QED
    BY <2>1 DEF NoEdit, Edit
<1>5. The(state.log) = logfile
  BY <1>1, <1>3, TheOne
<1>6. LogsFrom(logfile) = {logfile}
  BY <1>1, <1>2 DEF LogsFrom
<1>7. LogEntries(logfile) = {}
  BY <1>2, EmptyEntries DEF LogEntries
<1>8. /\ Found(state) = EntriesIn(vs.files \cup edit.added)
      /\ EntriesIn(vs.files \cup edit.added) \subseteq FoundSynced(state)
  BY <1>1, <1>3, <1>5, <1>6, <1>7 DEF Found, FoundSynced
<1> QED
  BY <1>1, <1>2, <1>3, <1>4, <1>8 DEF file, VersionsType

(* CURRENT names the new manifest.                                         *)
LEMMA SetCurrentFileKeeps ==
  ASSUME RecoveryInv, SetCurrentFile
  PROVE  RecoveryInv'
<1> USE DEF RecoveryInv
<1>1. pc = "save" /\ apply = "current"
  BY DEF SetCurrentFile, DownInv, UpInv
<1>2. /\ CURRENT' = vs.manifest /\ logs' = logs /\ tables' = tables /\ vs' = vs /\ pc' = pc
      /\ manifests' = manifests /\ apply' = "install" /\ record' = record
      /\ reuse' = reuse /\ save' = save /\ todo' = todo /\ edit' = edit /\ mem' = mem
      /\ logfile' = logfile /\ imm' = imm /\ flushing' = flushing
      /\ collect' = collect /\ bg_error' = bg_error
      /\ written' = written /\ synced' = synced /\ incarnation' = incarnation
  BY DEF SetCurrentFile, openVars, memVars, ghostVars
<1>3. PICK state : state = Replay(Records(manifests[vs.manifest]))
  OBVIOUS
<1>4. /\ vs.manifest \in DOMAIN manifests /\ vs.manifest \in Nat
      /\ SavedAfter(manifests[vs.manifest]) = {state} /\ state # NoEdit
      /\ state.added = vs.files \cup edit.added /\ state.log = {logfile}
      /\ state.next = {vs.next_file} /\ state.sequence = {vs.last_sequence}
      /\ Found(state) = EntriesIn(vs.files \cup edit.added)
      /\ EntriesIn(vs.files \cup edit.added) \subseteq FoundSynced(state)
  BY <1>1, <1>3, SavedByOpen
<1>5. Survivors' = {state} /\ Saved' = state
  BY <1>2, <1>3, <1>4 DEF Survivors, Saved
<1>6. /\ Saved \in Survivors /\ Sound(Saved) /\ written \subseteq Found(Saved)
      /\ synced \subseteq FoundSynced(Saved)
  BY <1>1, SavedIsSound DEF Sound
<1>7. /\ The(Saved.log) = vs.log_number /\ vs.files = Saved.added
      /\ vs.files \subseteq DOMAIN tables
  BY <1>1, OpeningNumbers
<1>8. /\ EntriesIn(edit.added) \subseteq UNION {LogEntries(n) : n \in LogsFrom(vs.log_number)}
      /\ \A n \in LogsFrom(vs.log_number) : LogEntries(n) \subseteq EntriesIn(edit.added)
      /\ edit.added \subseteq DOMAIN tables
  BY <1>1 DEF RecoveredInv, SaveInv
<1>9. EntriesIn(vs.files \cup edit.added) = EntriesIn(vs.files) \cup EntriesIn(edit.added)
  BY DEF EntriesIn
<1>10. Found(Saved) = EntriesIn(vs.files \cup edit.added)
  BY <1>7, <1>8, <1>9 DEF Found
<1>11. PICK saved : saved = Saved
  OBVIOUS
<1>12. FoundSynced(saved) \subseteq Found(saved)
  BY KeptIsFound
<1>13. /\ Unique(Found(state)) /\ written \subseteq Found(state)
       /\ synced \subseteq FoundSynced(state)
  BY <1>4, <1>6, <1>10, <1>11, <1>12, ZenonT(40) DEF Sound
<1>14. /\ Found(state)' = Found(state) /\ FoundSynced(state)' = FoundSynced(state)
       /\ EntriesIn(state.added)' = EntriesIn(state.added)
  BY <1>2 DEF Found, FoundSynced, EntriesIn, LogEntries, KeptEntries, LogsFrom
<1>15. Fields(state)'
  <2>1. /\ logfile \in Nat /\ vs.next_file \in Nat /\ vs.last_sequence \in Nat
        /\ logfile < vs.next_file /\ vs.manifest < vs.next_file
        /\ \A n \in vs.files \cup edit.added : n < vs.next_file
        /\ UpTo(EntriesIn(vs.files \cup edit.added), vs.last_sequence)
    BY <1>1 DEF SaveInv, TypeInv, VersionsType
  <2>2. UpTo(EntriesIn(state.added)', vs.last_sequence)
    BY <1>4, <1>14, <2>1
  <2>3. PICK log, next, sequence \in Nat :
          log = logfile /\ next = vs.next_file /\ sequence = vs.last_sequence
    BY <2>1
  <2>4. /\ state.log = {log} /\ state.next = {next} /\ state.sequence = {sequence}
        /\ log < next /\ CURRENT' < next
        /\ \A n \in state.added : n < next
        /\ UpTo(EntriesIn(state.added)', sequence)
    BY <1>2, <1>4, <2>1, <2>2, <2>3
  <2> QED
    BY <2>4 DEF Fields, UpTo
<1>16. Sound(state)'
  <2>1. Unique(Found(state))'
    BY <1>13, <1>14 DEF Unique
  <2> QED
    BY <1>2, <1>4, <1>7, <1>8, <1>13, <1>14, <1>15, <2>1 DEF Sound
<1>17. DiskInv'
  <2>1. CURRENT' \in DOMAIN manifests' /\ CURRENT' # 0
    <3>1. CURRENT < vs.manifest /\ CURRENT \in Nat
      BY <1>1, OpeningNumbers DEF TypeInv
    <3> QED
      BY <1>2, <1>4, <3>1
  <2>2. written' \subseteq Found(Saved)'
    <3>1. Found(Saved)' = Found(state)'
      BY <1>5 DEF Found
    <3> QED
      BY <1>2, <1>13, <1>14, <3>1
  <2>3. \A s \in Survivors' : \A n \in s.added : n < The(Saved'.next)
    <3>1. The(state.next) = vs.next_file
      BY <1>4, TheOne
    <3>2. \A n \in vs.files \cup edit.added : n < vs.next_file
      BY <1>1 DEF SaveInv
    <3> QED
      BY <1>4, <1>5, <3>1, <3>2
  <2> QED
    BY <1>4, <1>5, <1>16, <2>1, <2>2, <2>3 DEF DiskInv
<1>18. TypeInv'
  <2>1. vs.manifest \in Nat
    BY <1>4
  <2> QED
    BY <1>2, <2>1 DEF TypeInv
<1>19. FilesInv' /\ DownInv'
  BY <1>1, <1>2 DEF FilesInv, DownInv
<1>20. RecoveredInv'
  BY <1>2 DEF RecoveredInv
<1>21. SaveInv'
  <2>1. Sync(AddRecord(Snapshot, record))' = Sync(AddRecord(Snapshot, record))
    BY <1>2 DEF Snapshot
  <2>2. EntriesIn(vs.files \cup edit.added)' = EntriesIn(vs.files \cup edit.added)
    BY <1>2 DEF EntriesIn
  <2> QED
    BY <1>1, <1>2, <2>1, <2>2 DEF SaveInv
<1>22. UpInv' /\ FlushInv'
  BY <1>1, <1>2 DEF UpInv, FlushInv
<1> QED
  BY <1>17, <1>18, <1>19, <1>20, <1>21, <1>22

(* The version of the new manifest becomes current: the database is open.  *)
LEMMA InstallOfOpenKeeps ==
  ASSUME RecoveryInv, InstallVersion, pc = "save"
  PROVE  RecoveryInv'
<1> USE DEF RecoveryInv
<1>1. apply = "install" /\ mem = {} /\ imm = {} /\ flushing = 0 /\ ~ bg_error
  BY DEF InstallVersion, DownInv
<1>2. /\ CURRENT' = CURRENT /\ logs' = logs /\ tables' = tables /\ manifests' = manifests
      /\ vs' = [vs EXCEPT !.files = (@ \ record.deleted) \cup record.added,
                          !.log_number = The(record.log), !.open = TRUE]
      /\ pc' = "up" /\ apply' = "none" /\ record' = record /\ collect' = TRUE
      /\ reuse' = reuse /\ todo' = todo /\ edit' = edit /\ mem' = {}
      /\ logfile' = logfile /\ imm' = {} /\ flushing' = 0 /\ bg_error' = bg_error
      /\ written' = written /\ synced' = synced /\ incarnation' = incarnation
  BY <1>1 DEF InstallVersion, diskVars, openVars, ghostVars
<1>3. /\ vs \in VersionsType /\ record \in EditType /\ edit \in EditType
      /\ record.log = {logfile} /\ record.deleted = {} /\ record.added = edit.added
      /\ logfile \in DOMAIN logs /\ logfile # 0 /\ logfile \in Nat /\ logfile < vs.next_file
  BY <1>1, SavingRight DEF TypeInv
<1>4. /\ vs'.files = vs.files \cup edit.added /\ vs'.log_number = logfile /\ vs'.open
      /\ vs'.next_file = vs.next_file /\ vs'.last_sequence = vs.last_sequence
      /\ vs'.manifest = vs.manifest /\ vs' \in VersionsType
  BY <1>2, <1>3, TheOne DEF VersionsType, EditType
<1>5. /\ CURRENT = vs.manifest /\ logs[logfile] = EmptyFile
      /\ \A n \in DOMAIN logs : n <= logfile
      /\ vs.manifest < vs.next_file
      /\ \A n \in vs.files \cup edit.added : n < vs.next_file
      /\ UpTo(EntriesIn(vs.files \cup edit.added), vs.last_sequence)
  BY <1>1 DEF SaveInv
<1>6. PICK state : state = Saved
  OBVIOUS
<1>7. /\ AllWhole(manifests[CURRENT])
      /\ manifests[CURRENT].synced = Len(manifests[CURRENT].records)
      /\ Survivors = {state} /\ state # NoEdit
      /\ state.added = vs.files \cup edit.added /\ state.log = {logfile}
      /\ Found(state) = EntriesIn(vs.files \cup edit.added)
  <2>1. state = Replay(Records(manifests[vs.manifest]))
    BY <1>5, <1>6 DEF Saved
  <2> QED
    BY <1>1, <1>5, <2>1, SavedByOpen DEF Survivors
<1>8. Sound(state)
  BY <1>6, <1>1, SavedIsSound
<1>9. DiskInv' /\ Saved' = Saved /\ Survivors' = Survivors
  <2>1. \A s : Sound(s) => Keeps(s)
    BY <1>2 DEF Keeps, Sound
  <2>2. CURRENT \in DOMAIN manifests /\ Saved # NoEdit /\ CURRENT # 0
    BY SavedIsSound
  <2> QED
    BY <1>2, <2>1, <2>2, DiskKept
<1>10. Found(state)' = Found(state)
  BY <1>2 DEF Found, EntriesIn, LogEntries, LogsFrom
<1>11. TypeInv' /\ FilesInv'
  BY <1>2, <1>4 DEF TypeInv, FilesInv
<1>12. DownInv'
  BY <1>2, <1>3 DEF DownInv
<1>13. UpInv'
  <2>1. AllWhole(logs[logfile]) /\ LogEntries(logfile) = {}
    BY <1>5, EmptyFileRight, EmptyEntries DEF LogEntries
  <2>2. LogEntries(logfile)' = {}
    BY <1>2, <2>1 DEF LogEntries
  <2>3. LogsFrom(vs.log_number)' \ {logfile'} = {}
    <3>1. \A n \in DOMAIN logs : n \in Nat
      BY DEF TypeInv
    <3> QED
      BY <1>2, <1>3, <1>4, <1>5, <3>1 DEF LogsFrom
  <2>4. EntriesIn(vs.files)' = EntriesIn(vs.files \cup edit.added)
    BY <1>2, <1>4 DEF EntriesIn
  <2>5. (mem' \cup (UNION imm')) \cup EntriesIn(vs.files)' \subseteq Found(Saved)'
    <3>1. Found(Saved)' = Found(state)'
      BY <1>6, <1>9 DEF Found
    <3> QED
      BY <1>2, <1>7, <1>10, <2>4, <3>1
  <2>6. vs'.files \subseteq DOMAIN tables'
    BY <1>2, <1>4, <1>7, <1>8 DEF Sound
  <2>7. \A s \in Survivors' :
          /\ s # NoEdit /\ The(s.log) <= logfile'
          /\ \A n \in s.added : n < vs'.next_file
          /\ UpTo(Found(s)', vs'.last_sequence)
    <3>1. The(state.log) = logfile
      BY <1>7, TheOne
    <3> QED
      BY <1>2, <1>3, <1>4, <1>5, <1>7, <1>9, <1>10, <3>1
  <2>8. Saved'.added = vs'.files /\ Saved'.log = {vs'.log_number}
    BY <1>4, <1>6, <1>7, <1>9
  <2>9. CURRENT' # 0 /\ CURRENT' = vs'.manifest /\ vs'.manifest < vs'.next_file
    BY <1>2, <1>4, <1>5, SavedIsSound
  <2>10. /\ logfile' \in DOMAIN logs' /\ logfile' # 0 /\ \A n \in DOMAIN logs' : n <= logfile'
         /\ logfile' < vs'.next_file /\ vs'.log_number <= logfile'
         /\ AllWhole(logs'[logfile']) /\ mem' = LogEntries(logfile)'
         /\ AllWhole(manifests'[CURRENT'])
         /\ \A n \in vs'.files : n < vs'.next_file
    BY <1>2, <1>3, <1>4, <1>5, <1>7, <2>1, <2>2
  <2>11. manifests'[CURRENT'].synced = Len(manifests'[CURRENT'].records)
    BY <1>2, <1>7
  <2> QED
    BY <1>1, <1>2, <1>4, <2>3, <2>5, <2>6, <2>7, <2>8, <2>9, <2>10, <2>11 DEF UpInv
<1>14. RecoveredInv' /\ SaveInv' /\ FlushInv'
  BY <1>2 DEF RecoveredInv, SaveInv, FlushInv
<1> QED
  BY <1>9, <1>11, <1>12, <1>13, <1>14

(* The new manifest could not be written: Open fails.                      *)
LEMMA OpenFailsKeeps ==
  ASSUME RecoveryInv, ManifestFails, pc = "save"
  PROVE  RecoveryInv'
<1> USE DEF RecoveryInv
<1>1. apply \in {"create", "append", "sync", "current"} /\ ~ vs.open
  BY DEF ManifestFails, SaveInv
<1>2. /\ CURRENT' = CURRENT /\ logs' = logs /\ tables' = tables /\ vs' = vs
      /\ manifests' = Without(manifests, {vs.manifest})
      /\ pc' = "failed" /\ apply' = "none" /\ record' = record /\ collect' = collect
      /\ reuse' = reuse /\ todo' = todo /\ edit' = edit /\ mem' = mem
      /\ logfile' = logfile /\ imm' = imm /\ flushing' = 0 /\ bg_error' = bg_error
      /\ written' = written /\ synced' = synced /\ incarnation' = incarnation
  BY <1>1 DEF ManifestFails, openVars, ghostVars
<1>3. DOMAIN manifests' = DOMAIN manifests \ {vs.manifest}
      /\ \A n \in DOMAIN manifests' : manifests'[n] = manifests[n]
  BY <1>2 DEF Without
<1>4. manifests' \in [DOMAIN manifests' -> File(EditType)]
  BY <1>2, WithoutType DEF TypeInv
<1>5. TypeInv'
  BY <1>2, <1>3, <1>4 DEF TypeInv
<1>6. FilesInv'
  BY <1>2, <1>3 DEF FilesInv
<1>7. DiskInv'
  <2>1. \A s : Sound(s) => Keeps(s)
    BY <1>2 DEF Keeps, Sound
  <2>2. CURRENT \in DOMAIN manifests /\ Saved # NoEdit /\ CURRENT # 0
    BY SavedIsSound
  <2>3. CURRENT < vs.manifest /\ CURRENT \in Nat
    BY <1>1, OpeningNumbers DEF TypeInv
  <2>4. CURRENT \in DOMAIN manifests' /\ manifests'[CURRENT] = manifests[CURRENT]
    BY <1>3, <2>2, <2>3
  <2> QED
    BY <1>2, <2>1, <2>2, <2>4, DiskKept
<1>8. DownInv'
  BY <1>2 DEF DownInv
<1>9. RecoveredInv' /\ SaveInv' /\ UpInv' /\ FlushInv'
  BY <1>2 DEF RecoveredInv, SaveInv, UpInv, FlushInv
<1> QED
  BY <1>5, <1>6, <1>7, <1>8, <1>9

-----------------------------------------------------------------------------
(* LogAndApply of an open database.                                        *)

(* A flush or a compaction changes where entries are, not which there are: *)
(* the logs that the edit gives up hold what the new table holds.          *)
LEMMA EditKeepsEntries ==
  ASSUME RecoveryInv, pc = "up", apply = "append", NEW old, old = Saved, NEW new,
         new.added = (vs.files \ record.deleted) \cup record.added,
         NEW log \in Nat, new.log = {log},
         {log} = IF record.log = {} THEN {vs.log_number} ELSE record.log
  PROVE  /\ log <= logfile /\ Found(new) = Found(old)
         /\ FoundSynced(old) \subseteq FoundSynced(new)
         /\ EntriesIn(new.added) \subseteq Found(old)
         /\ new.added \subseteq DOMAIN tables /\ \A n \in new.added : n < vs.next_file
<1> USE DEF RecoveryInv
<1>1. /\ logfile \in DOMAIN logs /\ \A n \in DOMAIN logs : n <= logfile
      /\ vs.log_number <= logfile
      /\ \A n \in LogsFrom(vs.log_number) \ {logfile} :
           LogEntries(n) \subseteq (UNION imm) \cup EntriesIn(vs.files)
      /\ mem \cup (UNION imm) \cup EntriesIn(vs.files) \subseteq Found(Saved)
      /\ vs.files \subseteq DOMAIN tables /\ \A n \in vs.files : n < vs.next_file
      /\ old.added = vs.files /\ old.log = {vs.log_number}
  BY DEF UpInv
<1>2. /\ flushing \in DOMAIN tables /\ flushing \notin vs.files
      /\ flushing < vs.next_file /\ record.added = {flushing}
      /\ \/ /\ record.deleted = {} /\ record.log = {logfile}
            /\ tables[flushing] = UNION imm
         \/ /\ record.deleted = vs.files
            /\ tables[flushing] = EntriesIn(vs.files)
            /\ record.log = {}
  BY DEF FlushInv
<1>3. The(old.log) = vs.log_number /\ The(new.log) = log
  BY <1>1, TheOne
<1>4. logfile \in Nat /\ vs.log_number \in Nat /\ DOMAIN logs \subseteq Nat
  BY DEF TypeInv, VersionsType
<1>5. \A n \in LogsFrom(vs.log_number) : KeptEntries(n) \subseteq LogEntries(n)
  BY KeptIsFound DEF LogsFrom
<1>6. new.added \subseteq DOMAIN tables /\ \A n \in new.added : n < vs.next_file
  BY <1>1, <1>2
<1>7. Found(Saved) = Found(old)
  BY DEF Found
<1>8. CASE record.deleted = {} /\ record.log = {logfile} /\ tables[flushing] = UNION imm
  <2>1. log = logfile
    BY <1>8
  <2>2. LogsFrom(log) = {logfile} /\ logfile \in LogsFrom(vs.log_number)
    BY <1>1, <1>4, <2>1 DEF LogsFrom
  <2>3. EntriesIn(new.added) = EntriesIn(vs.files) \cup (UNION imm)
    BY <1>2, <1>8 DEF EntriesIn
  <2>4. Found(new) = EntriesIn(vs.files) \cup (UNION imm) \cup LogEntries(logfile)
    BY <1>3, <2>2, <2>3 DEF Found
  <2>5. FoundSynced(new) = EntriesIn(vs.files) \cup (UNION imm) \cup KeptEntries(logfile)
    BY <1>3, <2>2, <2>3 DEF FoundSynced
  <2>6. Found(old) \subseteq EntriesIn(vs.files) \cup (UNION imm) \cup LogEntries(logfile)
    BY <1>1, <1>3 DEF Found
  <2>7. LogEntries(logfile) \subseteq Found(old)
    BY <1>3, <2>2 DEF Found
  <2>8. FoundSynced(old) \subseteq FoundSynced(new)
    <3>1. \A n \in LogsFrom(vs.log_number) : KeptEntries(n) \subseteq FoundSynced(new)
      <4> SUFFICES ASSUME NEW n \in LogsFrom(vs.log_number)
                   PROVE  KeptEntries(n) \subseteq FoundSynced(new)
        OBVIOUS
      <4>1. CASE n = logfile
        BY <2>5, <4>1
      <4>2. CASE n # logfile
        <5>1. LogEntries(n) \subseteq (UNION imm) \cup EntriesIn(vs.files)
          BY <1>1, <4>2
        <5>2. KeptEntries(n) \subseteq LogEntries(n)
          BY <1>5
        <5> QED
          BY <2>5, <5>1, <5>2
      <4> QED
        BY <4>1, <4>2
    <3>2. EntriesIn(vs.files) \subseteq FoundSynced(new)
      BY <2>5
    <3>3. FoundSynced(old) = EntriesIn(vs.files)
                             \cup UNION {KeptEntries(n) : n \in LogsFrom(vs.log_number)}
      BY <1>1, <1>3 DEF FoundSynced
    <3> QED
      BY <3>1, <3>2, <3>3
  <2> QED
    BY <1>1, <1>4, <1>6, <1>7, <2>1, <2>3, <2>4, <2>6, <2>7, <2>8, ZenonT(40)
<1>9. CASE /\ record.deleted = vs.files /\ record.log = {}
           /\ tables[flushing] = EntriesIn(vs.files)
  <2>1. log = vs.log_number
    BY <1>9
  <2>2. new.added = {flushing}
    BY <1>2, <1>9
  <2>3. EntriesIn(new.added) = EntriesIn(old.added)
    BY <1>1, <1>9, <2>2 DEF EntriesIn
  <2>4. Found(new) = Found(old) /\ FoundSynced(new) = FoundSynced(old)
    BY <1>3, <2>1, <2>3 DEF Found, FoundSynced
  <2>5. EntriesIn(new.added) \subseteq Found(old)
    BY <2>3 DEF Found
  <2> QED
    BY <1>1, <1>6, <2>1, <2>4, <2>5
<1> QED
  BY <1>2, <1>8, <1>9

(* The edit is appended to the manifest in use, where a crash may or may   *)
(* not leave it.                                                           *)
LEMMA AppendOfUpKeeps ==
  ASSUME RecoveryInv, AppendManifest, pc = "up"
  PROVE  RecoveryInv'
<1> USE DEF RecoveryInv
<1>1. /\ apply = "append" /\ vs.open /\ ~ bg_error /\ ~ collect
      /\ CURRENT # 0 /\ CURRENT = vs.manifest /\ vs.manifest < vs.next_file
      /\ logfile \in DOMAIN logs /\ logfile # 0
      /\ \A n \in DOMAIN logs : n <= logfile
      /\ logfile < vs.next_file /\ vs.log_number <= logfile
      /\ AllWhole(logs[logfile]) /\ mem = LogEntries(logfile)
      /\ \A n \in LogsFrom(vs.log_number) \ {logfile} :
           LogEntries(n) \subseteq (UNION imm) \cup EntriesIn(vs.files)
      /\ mem \cup (UNION imm) \cup EntriesIn(vs.files) \subseteq Found(Saved)
      /\ vs.files \subseteq DOMAIN tables /\ \A n \in vs.files : n < vs.next_file
      /\ AllWhole(manifests[CURRENT])
      /\ Saved.added = vs.files /\ Saved.log = {vs.log_number}
      /\ manifests[CURRENT].synced = Len(manifests[CURRENT].records)
  BY DEF AppendManifest, UpInv
<1>2. /\ CURRENT' = CURRENT /\ logs' = logs /\ tables' = tables /\ vs' = vs /\ pc' = pc
      /\ reuse' = reuse /\ todo' = todo /\ edit' = edit /\ mem' = mem
      /\ logfile' = logfile /\ imm' = imm /\ flushing' = flushing
      /\ collect' = collect /\ bg_error' = bg_error
      /\ written' = written /\ synced' = synced /\ incarnation' = incarnation
      /\ record' = Filled /\ apply' = "sync"
      /\ manifests' = [manifests EXCEPT ![vs.manifest] = AddRecord(@, record')]
  BY <1>1 DEF AppendManifest, openVars, memVars, ghostVars
<1>3. /\ vs \in VersionsType /\ record \in EditType
      /\ manifests \in [DOMAIN manifests -> File(EditType)] /\ DOMAIN manifests \subseteq Nat
      /\ logfile \in Nat /\ vs.log_number \in Nat /\ vs.next_file \in Nat
      /\ vs.last_sequence \in Nat /\ CURRENT \in Nat
  BY DEF TypeInv, VersionsType
<1>4. /\ record' \in EditType /\ record'.deleted = record.deleted /\ record'.added = record.added
      /\ record'.log = (IF record.log = {} THEN {vs.log_number} ELSE record.log)
      /\ record'.next = {vs.next_file} /\ record'.sequence = {vs.last_sequence}
  BY <1>2, <1>3 DEF Filled, EditType
<1>5. /\ flushing # 0 /\ flushing \in DOMAIN tables /\ flushing \notin vs.files
      /\ flushing < vs.next_file /\ record.added = {flushing}
      /\ \/ /\ record.deleted = {} /\ record.log = {logfile} /\ imm # {}
            /\ tables[flushing] = UNION imm
         \/ /\ record.deleted = vs.files /\ vs.files # {}
            /\ tables[flushing] = EntriesIn(vs.files)
            /\ record.log = {}
  BY <1>1 DEF FlushInv
<1>6. PICK e : e = record'
  OBVIOUS
<1>7. PICK log \in Nat : e.log = {log}
  BY <1>3, <1>4, <1>5, <1>6
<1>8. PICK file : file = manifests[CURRENT]
  OBVIOUS
<1>9. PICK old : old = Saved
  OBVIOUS
<1>10. PICK new : new = ApplyEdit(old, e)
  OBVIOUS
<1>11. /\ CURRENT \in DOMAIN manifests /\ file \in File(EditType) /\ old \in EditType
       /\ old \in Survivors /\ Sound(old) /\ written \subseteq Found(old)
       /\ old = Replay(Records(file))
  BY <1>8, <1>9, SavedIsSound DEF Saved, Found
<1>12. /\ new \in EditType /\ new.added = (vs.files \ record.deleted) \cup record.added
       /\ new.log = {log} /\ new.next = {vs.next_file} /\ new.sequence = {vs.last_sequence}
  <2>1. /\ e \in EditType /\ e.deleted = record.deleted /\ e.added = record.added
        /\ e.log = {log} /\ e.next = {vs.next_file} /\ e.sequence = {vs.last_sequence}
    BY <1>4, <1>6, <1>7
  <2>2. /\ new \in EditType /\ new.added = (old.added \ e.deleted) \cup e.added
        /\ new.log = (IF e.log = {} THEN old.log ELSE e.log)
        /\ new.next = (IF e.next = {} THEN old.next ELSE e.next)
        /\ new.sequence = (IF e.sequence = {} THEN old.sequence ELSE e.sequence)
    BY <1>10, <1>11, <2>1, ApplyEditType
  <2> QED
    BY <1>1, <1>9, <2>1, <2>2
<1>13. /\ log <= logfile /\ Found(new) = Found(old)
       /\ FoundSynced(old) \subseteq FoundSynced(new)
       /\ EntriesIn(new.added) \subseteq Found(old)
       /\ new.added \subseteq DOMAIN tables /\ \A n \in new.added : n < vs.next_file
  <2>1. {log} = IF record.log = {} THEN {vs.log_number} ELSE record.log
    BY <1>4, <1>6, <1>7
  <2>2. new.added = (vs.files \ record.deleted) \cup record.added
    BY <1>5, <1>12
  <2>3. pc = "up" /\ apply = "append" /\ old = Saved /\ new.log = {log}
    BY <1>1, <1>9, <1>12
  <2> QED
    BY <2>1, <2>2, <2>3, EditKeepsEntries
<1> DEFINE more == AddRecord(file, e)
<1>14. /\ more \in File(EditType) /\ AllWhole(more) /\ more.synced = file.synced
       /\ Len(more.records) = Len(file.records) + 1
  <2>1. e \in EditType /\ AllWhole(file)
    BY <1>1, <1>4, <1>6, <1>8
  <2> QED
    BY <1>11, <2>1, AddRecordRight
<1>15. Replay(Records(more)) = new /\ SavedAfter(more) \subseteq {old, new}
  BY <1>1, <1>4, <1>6, <1>8, <1>10, <1>11, SurvivorsOfAppend
<1> HIDE DEF more
<1>16. /\ DOMAIN manifests' = DOMAIN manifests /\ manifests'[CURRENT] = more
       /\ \A n \in DOMAIN manifests : n # CURRENT => manifests'[n] = manifests[n]
  BY <1>1, <1>2, <1>6, <1>8, <1>11 DEF more
<1>17. manifests' \in [DOMAIN manifests' -> File(EditType)]
  BY <1>1, <1>2, <1>3, <1>6, <1>8, <1>14, <1>16 DEF more
<1>18. Survivors' \subseteq {old, new} /\ Saved' = new
  BY <1>2, <1>15, <1>16 DEF Survivors, Saved
<1>19. ASSUME NEW s
       PROVE  /\ Found(s)' = Found(s) /\ FoundSynced(s)' = FoundSynced(s)
              /\ EntriesIn(s.added)' = EntriesIn(s.added) /\ (Sound(s) => Sound(s)')
  <2>1. Keeps(s) \/ ~ (s.added \subseteq DOMAIN tables)
    BY <1>2 DEF Keeps
  <2>2. /\ Found(s)' = Found(s) /\ FoundSynced(s)' = FoundSynced(s)
        /\ EntriesIn(s.added)' = EntriesIn(s.added)
    BY <1>2 DEF Found, FoundSynced, EntriesIn, LogEntries, KeptEntries, LogsFrom
  <2> QED
    BY <1>2, <2>1, <2>2, SoundKept DEF Sound
<1>20. UpTo(Found(old), vs.last_sequence)
  BY <1>11 DEF UpInv
<1>21. Sound(new)
  <2>1. Fields(new)
    <3>1. UpTo(EntriesIn(new.added), vs.last_sequence)
      BY <1>13, <1>20 DEF UpTo
    <3>2. log < vs.next_file /\ CURRENT < vs.next_file
      BY <1>1, <1>3, <1>13
    <3> QED
      BY <1>3, <1>12, <1>13, <3>1, <3>2 DEF Fields
  <2> QED
    BY <1>11, <1>13, <2>1 DEF Sound
<1>22. new # NoEdit /\ old # NoEdit /\ The(new.log) = log /\ The(new.next) = vs.next_file
  BY <1>11, <1>12, <1>21, SoundFields, TheOne
<1>23. DiskInv'
  <2>1. \A s \in Survivors' : Sound(s)'
    BY <1>11, <1>18, <1>19, <1>21
  <2>2. written' \subseteq Found(Saved)'
    <3>1. Found(Saved)' = Found(new)'
      BY <1>18 DEF Found
    <3> QED
      BY <1>2, <1>11, <1>13, <1>19, <3>1
  <2>3. \A s \in Survivors' : \A n \in s.added : n < The(Saved'.next)
    BY <1>1, <1>9, <1>13, <1>18, <1>22
  <2> QED
    BY <1>1, <1>2, <1>11, <1>16, <1>18, <1>22, <2>1, <2>2, <2>3 DEF DiskInv
<1>24. TypeInv'
  BY <1>2, <1>4, <1>16, <1>17 DEF TypeInv
<1>25. FilesInv'
  <2>1. more.synced <= Len(more.records)
    BY <1>1, <1>8, <1>11, <1>14 DEF File
  <2> QED
    BY <1>2, <1>16, <2>1 DEF FilesInv
<1>26. DownInv'
  BY <1>1, <1>2 DEF DownInv
<1>27. UpInv'
  <2>1. /\ LogEntries(logfile)' = LogEntries(logfile)
        /\ LogsFrom(vs.log_number)' = LogsFrom(vs.log_number)
        /\ \A n : LogEntries(n)' = LogEntries(n)
        /\ EntriesIn(vs.files)' = EntriesIn(vs.files)
    BY <1>2 DEF LogEntries, LogsFrom, EntriesIn
  <2>2. (mem' \cup (UNION imm')) \cup EntriesIn(vs.files)' \subseteq Found(Saved)'
    <3>1. Found(Saved)' = Found(new)' /\ Found(Saved) = Found(old)
      BY <1>9, <1>18 DEF Found
    <3> QED
      BY <1>1, <1>2, <1>13, <1>19, <2>1, <3>1
  <2>3. \A s \in Survivors' :
          /\ s # NoEdit /\ The(s.log) <= logfile'
          /\ \A n \in s.added : n < vs'.next_file
          /\ UpTo(Found(s)', vs'.last_sequence)
    <3>1. The(old.log) <= logfile
      BY <1>1, <1>9, TheOne
    <3>2. \A s \in {old, new} : Found(s)' = Found(old)
      BY <1>13, <1>19
    <3> QED
      BY <1>1, <1>2, <1>9, <1>13, <1>18, <1>20, <1>22, <3>1, <3>2
  <2> QED
    BY <1>1, <1>2, <1>14, <1>16, <2>1, <2>2, <2>3 DEF UpInv
<1>28. FlushInv'
  <2>1. EntriesIn(vs.files)' = EntriesIn(vs.files)
    BY <1>2 DEF EntriesIn
  <2>2. /\ Saved'.added = (vs'.files \ record'.deleted) \cup record'.added
        /\ Saved'.log = record'.log
    BY <1>2, <1>4, <1>6, <1>7, <1>12, <1>18
  <2> QED
    BY <1>2, <1>4, <1>5, <2>1, <2>2 DEF FlushInv
<1>29. RecoveredInv' /\ SaveInv'
  BY <1>2 DEF RecoveredInv, SaveInv
<1> QED
  BY <1>23, <1>24, <1>25, <1>26, <1>27, <1>28, <1>29

(* The edit is synced: nothing else may be left of the manifest.           *)
LEMMA SyncOfUpKeeps ==
  ASSUME RecoveryInv, SyncManifest, pc = "up"
  PROVE  RecoveryInv'
<1> USE DEF RecoveryInv
<1>1. /\ apply = "sync" /\ vs.open /\ ~ bg_error /\ ~ collect /\ CURRENT = vs.manifest
  BY DEF SyncManifest, UpInv
<1>2. /\ CURRENT' = CURRENT /\ logs' = logs /\ tables' = tables /\ vs' = vs /\ pc' = pc
      /\ reuse' = reuse /\ todo' = todo /\ edit' = edit /\ mem' = mem
      /\ logfile' = logfile /\ imm' = imm /\ flushing' = flushing
      /\ collect' = collect /\ bg_error' = bg_error
      /\ written' = written /\ synced' = synced /\ incarnation' = incarnation
      /\ record' = record /\ apply' = "install"
      /\ manifests' = [manifests EXCEPT ![vs.manifest] = Sync(@)]
  BY <1>1 DEF SyncManifest, openVars, memVars, ghostVars
<1>3. /\ CURRENT # 0 /\ CURRENT \in DOMAIN manifests
      /\ manifests[CURRENT] \in File(EditType)
      /\ Saved \in Survivors /\ Saved # NoEdit /\ Sound(Saved) /\ written \subseteq Found(Saved)
      /\ \A state \in Survivors : \A n \in state.added : n < The(Saved.next)
  BY SavedIsSound
<1>4. PICK file : file = manifests[CURRENT]
  OBVIOUS
<1>5. PICK state : state = Saved
  OBVIOUS
<1>6. /\ Sync(file) \in File(EditType) /\ Sync(file).synced = Len(Sync(file).records)
      /\ Records(Sync(file)) = Records(file) /\ AllWhole(Sync(file))
  <2>1. file \in File(EditType) /\ AllWhole(file)
    BY <1>3, <1>4 DEF UpInv
  <2> QED
    BY <2>1, SyncRight
<1>7. SavedAfter(Sync(file)) = {state}
  BY <1>4, <1>5, <1>6, SurvivorOfSynced DEF Saved
<1>8. /\ DOMAIN manifests' = DOMAIN manifests /\ manifests'[CURRENT] = Sync(file)
      /\ \A n \in DOMAIN manifests : n # CURRENT => manifests'[n] = manifests[n]
  BY <1>1, <1>2, <1>3, <1>4
<1>9. manifests' \in [DOMAIN manifests' -> File(EditType)]
  <2>1. manifests \in [DOMAIN manifests -> File(EditType)]
    BY DEF TypeInv
  <2> QED
    BY <1>1, <1>2, <1>3, <1>4, <1>6, <2>1
<1>10. Survivors' = {state} /\ Saved' = state
  BY <1>2, <1>4, <1>5, <1>6, <1>7, <1>8 DEF Survivors, Saved
<1>11. /\ Found(state)' = Found(state) /\ (Sound(state) => Sound(state)')
  <2>1. Sound(state) => Keeps(state)
    BY <1>2 DEF Keeps, Sound
  <2>2. Found(state)' = Found(state)
    BY <1>2 DEF Found, EntriesIn, LogEntries, LogsFrom
  <2> QED
    BY <1>2, <2>1, <2>2, SoundKept
<1>12. Found(Saved)' = Found(state) /\ Found(Saved) = Found(state)
  BY <1>5, <1>10, <1>11 DEF Found
<1>13. DiskInv'
  <2>1. \A s \in Survivors' : Sound(s)'
    BY <1>3, <1>5, <1>10, <1>11
  <2>2. written' \subseteq Found(Saved)'
    BY <1>2, <1>3, <1>12
  <2>3. \A s \in Survivors' : \A n \in s.added : n < The(Saved'.next)
    BY <1>3, <1>5, <1>10
  <2> QED
    BY <1>2, <1>3, <1>5, <1>8, <1>10, <2>1, <2>2, <2>3 DEF DiskInv
<1>14. TypeInv'
  BY <1>2, <1>8, <1>9 DEF TypeInv
<1>15. FilesInv'
  <2>1. Sync(file).synced <= Len(Sync(file).records)
    BY <1>6 DEF File
  <2> QED
    BY <1>2, <1>8, <2>1 DEF FilesInv
<1>16. DownInv'
  BY <1>1, <1>2 DEF DownInv
<1>17. /\ LogEntries(logfile)' = LogEntries(logfile)
       /\ LogsFrom(vs.log_number)' = LogsFrom(vs.log_number)
       /\ \A n : LogEntries(n)' = LogEntries(n)
       /\ EntriesIn(vs.files)' = EntriesIn(vs.files)
  BY <1>2 DEF LogEntries, LogsFrom, EntriesIn
<1>18. UpInv'
  <2>1. (mem' \cup (UNION imm')) \cup EntriesIn(vs.files)' \subseteq Found(Saved)'
    BY <1>2, <1>12, <1>17 DEF UpInv
  <2>2. \A s \in Survivors' :
          /\ s # NoEdit /\ The(s.log) <= logfile'
          /\ \A n \in s.added : n < vs'.next_file
          /\ UpTo(Found(s)', vs'.last_sequence)
    BY <1>2, <1>3, <1>5, <1>10, <1>11 DEF UpInv
  <2> QED
    BY <1>1, <1>2, <1>6, <1>8, <1>17, <2>1, <2>2 DEF UpInv
<1>19. FlushInv'
  <2>1. EntriesIn(vs.files)' = EntriesIn(vs.files)
    BY <1>2 DEF EntriesIn
  <2> QED
    BY <1>1, <1>2, <1>5, <1>10, <2>1 DEF FlushInv
<1>20. RecoveredInv' /\ SaveInv'
  BY <1>2 DEF RecoveredInv, SaveInv
<1> QED
  BY <1>13, <1>14, <1>15, <1>16, <1>18, <1>19, <1>20

(* The version of the edit becomes current.                                *)
LEMMA InstallOfUpKeeps ==
  ASSUME RecoveryInv, InstallVersion, pc = "up"
  PROVE  RecoveryInv'
<1> USE DEF RecoveryInv
<1>1. /\ apply = "install" /\ vs.open /\ ~ bg_error /\ ~ collect /\ CURRENT # 0
      /\ CURRENT = vs.manifest /\ vs.manifest < vs.next_file
      /\ logfile \in DOMAIN logs /\ logfile # 0
      /\ \A n \in DOMAIN logs : n <= logfile
      /\ logfile < vs.next_file /\ vs.log_number <= logfile
      /\ AllWhole(logs[logfile]) /\ mem = LogEntries(logfile)
      /\ \A n \in LogsFrom(vs.log_number) \ {logfile} :
           LogEntries(n) \subseteq (UNION imm) \cup EntriesIn(vs.files)
      /\ mem \cup (UNION imm) \cup EntriesIn(vs.files) \subseteq Found(Saved)
      /\ vs.files \subseteq DOMAIN tables /\ \A n \in vs.files : n < vs.next_file
      /\ AllWhole(manifests[CURRENT])
      /\ \A state \in Survivors :
           /\ state # NoEdit /\ The(state.log) <= logfile
           /\ \A n \in state.added : n < vs.next_file
           /\ UpTo(Found(state), vs.last_sequence)
      /\ manifests[CURRENT].synced = Len(manifests[CURRENT].records)
  BY DEF InstallVersion, UpInv
<1>2. /\ flushing # 0 /\ flushing \in DOMAIN tables
      /\ flushing < vs.next_file /\ record.added = {flushing}
      /\ \/ /\ record.deleted = {} /\ record.log = {logfile}
         \/ /\ record.deleted = vs.files /\ vs.files # {}
            /\ tables[flushing] = EntriesIn(vs.files)
            /\ record.log = {vs.log_number}
      /\ Saved.added = (vs.files \ record.deleted) \cup record.added
      /\ Saved.log = record.log
  BY <1>1 DEF FlushInv
<1>3. /\ vs \in VersionsType /\ record \in EditType /\ logfile \in Nat /\ vs.log_number \in Nat
      /\ DOMAIN logs \subseteq Nat
  BY DEF TypeInv, VersionsType
<1>4. PICK log \in Nat : record.log = {log}
  BY <1>2, <1>3
<1>5. /\ CURRENT' = CURRENT /\ logs' = logs /\ tables' = tables /\ manifests' = manifests
      /\ vs' = [vs EXCEPT !.files = (@ \ record.deleted) \cup record.added,
                          !.log_number = The(record.log), !.open = TRUE]
      /\ pc' = "up" /\ apply' = "none" /\ record' = record /\ collect' = TRUE
      /\ reuse' = reuse /\ todo' = todo /\ edit' = edit /\ mem' = mem
      /\ logfile' = logfile /\ flushing' = 0 /\ bg_error' = bg_error
      /\ imm' = (IF record.deleted = {} THEN {} ELSE imm)
      /\ written' = written /\ synced' = synced /\ incarnation' = incarnation
  BY <1>2 DEF InstallVersion, diskVars, openVars, ghostVars
<1>6. /\ vs'.files = (vs.files \ record.deleted) \cup record.added /\ vs'.log_number = log
      /\ vs'.open /\ vs'.next_file = vs.next_file /\ vs'.last_sequence = vs.last_sequence
      /\ vs'.manifest = vs.manifest /\ vs' \in VersionsType
  BY <1>3, <1>4, <1>5, TheOne DEF VersionsType, EditType
<1>7. PICK state : state = Saved
  OBVIOUS
<1>8. /\ CURRENT \in DOMAIN manifests /\ manifests[CURRENT] \in File(EditType)
      /\ Saved \in Survivors /\ Saved # NoEdit /\ Sound(state)
  BY <1>7, SavedIsSound
<1>9. Survivors = {state}
  BY <1>1, <1>7, <1>8, SurvivorOfSynced DEF Survivors, Saved
<1>10. DiskInv' /\ Saved' = state /\ Survivors' = {state}
  <2>1. \A s : Sound(s) => Keeps(s)
    BY <1>5 DEF Keeps, Sound
  <2> QED
    BY <1>1, <1>5, <1>7, <1>8, <1>9, <2>1, DiskKept
<1>11. Found(state)' = Found(state)
  BY <1>5 DEF Found, EntriesIn, LogEntries, LogsFrom
<1>12. Found(Saved)' = Found(state) /\ Found(Saved) = Found(state)
  BY <1>7, <1>10, <1>11 DEF Found
<1>13. TypeInv' /\ FilesInv'
  <2>1. imm' = {} \/ \E m \in SUBSET Entry : imm' = {m}
    BY <1>5 DEF TypeInv
  <2>2. mem' \in SUBSET Entry /\ logfile' \in Nat /\ flushing' \in Nat
    BY <1>5 DEF TypeInv
  <2>3. TypeInv'
    BY <1>5, <1>6, <2>1, <2>2 DEF TypeInv
  <2> QED
    BY <1>5, <2>3 DEF FilesInv
<1>14. DownInv'
  BY <1>1, <1>5 DEF DownInv
<1>15. EntriesIn(vs.files)' \subseteq Found(state)
  <2>1. state.added = vs'.files
    BY <1>2, <1>6, <1>7
  <2> QED
    BY <1>5, <2>1 DEF Found, EntriesIn
<1>16. log <= logfile
  BY <1>1, <1>2, <1>3, <1>4
<1>17. UpInv'
  <2>1. /\ LogEntries(logfile)' = LogEntries(logfile)
        /\ \A n : LogEntries(n)' = LogEntries(n)
    BY <1>5 DEF LogEntries
  <2>2. \A n \in LogsFrom(vs.log_number)' \ {logfile} :
          LogEntries(n)' \subseteq (UNION imm') \cup EntriesIn(vs.files)'
    <3>1. CASE record.deleted = {} /\ record.log = {logfile}
      <4>1. log = logfile
        BY <1>4, <3>1
      <4>2. LogsFrom(vs.log_number)' \ {logfile} = {}
        BY <1>1, <1>3, <1>5, <1>6, <4>1 DEF LogsFrom
      <4> QED
        BY <4>2
    <3>2. CASE /\ record.deleted = vs.files /\ vs.files # {}
               /\ tables[flushing] = EntriesIn(vs.files)
               /\ record.log = {vs.log_number}
      <4>1. imm' = imm /\ log = vs.log_number /\ vs'.files = {flushing}
        BY <1>2, <1>4, <1>5, <1>6, <3>2
      <4>2. LogsFrom(vs.log_number)' = LogsFrom(vs.log_number)
        BY <1>5, <1>6, <4>1 DEF LogsFrom
      <4>3. EntriesIn(vs.files)' = EntriesIn(vs.files)
        <5>1. EntriesIn(vs.files)' = tables[flushing]
          BY <1>5, <4>1 DEF EntriesIn
        <5> QED
          BY <3>2, <5>1
      <4> QED
        BY <1>1, <2>1, <4>1, <4>2, <4>3
    <3> QED
      BY <1>2, <3>1, <3>2
  <2>3. (mem' \cup (UNION imm')) \cup EntriesIn(vs.files)' \subseteq Found(Saved)'
    <3>1. UNION imm' \subseteq UNION imm
      BY <1>5
    <3> QED
      BY <1>1, <1>5, <1>12, <1>15, <3>1
  <2>4. vs'.files \subseteq DOMAIN tables' /\ \A n \in vs'.files : n < vs'.next_file
    BY <1>1, <1>2, <1>5, <1>6
  <2>5. \A s \in Survivors' :
          /\ s # NoEdit /\ The(s.log) <= logfile'
          /\ \A n \in s.added : n < vs'.next_file
          /\ UpTo(Found(s)', vs'.last_sequence)
    BY <1>1, <1>5, <1>6, <1>9, <1>10, <1>11
  <2>6. Saved'.added = vs'.files /\ Saved'.log = {vs'.log_number}
    BY <1>2, <1>4, <1>6, <1>7, <1>10
  <2>7. /\ CURRENT' # 0 /\ CURRENT' = vs'.manifest /\ vs'.manifest < vs'.next_file
        /\ logfile' \in DOMAIN logs' /\ logfile' # 0 /\ \A n \in DOMAIN logs' : n <= logfile'
        /\ logfile' < vs'.next_file /\ vs'.log_number <= logfile'
        /\ AllWhole(logs'[logfile']) /\ mem' = LogEntries(logfile)'
        /\ AllWhole(manifests'[CURRENT'])
        /\ manifests'[CURRENT'].synced = Len(manifests'[CURRENT'].records)
    BY <1>1, <1>5, <1>6, <1>16, <2>1
  <2> QED
    BY <1>5, <1>6, <2>2, <2>3, <2>4, <2>5, <2>6, <2>7 DEF UpInv
<1>18. RecoveredInv' /\ SaveInv' /\ FlushInv'
  BY <1>5 DEF RecoveredInv, SaveInv, FlushInv
<1> QED
  BY <1>10, <1>13, <1>14, <1>17, <1>18

(* The manifest of an open database could not be written, or not be synced.*)
LEMMA ApplyFailsKeeps ==
  ASSUME RecoveryInv, ManifestFails, pc = "up"
  PROVE  RecoveryInv'
<1> USE DEF RecoveryInv
<1>1. /\ vs.open /\ apply \in {"create", "append", "sync"} /\ ~ collect /\ CURRENT # 0
  BY DEF ManifestFails, UpInv
<1>2. /\ CURRENT' = CURRENT /\ logs' = logs /\ tables' = tables /\ vs' = vs
      /\ manifests' = manifests /\ bg_error'
      /\ pc' = "up" /\ apply' = "none" /\ record' = record /\ collect' = collect
      /\ reuse' = reuse /\ todo' = todo /\ edit' = edit /\ mem' = mem
      /\ logfile' = logfile /\ imm' = imm /\ flushing' = 0
      /\ written' = written /\ synced' = synced /\ incarnation' = incarnation
  BY <1>1 DEF ManifestFails, openVars, ghostVars
<1>3. bg_error' \in BOOLEAN
  BY <1>1 DEF ManifestFails
<1>4. TypeInv' /\ FilesInv'
  BY <1>2, <1>3 DEF TypeInv, FilesInv
<1>5. /\ DiskInv' /\ Saved' = Saved /\ Survivors' = Survivors
  <2>1. \A s : Sound(s) => Keeps(s)
    BY <1>2 DEF Keeps, Sound
  <2>2. CURRENT \in DOMAIN manifests /\ Saved # NoEdit
    BY SavedIsSound
  <2> QED
    BY <1>1, <1>2, <2>1, <2>2, DiskKept
<1>6. DownInv'
  BY <1>1, <1>2 DEF DownInv
<1>7. UpInv'
  <2>1. /\ LogEntries(logfile)' = LogEntries(logfile)
        /\ LogsFrom(vs.log_number)' = LogsFrom(vs.log_number)
        /\ \A n : LogEntries(n)' = LogEntries(n)
        /\ EntriesIn(vs.files)' = EntriesIn(vs.files)
        /\ \A s : Found(s)' = Found(s)
    BY <1>2 DEF LogEntries, LogsFrom, EntriesIn, Found
  <2>2. Found(Saved)' = Found(Saved)
    BY <1>2, <1>5 DEF LogEntries, LogsFrom, EntriesIn, Found
  <2> QED
    BY <1>1, <1>2, <1>5, <2>1, <2>2 DEF UpInv
<1>8. RecoveredInv' /\ SaveInv' /\ FlushInv'
  BY <1>2 DEF RecoveredInv, SaveInv, FlushInv
<1> QED
  BY <1>4, <1>5, <1>6, <1>7, <1>8

-----------------------------------------------------------------------------
(* Obsolete files.                                                         *)

(* A file is deleted only when no state of the manifest needs it.          *)
LEMMA DeleteObsoleteFileKeeps ==
  ASSUME RecoveryInv, DeleteObsoleteFile
  PROVE  RecoveryInv'
<1> USE DEF RecoveryInv
<1>1. pc = "up" /\ ~ bg_error /\ collect /\ apply = "none" /\ flushing = 0
  BY DEF DeleteObsoleteFile, DownInv, UpInv
<1>2. /\ CURRENT' = CURRENT /\ vs' = vs /\ bg_error' = bg_error
      /\ pc' = "up" /\ apply' = apply /\ record' = record /\ collect' = collect
      /\ reuse' = reuse /\ todo' = todo /\ edit' = edit /\ mem' = mem /\ imm' = imm
      /\ logfile' = logfile /\ flushing' = flushing
      /\ written' = written /\ synced' = synced /\ incarnation' = incarnation
  BY <1>1 DEF DeleteObsoleteFile, openVars, memVars, applyVars, ghostVars
<1>3. /\ vs.open /\ CURRENT # 0 /\ CURRENT = vs.manifest
      /\ logfile \in DOMAIN logs /\ logfile # 0 /\ \A n \in DOMAIN logs : n <= logfile
      /\ vs.log_number <= logfile
      /\ vs.files \subseteq DOMAIN tables
      /\ Saved.added = vs.files /\ Saved.log = {vs.log_number}
      /\ manifests[CURRENT].synced = Len(manifests[CURRENT].records)
  BY <1>1 DEF UpInv
<1>4. /\ logs \in [DOMAIN logs -> File(Entry)] /\ DOMAIN logs \subseteq Nat
      /\ manifests \in [DOMAIN manifests -> File(EditType)] /\ DOMAIN manifests \subseteq Nat
      /\ tables \in [DOMAIN tables -> SUBSET Entry] /\ DOMAIN tables \subseteq Nat
      /\ vs.log_number \in Nat /\ vs.manifest \in Nat /\ logfile \in Nat
  BY DEF TypeInv, VersionsType
<1>5. /\ DOMAIN logs' \subseteq DOMAIN logs /\ \A n \in DOMAIN logs' : logs'[n] = logs[n]
      /\ \A n \in DOMAIN logs : n >= vs.log_number => n \in DOMAIN logs'
      /\ logs' \in [DOMAIN logs' -> File(Entry)]
  <2>1. CASE \E n \in Obsolete.logs : logs' = Without(logs, {n})
    <3>1. PICK n \in Obsolete.logs : logs' = Without(logs, {n})
      BY <2>1
    <3>2. n \in Nat /\ n < vs.log_number
      BY <1>4 DEF Obsolete
    <3>3. DOMAIN logs' = DOMAIN logs \ {n} /\ \A m \in DOMAIN logs' : logs'[m] = logs[m]
      BY <3>1 DEF Without
    <3>4. logs' \in [DOMAIN logs' -> File(Entry)]
      BY <1>4, <3>1, WithoutType
    <3>5. \A m \in DOMAIN logs : m >= vs.log_number => m \in Nat /\ m # n
      BY <1>4, <3>2
    <3> QED
      BY <3>3, <3>4, <3>5
  <2>2. CASE logs' = logs
    BY <1>4, <2>2
  <2> QED
    BY <2>1, <2>2 DEF DeleteObsoleteFile
<1>6. /\ DOMAIN manifests' \subseteq DOMAIN manifests
      /\ \A n \in DOMAIN manifests' : manifests'[n] = manifests[n]
      /\ CURRENT \in DOMAIN manifests => CURRENT \in DOMAIN manifests'
      /\ manifests' \in [DOMAIN manifests' -> File(EditType)]
  <2>1. CASE \E n \in Obsolete.manifests : manifests' = Without(manifests, {n})
    <3>1. PICK n \in Obsolete.manifests : manifests' = Without(manifests, {n})
      BY <2>1
    <3>2. n \in Nat /\ n < CURRENT /\ CURRENT \in Nat
      BY <1>3, <1>4 DEF Obsolete
    <3>3. /\ DOMAIN manifests' = DOMAIN manifests \ {n}
          /\ \A m \in DOMAIN manifests' : manifests'[m] = manifests[m]
      BY <3>1 DEF Without
    <3>4. manifests' \in [DOMAIN manifests' -> File(EditType)]
      BY <1>4, <3>1, WithoutType
    <3>5. CURRENT # n
      BY <3>2
    <3> QED
      BY <3>3, <3>4, <3>5
  <2>2. CASE manifests' = manifests
    BY <1>4, <2>2
  <2> QED
    BY <2>1, <2>2 DEF DeleteObsoleteFile
<1>7. /\ DOMAIN tables' \subseteq DOMAIN tables /\ \A n \in DOMAIN tables' : tables'[n] = tables[n]
      /\ vs.files \subseteq DOMAIN tables'
      /\ tables' \in [DOMAIN tables' -> SUBSET Entry]
  <2>1. CASE \E n \in Obsolete.tables : tables' = Without(tables, {n})
    <3>1. PICK n \in Obsolete.tables : tables' = Without(tables, {n})
      BY <2>1
    <3>2. n \notin vs.files
      BY DEF Obsolete
    <3>3. /\ DOMAIN tables' = DOMAIN tables \ {n}
          /\ \A m \in DOMAIN tables' : tables'[m] = tables[m]
      BY <3>1 DEF Without
    <3>4. tables' \in [DOMAIN tables' -> SUBSET Entry]
      BY <1>4, <3>1, WithoutType
    <3> QED
      BY <1>3, <3>2, <3>3, <3>4
  <2>2. CASE tables' = tables
    BY <1>3, <1>4, <2>2
  <2> QED
    BY <2>1, <2>2 DEF DeleteObsoleteFile
<1>8. PICK state : state = Saved
  OBVIOUS
<1>9. /\ CURRENT \in DOMAIN manifests /\ manifests[CURRENT] \in File(EditType) /\ Saved # NoEdit
  BY <1>1, SavedIsSound
<1>10. Survivors = {state}
  BY <1>3, <1>8, <1>9, SurvivorOfSynced DEF Survivors, Saved
<1>11. Keeps(state)
  <2>1. The(state.log) = vs.log_number
    BY <1>3, <1>8, TheOne
  <2> QED
    BY <1>3, <1>5, <1>7, <1>8, <2>1 DEF Keeps
<1>12. DiskInv' /\ Saved' = Saved /\ Survivors' = Survivors
  BY <1>2, <1>3, <1>6, <1>9, <1>10, <1>11, DiskKept
<1>13. TypeInv'
  BY <1>2, <1>4, <1>5, <1>6, <1>7 DEF TypeInv
<1>14. FilesInv'
  BY <1>5, <1>6 DEF FilesInv
<1>15. logfile \in DOMAIN logs' /\ logs'[logfile] = logs[logfile]
  BY <1>3, <1>4, <1>5
<1>16. DownInv'
  BY <1>2, <1>15 DEF DownInv
<1>17. /\ LogEntries(logfile)' = LogEntries(logfile)
       /\ LogsFrom(vs.log_number)' = LogsFrom(vs.log_number)
       /\ \A n \in LogsFrom(vs.log_number) : LogEntries(n)' = LogEntries(n)
       /\ EntriesIn(vs.files)' = EntriesIn(vs.files)
  <2>1. LogEntries(logfile)' = LogEntries(logfile)
    BY <1>2, <1>15 DEF LogEntries
  <2>2. LogsFrom(vs.log_number)' = LogsFrom(vs.log_number)
    BY <1>2, <1>5 DEF LogsFrom
  <2>3. \A n \in LogsFrom(vs.log_number) : LogEntries(n)' = LogEntries(n)
    BY <1>5 DEF LogsFrom, LogEntries
  <2>4. EntriesIn(vs.files)' = EntriesIn(vs.files)
    BY <1>2, <1>7 DEF EntriesIn
  <2> QED
    BY <2>1, <2>2, <2>3, <2>4
<1>18. UpInv'
  <2>1. Found(state)' = Found(state)
    BY <1>11, FoundSame
  <2>2. Found(Saved)' = Found(state) /\ Found(Saved) = Found(state)
    BY <1>8, <1>12, <2>1 DEF Found
  <2>3. (mem' \cup (UNION imm')) \cup EntriesIn(vs.files)' \subseteq Found(Saved)'
    BY <1>1, <1>2, <1>17, <2>2 DEF UpInv
  <2>4. \A s \in Survivors' :
          /\ s # NoEdit /\ The(s.log) <= logfile'
          /\ \A n \in s.added : n < vs'.next_file
          /\ UpTo(Found(s)', vs'.last_sequence)
    BY <1>1, <1>2, <1>10, <1>12, <2>1 DEF UpInv
  <2>5. /\ AllWhole(manifests'[CURRENT']) /\ AllWhole(logs'[logfile'])
        /\ manifests'[CURRENT'].synced = Len(manifests'[CURRENT'].records)
    BY <1>1, <1>2, <1>3, <1>6, <1>9, <1>15 DEF UpInv
  <2>6. \A n \in DOMAIN logs' : n <= logfile'
    BY <1>2, <1>3, <1>5
  <2>7. \A n \in LogsFrom(vs.log_number)' \ {logfile'} :
          LogEntries(n)' \subseteq (UNION imm') \cup EntriesIn(vs.files)'
    BY <1>1, <1>2, <1>17 DEF UpInv
  <2> QED
    BY <1>1, <1>2, <1>3, <1>7, <1>12, <1>15, <1>17, <2>3, <2>4, <2>5, <2>6, <2>7 DEF UpInv
<1>19. RecoveredInv' /\ SaveInv' /\ FlushInv'
  BY <1>1, <1>2 DEF RecoveredInv, SaveInv, FlushInv
<1> QED
  BY <1>12, <1>13, <1>14, <1>16, <1>18, <1>19

(* A step that changes neither what is on disk nor what is in memory.      *)
LEMMA CollectedKeeps ==
  ASSUME RecoveryInv, Collected
  PROVE  RecoveryInv'
<1> USE DEF RecoveryInv
<1>1. pc = "up" /\ apply = "none"
  BY DEF Collected, DownInv, UpInv
<1>2. /\ CURRENT' = CURRENT /\ logs' = logs /\ tables' = tables /\ vs' = vs
      /\ manifests' = manifests /\ bg_error' = bg_error
      /\ pc' = "up" /\ apply' = apply /\ record' = record /\ collect' = FALSE
      /\ reuse' = reuse /\ todo' = todo /\ edit' = edit /\ mem' = mem
      /\ logfile' = logfile /\ imm' = imm /\ flushing' = flushing
      /\ written' = written /\ synced' = synced /\ incarnation' = incarnation
  BY <1>1 DEF Collected, diskVars, openVars, memVars, ghostVars
<1>3. TypeInv' /\ FilesInv'
  BY <1>2 DEF TypeInv, FilesInv
<1>4. /\ DiskInv' /\ Saved' = Saved /\ Survivors' = Survivors
  <2>1. \A s : Sound(s) => Keeps(s)
    BY <1>2 DEF Keeps, Sound
  <2>2. CURRENT \in DOMAIN manifests /\ Saved # NoEdit /\ CURRENT # 0
    BY <1>1, SavedIsSound
  <2> QED
    BY <1>2, <2>1, <2>2, DiskKept
<1>5. DownInv'
  BY <1>1, <1>2 DEF DownInv
<1>6. UpInv'
  <2>1. /\ LogEntries(logfile)' = LogEntries(logfile)
        /\ LogsFrom(vs.log_number)' = LogsFrom(vs.log_number)
        /\ \A n : LogEntries(n)' = LogEntries(n)
        /\ EntriesIn(vs.files)' = EntriesIn(vs.files)
        /\ \A s : Found(s)' = Found(s)
    BY <1>2 DEF LogEntries, LogsFrom, EntriesIn, Found
  <2>2. Found(Saved)' = Found(Saved)
    BY <1>2, <1>4 DEF LogEntries, LogsFrom, EntriesIn, Found
  <2> QED
    BY <1>1, <1>2, <1>4, <2>1, <2>2 DEF UpInv
<1>7. RecoveredInv' /\ SaveInv' /\ FlushInv'
  BY <1>1, <1>2 DEF RecoveredInv, SaveInv, FlushInv
<1> QED
  BY <1>3, <1>4, <1>5, <1>6, <1>7

-----------------------------------------------------------------------------
(* Writes and flushes.                                                     *)

(* What was synced of a log stays synced when a record is added.           *)
LEMMA KeptGrows ==
  ASSUME NEW D, NEW file \in File(D), AllWhole(file), file.synced <= Len(file.records), NEW e \in D
  PROVE  Range(Records(SyncedPart(file))) \subseteq
           Range(Records(SyncedPart(AddRecord(file, e))))
<1> DEFINE more == AddRecord(file, e)
<1>1. file.records \in Seq({Torn} \cup Wholes(D)) /\ file.synced \in Nat
  BY DEF File
<1>2. /\ more \in File(D) /\ more.synced = file.synced
      /\ Len(more.records) = Len(file.records) + 1
      /\ more.records = Append(file.records, Whole(e))
  BY AddRecordRight
<1> HIDE DEF more
<1>3. more.synced <= Len(more.records)
  BY <1>1, <1>2
<1>4. /\ SyncedPart(file) \in File(D)
      /\ SyncedPart(file).records = SubSeq(file.records, 1, file.synced)
      /\ SyncedPart(more) \in File(D)
      /\ SyncedPart(more).records = SubSeq(more.records, 1, file.synced)
  BY <1>2, <1>3, SyncedPartRight
<1>5. file.synced \in 0 .. Len(file.records) /\ file.synced \in 0 .. Len(more.records)
  BY <1>1, <1>2
<1>6. /\ Len(SyncedPart(file).records) = file.synced
      /\ \A i \in 1 .. file.synced : SyncedPart(file).records[i] = file.records[i]
  BY <1>4, <1>5, CutRight
<1>7. /\ Len(SyncedPart(more).records) = file.synced
      /\ \A i \in 1 .. file.synced : SyncedPart(more).records[i] = more.records[i]
  BY <1>2, <1>4, <1>5, CutRight
<1>8. \A i \in 1 .. file.synced : more.records[i] = file.records[i]
  BY <1>1, <1>2
<1>9. /\ Len(SyncedPart(file).records) <= Len(SyncedPart(more).records)
      /\ \A i \in 1 .. Len(SyncedPart(file).records) :
           SyncedPart(file).records[i] = SyncedPart(more).records[i]
  BY <1>1, <1>6, <1>7, <1>8
<1>10. Range(Records(SyncedPart(file))) \subseteq Range(Records(SyncedPart(more)))
  BY <1>4, <1>9, PrefixRecords
<1> QED
  BY <1>10 DEF more

(* A write adds an entry whose sequence number is above all there are.     *)
LEMMA WriteKeeps ==
  ASSUME RecoveryInv, NEW sync \in BOOLEAN, Write(sync)
  PROVE  RecoveryInv'
<1> USE DEF RecoveryInv
<1>1. pc = "up" /\ ~ bg_error /\ ~ collect
  BY DEF Write, Up
<1>2. /\ vs.open /\ CURRENT # 0 /\ CURRENT = vs.manifest /\ vs.manifest < vs.next_file
      /\ apply \in {"none", "append", "sync", "install"}
      /\ apply = "none" => flushing = 0
      /\ logfile \in DOMAIN logs /\ logfile # 0 /\ \A n \in DOMAIN logs : n <= logfile
      /\ logfile < vs.next_file /\ vs.log_number <= logfile
      /\ AllWhole(logs[logfile]) /\ mem = LogEntries(logfile)
      /\ \A n \in LogsFrom(vs.log_number) \ {logfile} :
           LogEntries(n) \subseteq (UNION imm) \cup EntriesIn(vs.files)
      /\ mem \cup (UNION imm) \cup EntriesIn(vs.files) \subseteq Found(Saved)
      /\ vs.files \subseteq DOMAIN tables /\ \A n \in vs.files : n < vs.next_file
      /\ AllWhole(manifests[CURRENT])
      /\ \A state \in Survivors :
           /\ state # NoEdit /\ The(state.log) <= logfile
           /\ \A n \in state.added : n < vs.next_file
           /\ UpTo(Found(state), vs.last_sequence)
      /\ apply \in {"none", "append"} => Saved.added = vs.files /\ Saved.log = {vs.log_number}
      /\ apply # "sync" => manifests[CURRENT].synced = Len(manifests[CURRENT].records)
  BY <1>1 DEF UpInv
<1>3. /\ vs \in VersionsType /\ vs.last_sequence \in Nat /\ incarnation \in Nat
      /\ logs \in [DOMAIN logs -> File(Entry)] /\ DOMAIN logs \subseteq Nat
      /\ mem \in SUBSET Entry /\ written \in SUBSET Entry /\ synced \in SUBSET Entry
      /\ logs[logfile].synced <= Len(logs[logfile].records)
  BY <1>2 DEF TypeInv, FilesInv, VersionsType
<1>4. PICK number : number = logfile
  OBVIOUS
<1>5. PICK e : e = <<vs.last_sequence + 1, incarnation>>
  OBVIOUS
<1>6. e \in Entry /\ e[1] = vs.last_sequence + 1
  BY <1>3, <1>5 DEF Entry
<1> DEFINE more == AddRecord(logs[number], e)
<1>7. PICK new : new = IF sync THEN Sync(more) ELSE more
  OBVIOUS
<1>8. /\ logs' = [logs EXCEPT ![number] = new] /\ mem' = mem \cup {e}
      /\ written' = written \cup {e}
      /\ synced' = (IF sync THEN synced \cup Range(Records(more)) ELSE synced)
      /\ vs' = [vs EXCEPT !.last_sequence = @ + 1]
      /\ CURRENT' = CURRENT /\ tables' = tables /\ manifests' = manifests /\ bg_error' = bg_error
      /\ pc' = pc /\ apply' = apply /\ record' = record /\ collect' = collect
      /\ reuse' = reuse /\ todo' = todo /\ edit' = edit
      /\ logfile' = logfile /\ imm' = imm /\ flushing' = flushing /\ incarnation' = incarnation
  BY <1>4, <1>5, <1>7 DEF Write, openVars, applyVars
<1>9. logs[number] \in File(Entry) /\ AllWhole(logs[number])
  BY <1>2, <1>3, <1>4
<1>10. /\ more \in File(Entry) /\ AllWhole(more)
       /\ more.synced = logs[number].synced /\ Len(more.records) = Len(logs[number].records) + 1
       /\ Range(Records(more)) = Range(Records(logs[number])) \cup {e}
  BY <1>6, <1>9, AddRecordRight
<1>11. more.synced <= Len(more.records)
  BY <1>3, <1>4, <1>9, <1>10 DEF File
<1>12. Range(Records(SyncedPart(logs[number]))) \subseteq Range(Records(SyncedPart(more)))
  BY <1>3, <1>4, <1>6, <1>9, KeptGrows
<1>13. Range(Records(SyncedPart(more))) \subseteq Range(Records(more))
  BY <1>10, <1>11, SyncedPartRight
<1> HIDE DEF more
<1>14. /\ new \in File(Entry) /\ AllWhole(new) /\ new.synced <= Len(new.records)
       /\ Records(new) = Records(more)
       /\ Range(Records(SyncedPart(more))) \subseteq Range(Records(SyncedPart(new)))
       /\ sync => Range(Records(more)) \subseteq Range(Records(SyncedPart(new)))
  <2>1. CASE ~ sync
    BY <1>7, <1>10, <1>11, <2>1
  <2>2. CASE sync
    <3>1. /\ new \in File(Entry) /\ new.records = more.records
          /\ new.synced = Len(more.records) /\ Records(new) = Records(more) /\ AllWhole(new)
      BY <1>7, <1>10, <2>2, SyncRight
    <3>2. new.synced = Len(new.records) /\ new.synced <= Len(new.records)
      BY <3>1 DEF File
    <3>3. Records(SyncedPart(new)) = Records(new)
      BY <3>1, <3>2, SyncedPartRight
    <3> QED
      BY <1>13, <3>1, <3>2, <3>3
  <2> QED
    BY <2>1, <2>2
<1>15. /\ DOMAIN logs' = DOMAIN logs /\ logs'[number] = new
       /\ \A n \in DOMAIN logs : n # number => logs'[n] = logs[n]
       /\ logs' \in [DOMAIN logs' -> File(Entry)]
  BY <1>2, <1>3, <1>4, <1>8, <1>14
<1>16. /\ \A n \in DOMAIN logs : n # number => LogEntries(n)' = LogEntries(n)
                                               /\ KeptEntries(n)' = KeptEntries(n)
       /\ LogEntries(number)' = LogEntries(number) \cup {e}
       /\ KeptEntries(number) \subseteq KeptEntries(number)'
       /\ sync => Range(Records(more)) \subseteq KeptEntries(number)'
  <2>1. \A n \in DOMAIN logs : n # number => LogEntries(n)' = LogEntries(n)
                                             /\ KeptEntries(n)' = KeptEntries(n)
    BY <1>15 DEF LogEntries, KeptEntries
  <2>2. LogEntries(number)' = LogEntries(number) \cup {e}
    BY <1>10, <1>14, <1>15 DEF LogEntries
  <2>3. KeptEntries(number)' = Range(Records(SyncedPart(new)))
    BY <1>15 DEF KeptEntries
  <2>4. KeptEntries(number) = Range(Records(SyncedPart(logs[number])))
    BY DEF KeptEntries
  <2> QED
    BY <1>12, <1>14, <2>1, <2>2, <2>3, <2>4
<1>17. \A n : LogsFrom(n)' = LogsFrom(n) /\ EntriesIn(n)' = EntriesIn(n)
  BY <1>8, <1>15 DEF LogsFrom, EntriesIn
<1>18. ASSUME NEW state, The(state.log) <= logfile
       PROVE  /\ Found(state)' = Found(state) \cup {e}
              /\ FoundSynced(state) \subseteq FoundSynced(state)'
              /\ sync => Range(Records(more)) \subseteq FoundSynced(state)'
  <2> DEFINE from == LogsFrom(The(state.log))
  <2>1. number \in DOMAIN logs /\ number >= The(state.log)
    <3>1. \A l : l <= logfile => logfile >= l
      OBVIOUS
    <3> QED
      BY <1>2, <1>4, <1>18, <3>1
  <2>2. from' = from /\ number \in from /\ \A n \in from : n \in DOMAIN logs
    BY <1>17, <2>1 DEF LogsFrom
  <2>3. EntriesIn(state.added)' = EntriesIn(state.added)
    BY <1>17
  <2> HIDE DEF from
  <2>4. UNION {LogEntries(n)' : n \in from} = (UNION {LogEntries(n) : n \in from}) \cup {e}
    <3>1. \A n \in from : LogEntries(n)' = IF n = number THEN LogEntries(n) \cup {e}
                                           ELSE LogEntries(n)
      BY <1>16, <2>2
    <3> QED
      BY <2>2, <3>1
  <2>5. UNION {KeptEntries(n) : n \in from} \subseteq UNION {KeptEntries(n)' : n \in from}
    BY <1>16, <2>2
  <2>6. sync => Range(Records(more)) \subseteq UNION {KeptEntries(n)' : n \in from}
    BY <1>16, <2>2
  <2>7. /\ Found(state) = EntriesIn(state.added) \cup UNION {LogEntries(n) : n \in from}
        /\ FoundSynced(state) = EntriesIn(state.added) \cup UNION {KeptEntries(n) : n \in from}
        /\ Found(state)' = EntriesIn(state.added)' \cup UNION {LogEntries(n)' : n \in from}
        /\ FoundSynced(state)' = EntriesIn(state.added)' \cup UNION {KeptEntries(n)' : n \in from}
    BY <2>2 DEF Found, FoundSynced, from
  <2> QED
    BY <2>3, <2>4, <2>5, <2>6, <2>7
<1>19. /\ vs'.files = vs.files /\ vs'.log_number = vs.log_number /\ vs'.next_file = vs.next_file
       /\ vs'.last_sequence = vs.last_sequence + 1 /\ vs'.manifest = vs.manifest /\ vs'.open
       /\ vs' \in VersionsType
  BY <1>2, <1>3, <1>8 DEF VersionsType
<1>20. /\ CURRENT \in DOMAIN manifests /\ Saved \in Survivors /\ Saved # NoEdit
       /\ written \subseteq Found(Saved)
       /\ \A state \in Survivors : \A n \in state.added : n < The(Saved.next)
  BY <1>1, SavedIsSound
<1>21. Survivors' = Survivors /\ Saved' = Saved
  BY <1>8 DEF Survivors, Saved
<1>22. PICK saved : saved = Saved
  OBVIOUS
<1>23. /\ Found(Saved) = Found(saved) /\ Found(Saved)' = Found(saved)'
       /\ Found(saved)' = Found(saved) \cup {e}
  BY <1>2, <1>18, <1>20, <1>21, <1>22 DEF Found
<1>24. ASSUME NEW state \in Survivors
       PROVE  Sound(state)' /\ UpTo(Found(state)', vs'.last_sequence)
  <2>1. Sound(state) /\ The(state.log) <= logfile /\ UpTo(Found(state), vs.last_sequence)
    BY <1>2 DEF DiskInv
  <2>2. Found(state)' = Found(state) \cup {e} /\ FoundSynced(state) \subseteq FoundSynced(state)'
        /\ (sync => Range(Records(more)) \subseteq FoundSynced(state)')
    BY <1>18, <2>1
  <2>3. \A f \in Found(state) : f[1] \in Nat /\ f[1] <= vs.last_sequence
    <3>1. Found(state) \subseteq Entry
      BY <2>1, FoundType DEF Sound
    <3> QED
      BY <2>1, <3>1 DEF UpTo, Entry
  <2>4. \A f \in Found(state) : f[1] # e[1] /\ f[1] <= vs.last_sequence + 1
    BY <1>3, <1>6, <2>3
  <2>5. Unique(Found(state))'
    BY <2>1, <2>2, <2>4 DEF Sound, Unique
  <2>6. UpTo(Found(state)', vs'.last_sequence)
    BY <1>3, <1>6, <1>19, <2>2, <2>4 DEF UpTo
  <2>7. Fields(state)'
    <3>1. EntriesIn(state.added)' = EntriesIn(state.added)
      BY <1>17
    <3> QED
      BY <1>8, <2>1, <3>1 DEF Sound, Fields
  <2>8. synced' \subseteq FoundSynced(state)'
    BY <1>8, <2>1, <2>2 DEF Sound
  <2> QED
    BY <1>8, <2>1, <2>5, <2>6, <2>7, <2>8 DEF Sound
<1>25. DiskInv'
  <2>1. written' \subseteq Found(Saved)'
    BY <1>8, <1>20, <1>23
  <2> QED
    BY <1>2, <1>8, <1>20, <1>21, <1>24, <2>1 DEF DiskInv
<1>26. TypeInv'
  <2>1. Range(Records(more)) \subseteq Entry
    BY <1>10, RecordsType
  <2> QED
    BY <1>3, <1>6, <1>8, <1>15, <1>19, <2>1 DEF TypeInv
<1>27. FilesInv'
  BY <1>4, <1>8, <1>14, <1>15 DEF FilesInv
<1>28. DownInv'
  BY <1>1, <1>2, <1>8, <1>15 DEF DownInv
<1>29. UpInv'
  <2>1. LogEntries(logfile)' = LogEntries(number)'
    BY <1>4, <1>8 DEF LogEntries
  <2>2. mem' = LogEntries(logfile)'
    BY <1>2, <1>4, <1>8, <1>16, <2>1
  <2>3. \A n \in LogsFrom(vs.log_number)' \ {logfile'} :
          LogEntries(n)' \subseteq (UNION imm') \cup EntriesIn(vs.files)'
    <3>1. LogsFrom(vs.log_number)' = LogsFrom(vs.log_number) /\ EntriesIn(vs.files)' = EntriesIn(vs.files)
      BY <1>8, <1>15, <1>19 DEF LogsFrom, EntriesIn
    <3>2. \A n \in LogsFrom(vs.log_number) : n \in DOMAIN logs
      BY DEF LogsFrom
    <3> QED
      BY <1>2, <1>4, <1>8, <1>16, <3>1, <3>2
  <2>4. (mem' \cup (UNION imm')) \cup EntriesIn(vs.files)' \subseteq Found(Saved)'
    <3>1. EntriesIn(vs.files)' = EntriesIn(vs.files)
      BY <1>8, <1>19 DEF EntriesIn
    <3> QED
      BY <1>2, <1>8, <1>23, <3>1
  <2>5. \A s \in Survivors' :
          /\ s # NoEdit /\ The(s.log) <= logfile'
          /\ \A n \in s.added : n < vs'.next_file
          /\ UpTo(Found(s)', vs'.last_sequence)
    BY <1>2, <1>8, <1>19, <1>21, <1>24
  <2>6. AllWhole(logs'[logfile'])
    BY <1>4, <1>8, <1>14, <1>15
  <2> QED
    BY <1>1, <1>2, <1>8, <1>15, <1>19, <1>21, <2>2, <2>3, <2>4, <2>5, <2>6 DEF UpInv
<1>30. FlushInv'
  <2>1. EntriesIn(vs.files)' = EntriesIn(vs.files)
    BY <1>8, <1>19 DEF EntriesIn
  <2> QED
    BY <1>1, <1>8, <1>19, <1>21, <2>1 DEF FlushInv
<1>31. RecoveredInv' /\ SaveInv'
  BY <1>1, <1>8 DEF RecoveredInv, SaveInv
<1> QED
  BY <1>25, <1>26, <1>27, <1>28, <1>29, <1>30, <1>31

(* The log and the memtable are new; the entries of the old ones are in    *)
(* imm, and in the old log.                                                *)
LEMMA SwitchMemTableKeeps ==
  ASSUME RecoveryInv, SwitchMemTable
  PROVE  RecoveryInv'
<1> USE DEF RecoveryInv
<1>1. pc = "up" /\ ~ bg_error /\ ~ collect /\ imm = {}
  BY DEF SwitchMemTable, Up
<1>2. PICK n0 : n0 = vs.next_file
  OBVIOUS
<1>3. PICK number : number = logfile
  OBVIOUS
<1>4. /\ logs' = Put(logs, n0, EmptyFile) /\ mem' = {} /\ imm' = {mem} /\ logfile' = n0
      /\ vs' = [vs EXCEPT !.next_file = @ + 1]
      /\ CURRENT' = CURRENT /\ tables' = tables /\ manifests' = manifests /\ bg_error' = bg_error
      /\ pc' = pc /\ apply' = apply /\ record' = record /\ collect' = collect
      /\ reuse' = reuse /\ todo' = todo /\ edit' = edit /\ flushing' = flushing
      /\ written' = written /\ synced' = synced /\ incarnation' = incarnation
  BY <1>2 DEF SwitchMemTable, openVars, applyVars, ghostVars
<1>5. /\ vs.open /\ CURRENT # 0 /\ CURRENT = vs.manifest /\ vs.manifest < n0
      /\ apply \in {"none", "append", "sync", "install"}
      /\ apply = "none" => flushing = 0
      /\ number \in DOMAIN logs /\ number # 0 /\ \A n \in DOMAIN logs : n <= number
      /\ number < n0 /\ vs.log_number <= number
      /\ mem = LogEntries(number)
      /\ \A n \in LogsFrom(vs.log_number) \ {number} : LogEntries(n) \subseteq EntriesIn(vs.files)
      /\ mem \cup (UNION imm) \cup EntriesIn(vs.files) \subseteq Found(Saved)
      /\ vs.files \subseteq DOMAIN tables /\ \A n \in vs.files : n < n0
      /\ AllWhole(manifests[CURRENT])
      /\ \A state \in Survivors :
           /\ state # NoEdit /\ The(state.log) <= number
           /\ \A n \in state.added : n < n0
           /\ UpTo(Found(state), vs.last_sequence)
      /\ apply \in {"none", "append"} => Saved.added = vs.files /\ Saved.log = {vs.log_number}
      /\ apply # "sync" => manifests[CURRENT].synced = Len(manifests[CURRENT].records)
  BY <1>1, <1>2, <1>3 DEF UpInv
<1>6. /\ vs \in VersionsType /\ n0 \in Nat /\ number \in Nat /\ vs.manifest \in Nat
      /\ vs.log_number \in Nat
      /\ logs \in [DOMAIN logs -> File(Entry)] /\ DOMAIN logs \subseteq Nat
      /\ mem \in SUBSET Entry
  BY <1>2, <1>3 DEF TypeInv, VersionsType
<1>7. /\ vs'.files = vs.files /\ vs'.log_number = vs.log_number /\ vs'.next_file = n0 + 1
      /\ vs'.last_sequence = vs.last_sequence /\ vs'.manifest = vs.manifest /\ vs'.open
      /\ vs' \in VersionsType
  BY <1>2, <1>4, <1>5, <1>6 DEF VersionsType
<1>8. n0 \notin DOMAIN logs /\ n0 # 0
  BY <1>5, <1>6
<1>9. /\ DOMAIN logs' = DOMAIN logs \cup {n0} /\ logs'[n0] = EmptyFile
      /\ \A n \in DOMAIN logs : logs'[n] = logs[n]
      /\ logs' \in [DOMAIN logs' -> File(Entry)]
  <2>1. logs' \in [DOMAIN logs' -> File(Entry)]
    BY <1>4, <1>6, EmptyFileRight, PutType
  <2> QED
    BY <1>4, <1>8, <2>1 DEF Put
<1>10. TypeInv'
  BY <1>4, <1>6, <1>7, <1>9 DEF TypeInv
<1>11. FilesInv'
  <2>1. EmptyFile.synced <= Len(EmptyFile.records)
    BY EmptyFileRight
  <2> QED
    BY <1>4, <1>9, <2>1 DEF FilesInv
<1>12. /\ DiskInv' /\ Saved' = Saved /\ Survivors' = Survivors
       /\ Found(Saved)' = Found(Saved)
       /\ \A state \in Survivors : Found(state)' = Found(state)
  <2>1. \A s : Sound(s) => Keeps(s)
    BY <1>4, <1>9 DEF Keeps, Sound
  <2>2. CURRENT \in DOMAIN manifests /\ Saved # NoEdit /\ Saved \in Survivors
    BY <1>1, SavedIsSound
  <2>3. \A s \in Survivors : Sound(s)
    BY <1>5 DEF DiskInv
  <2> QED
    BY <1>4, <1>5, <2>1, <2>2, <2>3, DiskKept
<1>13. DownInv'
  BY <1>1, <1>4, <1>9 DEF DownInv
<1>14. /\ LogsFrom(vs.log_number)' \subseteq LogsFrom(vs.log_number) \cup {n0}
       /\ \A n \in DOMAIN logs : LogEntries(n)' = LogEntries(n)
       /\ LogEntries(n0)' = {}
       /\ EntriesIn(vs.files)' = EntriesIn(vs.files)
  <2>1. LogsFrom(vs.log_number)' \subseteq LogsFrom(vs.log_number) \cup {n0}
    BY <1>7, <1>9 DEF LogsFrom
  <2>2. \A n \in DOMAIN logs : LogEntries(n)' = LogEntries(n)
    BY <1>9 DEF LogEntries
  <2>3. LogEntries(n0)' = {}
    BY <1>9, EmptyEntries DEF LogEntries
  <2>4. EntriesIn(vs.files)' = EntriesIn(vs.files)
    BY <1>4, <1>7 DEF EntriesIn
  <2> QED
    BY <2>1, <2>2, <2>3, <2>4
<1>15. UpInv'
  <2>1. LogEntries(logfile)' = {}
    BY <1>4, <1>14 DEF LogEntries
  <2>2. \A n \in LogsFrom(vs.log_number)' \ {logfile'} :
          LogEntries(n)' \subseteq (UNION imm') \cup EntriesIn(vs.files)'
    <3> SUFFICES ASSUME NEW n \in LogsFrom(vs.log_number)' \ {logfile'}
                 PROVE  LogEntries(n)' \subseteq (UNION imm') \cup EntriesIn(vs.files)'
      OBVIOUS
    <3>1. n \in LogsFrom(vs.log_number)
      BY <1>4, <1>14
    <3>2. n \in DOMAIN logs /\ LogEntries(n)' = LogEntries(n)
      BY <1>14, <3>1 DEF LogsFrom
    <3>3. UNION imm' = mem
      BY <1>4
    <3>4. CASE n = number
      BY <1>5, <3>2, <3>3, <3>4
    <3>5. CASE n # number
      BY <1>5, <1>14, <3>1, <3>2, <3>5
    <3> QED
      BY <3>4, <3>5
  <2>3. (mem' \cup (UNION imm')) \cup EntriesIn(vs.files)' \subseteq Found(Saved)'
    BY <1>4, <1>5, <1>12, <1>14
  <2>4. \A s \in Survivors' :
          /\ s # NoEdit /\ The(s.log) <= logfile'
          /\ \A n \in s.added : n < vs'.next_file
          /\ UpTo(Found(s)', vs'.last_sequence)
    <3> SUFFICES ASSUME NEW s \in Survivors
                 PROVE  /\ s # NoEdit /\ The(s.log) <= n0
                        /\ \A n \in s.added : n < n0 + 1
                        /\ UpTo(Found(s), vs.last_sequence)
      BY <1>4, <1>7, <1>12
    <3>1. Sound(s)
      BY <1>5 DEF DiskInv
    <3>2. The(s.log) \in Nat
      BY <3>1, SoundFields
    <3>3. \A n \in s.added : n \in Nat
      BY <3>1 DEF Sound, TypeInv
    <3> QED
      BY <1>5, <1>6, <3>2, <3>3
  <2>5. \A n \in vs'.files : n < vs'.next_file
    <3>1. \A n \in vs.files : n \in Nat
      BY <1>6 DEF VersionsType
    <3> QED
      BY <1>5, <1>6, <1>7, <3>1
  <2>6. /\ vs'.manifest < vs'.next_file /\ logfile' < vs'.next_file /\ vs'.log_number <= logfile'
        /\ \A n \in DOMAIN logs' : n <= logfile'
    <3>1. \A n \in DOMAIN logs : n <= n0
      BY <1>5, <1>6
    <3>2. vs.log_number <= n0 /\ n0 <= n0 /\ n0 < n0 + 1 /\ vs.manifest < n0 + 1
      BY <1>5, <1>6
    <3> QED
      BY <1>4, <1>7, <1>9, <3>1, <3>2
  <2>7. AllWhole(logs'[logfile'])
    BY <1>4, <1>9, EmptyFileRight
  <2> QED
    BY <1>1, <1>4, <1>5, <1>7, <1>8, <1>9, <1>12, <2>1, <2>2, <2>3, <2>4, <2>5, <2>6, <2>7
    DEF UpInv
<1>16. FlushInv'
  <2>1. CASE apply = "none"
    BY <1>4, <2>1 DEF FlushInv
  <2>2. CASE apply # "none"
    <3>1. /\ flushing # 0 /\ flushing \in DOMAIN tables /\ flushing \notin vs.files
          /\ flushing < n0 /\ record.added = {flushing}
          /\ record.deleted = vs.files /\ vs.files # {}
          /\ tables[flushing] = EntriesIn(vs.files)
          /\ record.log = (IF apply = "append" THEN {} ELSE {vs.log_number})
          /\ apply # "append" => Saved.added = (vs.files \ record.deleted) \cup record.added
                                 /\ Saved.log = record.log
      BY <1>1, <1>2, <2>2 DEF FlushInv
    <3>2. flushing < n0 + 1
      <4>1. flushing \in Nat
        BY DEF TypeInv
      <4> QED
        BY <1>6, <3>1, <4>1
    <3> QED
      BY <1>4, <1>7, <1>12, <1>14, <3>1, <3>2 DEF FlushInv
  <2> QED
    BY <2>1, <2>2
<1>17. RecoveredInv' /\ SaveInv'
  BY <1>1, <1>4 DEF RecoveredInv, SaveInv
<1> QED
  BY <1>10, <1>11, <1>12, <1>13, <1>15, <1>16, <1>17

(* A new table, and the edit that adds it: a flush or a compaction begins. *)
TableStep(entries, e) ==
  /\ flushing' = vs.next_file
  /\ tables' = Put(tables, vs.next_file, entries)
  /\ vs' = [vs EXCEPT !.next_file = @ + 1]
  /\ record' = e /\ apply' = "append"
  /\ CURRENT' = CURRENT /\ manifests' = manifests /\ logs' = logs /\ pc' = pc
  /\ reuse' = reuse /\ todo' = todo /\ edit' = edit /\ mem' = mem /\ imm' = imm
  /\ logfile' = logfile /\ collect' = collect /\ bg_error' = bg_error
  /\ written' = written /\ synced' = synced /\ incarnation' = incarnation

(* A table is written, and LogAndApply begins: the invariant is kept.      *)
LEMMA TableStepKeeps ==
  ASSUME RecoveryInv, pc = "up", ~ bg_error, ~ collect, apply = "none",
         NEW entries \in SUBSET Entry, NEW e \in EditType, TableStep(entries, e),
         e.added = {vs.next_file},
         \/ e.deleted = {} /\ e.log = {logfile} /\ imm # {} /\ entries = UNION imm
         \/ e.deleted = vs.files /\ vs.files # {} /\ entries = EntriesIn(vs.files) /\ e.log = {}
  PROVE  RecoveryInv'
<1> USE DEF RecoveryInv
<1>1. PICK n0 : n0 = vs.next_file
  OBVIOUS
<1>2. /\ flushing' = n0 /\ tables' = Put(tables, n0, entries)
      /\ vs' = [vs EXCEPT !.next_file = @ + 1] /\ record' = e /\ apply' = "append"
      /\ CURRENT' = CURRENT /\ manifests' = manifests /\ logs' = logs /\ pc' = pc
      /\ reuse' = reuse /\ todo' = todo /\ edit' = edit /\ mem' = mem /\ imm' = imm
      /\ logfile' = logfile /\ collect' = collect /\ bg_error' = bg_error
      /\ written' = written /\ synced' = synced /\ incarnation' = incarnation
  BY <1>1 DEF TableStep
<1>3. /\ vs \in VersionsType /\ n0 \in Nat /\ vs.manifest \in Nat /\ logfile \in Nat
      /\ tables \in [DOMAIN tables -> SUBSET Entry] /\ DOMAIN tables \subseteq Nat
  BY <1>1 DEF TypeInv, VersionsType
<1>4. /\ vs.open /\ CURRENT # 0 /\ CURRENT = vs.manifest /\ vs.manifest < n0
      /\ logfile \in DOMAIN logs /\ logfile # 0 /\ \A n \in DOMAIN logs : n <= logfile
      /\ logfile < n0 /\ vs.log_number <= logfile
      /\ AllWhole(logs[logfile]) /\ mem = LogEntries(logfile)
      /\ \A n \in LogsFrom(vs.log_number) \ {logfile} :
           LogEntries(n) \subseteq (UNION imm) \cup EntriesIn(vs.files)
      /\ mem \cup (UNION imm) \cup EntriesIn(vs.files) \subseteq Found(Saved)
      /\ vs.files \subseteq DOMAIN tables /\ \A n \in vs.files : n < n0
      /\ AllWhole(manifests[CURRENT])
      /\ \A state \in Survivors :
           /\ state # NoEdit /\ The(state.log) <= logfile
           /\ \A n \in state.added : n < n0
           /\ UpTo(Found(state), vs.last_sequence)
      /\ Saved.added = vs.files /\ Saved.log = {vs.log_number}
      /\ manifests[CURRENT].synced = Len(manifests[CURRENT].records)
  BY <1>1 DEF UpInv
<1>5. /\ vs'.files = vs.files /\ vs'.log_number = vs.log_number /\ vs'.next_file = n0 + 1
      /\ vs'.last_sequence = vs.last_sequence /\ vs'.manifest = vs.manifest /\ vs'.open
      /\ vs' \in VersionsType
  BY <1>1, <1>2, <1>3, <1>4 DEF VersionsType
<1>6. /\ DOMAIN tables' = DOMAIN tables \cup {n0} /\ tables'[n0] = entries
      /\ \A n \in DOMAIN tables : n # n0 => tables'[n] = tables[n]
      /\ tables' \in [DOMAIN tables' -> SUBSET Entry]
  <2>1. tables' \in [DOMAIN tables' -> SUBSET Entry]
    BY <1>2, <1>3, PutType
  <2> QED
    BY <1>2, <2>1 DEF Put
<1>7. n0 # 0 /\ n0 \notin vs.files /\ n0 < n0 + 1
  BY <1>3, <1>4
<1>8. TypeInv'
  BY <1>2, <1>3, <1>5, <1>6 DEF TypeInv
<1>9. FilesInv'
  BY <1>2 DEF FilesInv
<1>10. \A s \in Survivors : Sound(s) /\ \A n \in s.added : n \in DOMAIN tables /\ n # n0
  <2> SUFFICES ASSUME NEW s \in Survivors
               PROVE  Sound(s) /\ \A n \in s.added : n \in DOMAIN tables /\ n # n0
    OBVIOUS
  <2>1. Sound(s)
    BY <1>4 DEF DiskInv
  <2>2. \A n \in s.added : n \in DOMAIN tables /\ n \in Nat
    BY <1>3, <2>1 DEF Sound
  <2> QED
    BY <1>3, <1>4, <2>1, <2>2
<1>11. /\ DiskInv' /\ Saved' = Saved /\ Survivors' = Survivors
       /\ Found(Saved)' = Found(Saved)
       /\ \A state \in Survivors : Found(state)' = Found(state)
  <2>1. \A s \in Survivors : Keeps(s)
    BY <1>2, <1>6, <1>10 DEF Keeps
  <2>2. CURRENT \in DOMAIN manifests /\ Saved # NoEdit /\ Saved \in Survivors
    BY SavedIsSound
  <2> QED
    BY <1>2, <1>4, <1>10, <2>1, <2>2, DiskKept
<1>12. DownInv'
  BY <1>2 DEF DownInv
<1>13. /\ LogEntries(logfile)' = LogEntries(logfile)
       /\ LogsFrom(vs.log_number)' = LogsFrom(vs.log_number)
       /\ \A n : LogEntries(n)' = LogEntries(n)
       /\ EntriesIn(vs.files)' = EntriesIn(vs.files)
  <2>1. EntriesIn(vs.files)' = EntriesIn(vs.files)
    BY <1>4, <1>5, <1>6, <1>7 DEF EntriesIn
  <2> QED
    BY <1>2, <1>5, <2>1 DEF LogEntries, LogsFrom
<1>14. UpInv'
  <2>1. (mem' \cup (UNION imm')) \cup EntriesIn(vs.files)' \subseteq Found(Saved)'
    BY <1>2, <1>4, <1>11, <1>13
  <2>2. \A s \in Survivors' :
          /\ s # NoEdit /\ The(s.log) <= logfile'
          /\ \A n \in s.added : n < vs'.next_file
          /\ UpTo(Found(s)', vs'.last_sequence)
    <3> SUFFICES ASSUME NEW s \in Survivors PROVE \A n \in s.added : n < n0 + 1
      BY <1>2, <1>4, <1>5, <1>11
    <3>1. \A n \in s.added : n \in Nat
      BY <1>3, <1>10
    <3> QED
      BY <1>3, <1>4, <3>1
  <2>3. \A n \in vs'.files : n < vs'.next_file
    <3>1. \A n \in vs.files : n \in Nat
      BY <1>3 DEF VersionsType
    <3> QED
      BY <1>3, <1>4, <1>5, <3>1
  <2>4. vs'.manifest < vs'.next_file /\ logfile' < vs'.next_file
    BY <1>2, <1>3, <1>4, <1>5
  <2>5. vs'.files \subseteq DOMAIN tables'
    BY <1>4, <1>5, <1>6
  <2>6. \A n \in LogsFrom(vs.log_number)' \ {logfile'} :
          LogEntries(n)' \subseteq (UNION imm') \cup EntriesIn(vs.files)'
    BY <1>2, <1>4, <1>13
  <2> QED
    BY <1>2, <1>4, <1>5, <1>11, <1>13, <2>1, <2>2, <2>3, <2>4, <2>5, <2>6 DEF UpInv
<1>15. FlushInv'
  <2>1. record'.added = {n0}
    BY <1>1, <1>2
  <2>2. \/ /\ record'.deleted = {} /\ record'.log = {logfile'} /\ imm' # {}
           /\ tables'[flushing'] = UNION imm'
        \/ /\ record'.deleted = vs'.files /\ vs'.files # {}
           /\ tables'[flushing'] = EntriesIn(vs.files)' /\ record'.log = {}
    BY <1>2, <1>5, <1>6, <1>13
  <2> QED
    BY <1>2, <1>5, <1>6, <1>7, <2>1, <2>2 DEF FlushInv
<1>16. RecoveredInv' /\ SaveInv'
  BY <1>2 DEF RecoveredInv, SaveInv
<1> QED
  BY <1>8, <1>9, <1>11, <1>12, <1>14, <1>15, <1>16

(* A flush begins.                                                         *)
LEMMA CompactMemTableKeeps ==
  ASSUME RecoveryInv, CompactMemTable
  PROVE  RecoveryInv'
<1> USE DEF RecoveryInv
<1>1. pc = "up" /\ ~ bg_error /\ ~ collect /\ imm # {} /\ apply = "none"
  BY DEF CompactMemTable, Up
<1>2. PICK n0, entries, e : n0 = vs.next_file /\ entries = UNION imm
                            /\ e = Edit({}, {vs.next_file}, {logfile}, {}, {})
  OBVIOUS
<1>3. n0 \in Nat /\ logfile \in Nat /\ entries \in SUBSET Entry
  BY <1>2 DEF TypeInv, VersionsType
<1>4. e \in EditType /\ e.added = {vs.next_file} /\ e.deleted = {} /\ e.log = {logfile}
  BY <1>2, <1>3 DEF Edit, EditType
<1>5. TableStep(entries, e)
  <2>1. vs.open
    BY <1>1 DEF UpInv
  <2> QED
    BY <1>2, <2>1 DEF TableStep, CompactMemTable, BeginLogAndApply, openVars, ghostVars
<1> QED
  BY <1>1, <1>2, <1>3, <1>4, <1>5, TableStepKeeps

(* A compaction begins.                                                    *)
LEMMA CompactTablesKeeps ==
  ASSUME RecoveryInv, CompactTables
  PROVE  RecoveryInv'
<1> USE DEF RecoveryInv
<1>1. pc = "up" /\ ~ bg_error /\ ~ collect /\ imm = {} /\ apply = "none"
  BY DEF CompactTables, Up
<1>2. PICK n0, entries, e : n0 = vs.next_file /\ entries = EntriesIn(vs.files)
                            /\ e = Edit(vs.files, {vs.next_file}, {}, {}, {})
  OBVIOUS
<1>3. n0 \in Nat /\ vs.files \in SUBSET Nat /\ entries \in SUBSET Entry
  <2>1. n0 \in Nat /\ vs.files \in SUBSET Nat
    BY <1>2 DEF TypeInv, VersionsType
  <2>2. \A n \in vs.files : tables[n] \subseteq Entry
    BY <1>1 DEF TypeInv, UpInv
  <2> QED
    BY <1>2, <2>1, <2>2 DEF EntriesIn
<1>4. e \in EditType /\ e.added = {vs.next_file} /\ e.deleted = vs.files /\ e.log = {}
  BY <1>2, <1>3 DEF Edit, EditType
<1>5. vs.files # {}
  <2>1. Cardinality(vs.files) > 1
    BY DEF CompactTables
  <2> QED
    BY <2>1, FS_EmptySet
<1>6. TableStep(entries, e)
  <2>1. vs.open
    BY <1>1 DEF UpInv
  <2> QED
    BY <1>2, <2>1 DEF TableStep, CompactTables, BeginLogAndApply, openVars, ghostVars
<1> QED
  BY <1>1, <1>2, <1>3, <1>4, <1>5, <1>6, TableStepKeeps

-----------------------------------------------------------------------------
(* Crashes.                                                                *)

(* What every crash does to what is in memory.                             *)
LEMMA DownFacts ==
  ASSUME RecoveryInv, Down
  PROVE  /\ pc' = "down" /\ CURRENT' = CURRENT /\ tables' = tables /\ synced' = synced
         /\ DownInv' /\ RecoveredInv' /\ SaveInv' /\ UpInv' /\ FlushInv'
         /\ TypeInv' <=> /\ DOMAIN manifests' \subseteq Nat
                         /\ manifests' \in [DOMAIN manifests' -> File(EditType)]
                         /\ DOMAIN logs' \subseteq Nat /\ logs' \in [DOMAIN logs' -> File(Entry)]
                         /\ written' \in SUBSET Entry
<1>1. /\ pc' = "down" /\ CURRENT' = CURRENT /\ tables' = tables /\ synced' = synced
      /\ vs' = NoVersions /\ reuse' = FALSE /\ todo' = {} /\ edit' = NoEdit
      /\ mem' = {} /\ imm' = {} /\ logfile' = 0 /\ flushing' = 0
      /\ apply' = "none" /\ record' = NoEdit /\ collect' = FALSE /\ bg_error' = FALSE
      /\ incarnation' = incarnation + 1
  BY DEF Down
<1>2. DownInv' /\ RecoveredInv' /\ SaveInv' /\ UpInv' /\ FlushInv'
  BY <1>1 DEF DownInv, RecoveredInv, SaveInv, UpInv, FlushInv
<1>3. NoVersions \in VersionsType /\ NoEdit \in EditType
  BY NoEditType DEF NoVersions, VersionsType
<1>4. /\ CURRENT \in Nat /\ DOMAIN tables \subseteq Nat
      /\ tables \in [DOMAIN tables -> SUBSET Entry]
      /\ synced \in SUBSET Entry /\ incarnation + 1 \in Nat
  BY DEF RecoveryInv, TypeInv
<1> QED
  BY <1>1, <1>2, <1>3, <1>4 DEF TypeInv

(* A crash of the process leaves the files.                                *)
LEMMA ProcessDiesKeeps ==
  ASSUME RecoveryInv, ProcessDies
  PROVE  RecoveryInv'
<1> USE DEF RecoveryInv
<1>1. manifests' = manifests /\ logs' = logs /\ written' = written /\ Down
  BY DEF ProcessDies
<1>2. /\ pc' = "down" /\ CURRENT' = CURRENT /\ tables' = tables /\ synced' = synced
      /\ DownInv' /\ RecoveredInv' /\ SaveInv' /\ UpInv' /\ FlushInv'
  BY <1>1, DownFacts
<1>3. TypeInv'
  BY <1>1, DownFacts DEF TypeInv
<1>4. FilesInv'
  BY <1>1 DEF FilesInv
<1>5. DiskInv'
  <2>1. CASE CURRENT = 0
    BY <1>1, <1>2, <2>1 DEF DiskInv
  <2>2. CASE CURRENT # 0
    <3>1. \A s : Sound(s) => Keeps(s)
      BY <1>1, <1>2 DEF Keeps, Sound
    <3>2. CURRENT \in DOMAIN manifests
      BY <2>2 DEF DiskInv
    <3> QED
      BY <1>1, <1>2, <2>2, <3>1, <3>2, DiskKept
  <2> QED
    BY <2>1, <2>2
<1> QED
  BY <1>2, <1>3, <1>4, <1>5

(* After a crash of the machine the files are a part of what they were,    *)
(* all that was synced is there, and all that is there is synced.          *)
LEMMA LeftFiles ==
  ASSUME NEW D, NEW files, files \in [DOMAIN files -> File(D)],
         \A n \in DOMAIN files : files[n].synced <= Len(files[n].records),
         NEW left, left \in [DOMAIN files -> UNION {LeftOf(files[n]) : n \in DOMAIN files}],
         \A n \in DOMAIN files : left[n] \in LeftOf(files[n])
  PROVE  /\ left \in [DOMAIN left -> File(D)]
         /\ \A n \in DOMAIN left :
              /\ left[n] \in File(D) /\ left[n].synced = Len(left[n].records)
              /\ left[n].synced <= Len(left[n].records)
              /\ Range(Records(left[n])) \subseteq Range(Records(files[n]))
              /\ Range(Records(SyncedPart(files[n]))) \subseteq Range(Records(SyncedPart(left[n])))
<1>1. ASSUME NEW n \in DOMAIN files
      PROVE  /\ left[n] \in File(D) /\ left[n].synced = Len(left[n].records)
             /\ left[n].synced <= Len(left[n].records)
             /\ Range(Records(left[n])) \subseteq Range(Records(files[n]))
             /\ Range(Records(SyncedPart(files[n]))) \subseteq Range(Records(SyncedPart(left[n])))
  <2>1. files[n] \in File(D) /\ files[n].synced <= Len(files[n].records)
        /\ left[n] \in LeftOf(files[n])
    BY <1>1
  <2>2. PICK l : l = left[n]
    OBVIOUS
  <2>3. /\ l \in File(D) /\ l.synced = Len(l.records)
        /\ Range(Records(l)) \subseteq Range(Records(files[n]))
        /\ Range(Records(SyncedPart(files[n]))) \subseteq Range(Records(l))
    BY <2>1, <2>2, LeftRight
  <2>4. Len(l.records) \in Nat
    BY <2>3, LenProperties DEF File
  <2>5. Records(SyncedPart(l)) = Records(l)
    BY <2>3, <2>4, SyncedPartRight
  <2> QED
    BY <2>2, <2>3, <2>4, <2>5
<1>2. left \in [DOMAIN left -> File(D)]
  BY <1>1
<1> QED
  BY <1>1, <1>2

(* A crash of the machine leaves a manifest that is sound.                 *)
LEMMA MachineDiesKeeps ==
  ASSUME RecoveryInv, MachineDies
  PROVE  RecoveryInv'
<1> USE DEF RecoveryInv
<1>1. /\ manifests' \in [DOMAIN manifests -> UNION {LeftOf(manifests[n]) : n \in DOMAIN manifests}]
      /\ \A n \in DOMAIN manifests : manifests'[n] \in LeftOf(manifests[n])
      /\ logs' \in [DOMAIN logs -> UNION {LeftOf(logs[n]) : n \in DOMAIN logs}]
      /\ \A n \in DOMAIN logs : logs'[n] \in LeftOf(logs[n])
      /\ written' = synced /\ Down
  BY DEF MachineDies
<1>2. /\ pc' = "down" /\ CURRENT' = CURRENT /\ tables' = tables /\ synced' = synced
      /\ DownInv' /\ RecoveredInv' /\ SaveInv' /\ UpInv' /\ FlushInv'
  BY <1>1, DownFacts
<1>3. /\ DOMAIN manifests' = DOMAIN manifests /\ DOMAIN logs' = DOMAIN logs
      /\ manifests \in [DOMAIN manifests -> File(EditType)] /\ DOMAIN manifests \subseteq Nat
      /\ logs \in [DOMAIN logs -> File(Entry)] /\ DOMAIN logs \subseteq Nat
      /\ \A n \in DOMAIN manifests : manifests[n].synced <= Len(manifests[n].records)
      /\ \A n \in DOMAIN logs : logs[n].synced <= Len(logs[n].records)
      /\ synced \in SUBSET Entry
  BY <1>1 DEF TypeInv, FilesInv
<1>4. /\ manifests' \in [DOMAIN manifests' -> File(EditType)]
      /\ \A n \in DOMAIN manifests' : manifests'[n].synced <= Len(manifests'[n].records)
  BY <1>1, <1>3, LeftFiles
<1>5. /\ logs' \in [DOMAIN logs' -> File(Entry)]
      /\ \A n \in DOMAIN logs' :
           /\ logs'[n].synced <= Len(logs'[n].records)
           /\ Range(Records(logs'[n])) \subseteq Range(Records(logs[n]))
           /\ Range(Records(SyncedPart(logs[n]))) \subseteq Range(Records(SyncedPart(logs'[n])))
  BY <1>1, <1>3, LeftFiles
<1>6. TypeInv'
  BY <1>1, <1>3, <1>4, <1>5, DownFacts
<1>7. FilesInv'
  BY <1>4, <1>5 DEF FilesInv
<1>8. ASSUME NEW state, Sound(state)
      PROVE  Sound(state)' /\ synced \subseteq Found(state)'
  <2>1. LogsFrom(The(state.log))' = LogsFrom(The(state.log))
    BY <1>3 DEF LogsFrom
  <2>2. \A n \in LogsFrom(The(state.log)) :
          LogEntries(n)' \subseteq LogEntries(n) /\ KeptEntries(n) \subseteq KeptEntries(n)'
    BY <1>3, <1>5 DEF LogsFrom, LogEntries, KeptEntries
  <2>3. EntriesIn(state.added)' = EntriesIn(state.added)
    BY <1>2 DEF EntriesIn
  <2>4. Found(state)' \subseteq Found(state) /\ FoundSynced(state) \subseteq FoundSynced(state)'
    BY <2>1, <2>2, <2>3 DEF Found, FoundSynced
  <2>5. Unique(Found(state)) /\ synced \subseteq FoundSynced(state)
    BY <1>8 DEF Sound
  <2>6. Unique(Found(state)')
    BY <2>4, <2>5 DEF Unique
  <2>7. Fields(state)'
    BY <1>2, <1>8, <2>3 DEF Fields, Sound
  <2>8. Sound(state)'
    BY <1>2, <1>8, <2>4, <2>5, <2>6, <2>7 DEF Sound, Unique
  <2>9. FoundSynced(state)' \subseteq Found(state)'
    <3>1. \A n \in DOMAIN logs' : KeptEntries(n)' \subseteq LogEntries(n)'
      <4>1. SUFFICES ASSUME NEW n \in DOMAIN logs'
                     PROVE  Range(Records(SyncedPart(logs'[n]))) \subseteq Range(Records(logs'[n]))
        BY DEF KeptEntries, LogEntries
      <4>2. PICK left : left = logs'[n]
        OBVIOUS
      <4>3. left \in File(Entry) /\ left.synced <= Len(left.records)
        BY <1>5, <4>2
      <4> QED
        BY <4>2, <4>3, SyncedPartRight
    <3> QED
      BY <3>1 DEF Found, FoundSynced, LogsFrom
  <2> QED
    BY <2>4, <2>5, <2>8, <2>9
<1>9. DiskInv'
  <2>1. CASE CURRENT = 0
    <3>1. written' = {} /\ synced' = {} /\ DOMAIN logs' = {} /\ DOMAIN tables' = {}
      BY <1>1, <1>2, <1>3, <2>1 DEF DiskInv
    <3> QED
      BY <1>2, <2>1, <3>1 DEF DiskInv
  <2>2. CASE CURRENT # 0
    <3>1. CURRENT \in DOMAIN manifests /\ manifests[CURRENT] \in File(EditType)
          /\ manifests[CURRENT].synced <= Len(manifests[CURRENT].records)
          /\ manifests'[CURRENT] \in LeftOf(manifests[CURRENT])
      BY <1>1, <1>3, <2>2 DEF DiskInv
    <3>2. PICK left : left = manifests'[CURRENT]
      OBVIOUS
    <3>3. left \in File(EditType) /\ left.synced = Len(left.records)
      BY <3>1, <3>2, LeftRight
    <3>4. PICK state : state = Replay(Records(left))
      OBVIOUS
    <3>5. SavedAfter(left) = {state}
      BY <3>3, <3>4, SurvivorOfSynced
    <3>6. Survivors' = {state} /\ Saved' = state
      BY <1>2, <3>2, <3>4, <3>5 DEF Survivors, Saved
    <3>7. state \in Survivors
      BY <3>1, <3>2, <3>4 DEF Survivors, SavedAfter
    <3>8. Sound(state) \/ (CURRENT = 1 /\ state = NoEdit)
      BY <2>2, <3>7 DEF DiskInv
    <3>9. CURRENT' # 0 /\ CURRENT' \in DOMAIN manifests'
      BY <1>2, <1>3, <2>2, <3>1
    <3>10. \A s \in Survivors' : Sound(s)' \/ (CURRENT' = 1 /\ s = NoEdit)
      BY <1>2, <1>8, <3>6, <3>8
    <3>11. ASSUME state # NoEdit
           PROVE  /\ written' \subseteq Found(state)'
                  /\ \A n \in state.added : n < The(state.next)
      <4>1. Sound(state)
        BY <3>8, <3>11
      <4>2. \A n \in state.added : n < The(state.next)
        BY <4>1, SoundFields
      <4> QED
        BY <1>1, <1>8, <4>1, <4>2
    <3>12. Saved' # NoEdit =>
             /\ written' \subseteq Found(Saved)'
             /\ \A s \in Survivors' : \A n \in s.added : n < The(Saved'.next)
      <4>1. Found(Saved)' = Found(state)'
        BY <3>6 DEF Found
      <4> QED
        BY <3>6, <3>11, <4>1
    <3> QED
      BY <1>2, <3>9, <3>10, <3>12 DEF DiskInv
  <2> QED
    BY <2>1, <2>2
<1> QED
  BY <1>2, <1>6, <1>7, <1>9

-----------------------------------------------------------------------------
(* The invariant, and what follows from it.                                *)

(* LogAndApply is called by Open and by a database that is open.           *)
LEMMA LogAndApplyKeeps ==
  ASSUME RecoveryInv, LogAndApply
  PROVE  RecoveryInv'
<1>1. apply # "none" => pc \in {"save", "up"}
  BY DEF RecoveryInv, DownInv
<1>2. CASE CreateManifest
  BY <1>2, CreateManifestKeeps
<1>3. CASE AppendManifest
  BY <1>1, <1>3, AppendOfOpenKeeps, AppendOfUpKeeps DEF AppendManifest
<1>4. CASE SyncManifest
  BY <1>1, <1>4, SyncOfOpenKeeps, SyncOfUpKeeps DEF SyncManifest
<1>5. CASE SetCurrentFile
  BY <1>5, SetCurrentFileKeeps
<1>6. CASE InstallVersion
  BY <1>1, <1>6, InstallOfOpenKeeps, InstallOfUpKeeps DEF InstallVersion
<1>7. CASE ManifestFails
  BY <1>1, <1>7, OpenFailsKeeps, ApplyFailsKeeps DEF ManifestFails
<1> QED
  BY <1>2, <1>3, <1>4, <1>5, <1>6, <1>7 DEF LogAndApply

(* Nothing happens.                                                        *)
LEMMA StutterKeeps ==
  ASSUME RecoveryInv, UNCHANGED vars
  PROVE  RecoveryInv'
<1>1. /\ CURRENT' = CURRENT /\ manifests' = manifests /\ logs' = logs /\ tables' = tables
      /\ pc' = pc /\ vs' = vs /\ reuse' = reuse /\ save' = save /\ todo' = todo /\ edit' = edit
      /\ mem' = mem /\ imm' = imm /\ logfile' = logfile /\ flushing' = flushing
      /\ apply' = apply /\ record' = record /\ collect' = collect /\ bg_error' = bg_error
      /\ written' = written /\ synced' = synced /\ incarnation' = incarnation
  BY DEF vars, diskVars, openVars, memVars, applyVars, ghostVars
<1>2. /\ Saved' = Saved /\ Survivors' = Survivors
      /\ \A S : EntriesIn(S)' = EntriesIn(S)
      /\ \A n : LogEntries(n)' = LogEntries(n) /\ KeptEntries(n)' = KeptEntries(n)
      /\ \A n : LogsFrom(n)' = LogsFrom(n)
  BY <1>1 DEF Saved, Survivors, EntriesIn, LogEntries, KeptEntries, LogsFrom
<1>3. /\ \A s : Found(s)' = Found(s) /\ FoundSynced(s)' = FoundSynced(s)
      /\ \A s : Sound(s)' <=> Sound(s)
  BY <1>1 DEF Found, FoundSynced, Sound, Fields, EntriesIn, LogsFrom, LogEntries, KeptEntries
<1>4. Found(Saved)' = Found(Saved)
  BY <1>1, <1>2 DEF Found, EntriesIn, LogsFrom, LogEntries
<1>5. TypeInv' /\ FilesInv'
  BY <1>1 DEF RecoveryInv, TypeInv, FilesInv
<1>6. DiskInv'
  BY <1>1, <1>2, <1>3, <1>4 DEF RecoveryInv, DiskInv
<1>7. DownInv'
  BY <1>1 DEF RecoveryInv, DownInv
<1>8. RecoveredInv'
  BY <1>1, <1>2 DEF RecoveryInv, RecoveredInv, EntriesIn, LogEntries, LogsFrom, UpTo
<1>9. SaveInv'
  BY <1>1 DEF RecoveryInv, SaveInv, Snapshot, EntriesIn, UpTo
<1>10. UpInv'
  BY <1>1, <1>2, <1>3, <1>4 DEF RecoveryInv, UpInv, EntriesIn, LogEntries, LogsFrom
<1>11. FlushInv'
  BY <1>1, <1>2 DEF RecoveryInv, FlushInv, EntriesIn
<1> QED
  BY <1>5, <1>6, <1>7, <1>8, <1>9, <1>10, <1>11 DEF RecoveryInv

(* Every step keeps the invariant, of a database that does not reuse logs. *)
LEMMA NextKeeps ==
  ASSUME ReuseLogs \subseteq {FALSE}, RecoveryInv, [Next]_vars
  PROVE  RecoveryInv'
<1>1. CASE Open
  BY <1>1, NewDBKeeps, NewDBSetCurrentKeeps, RecoverKeeps, RecoverLogFileKeeps, OpenLogKeeps,
     OpenSaveKeeps DEF Open
<1>2. CASE LogAndApply
  BY <1>2, LogAndApplyKeeps
<1>3. CASE DeleteObsoleteFile \/ Collected
  BY <1>3, DeleteObsoleteFileKeeps, CollectedKeeps
<1>4. CASE \E sync \in BOOLEAN : Write(sync)
  BY <1>4, WriteKeeps
<1>5. CASE SwitchMemTable \/ CompactMemTable \/ CompactTables
  BY <1>5, SwitchMemTableKeeps, CompactMemTableKeeps, CompactTablesKeeps
<1>6. CASE ProcessDies \/ MachineDies
  BY <1>6, ProcessDiesKeeps, MachineDiesKeeps
<1>7. CASE UNCHANGED vars
  BY <1>7, StutterKeeps
<1> QED
  BY <1>1, <1>2, <1>3, <1>4, <1>5, <1>6, <1>7 DEF Next

(* A new directory, and a database that was closed: its manifest is two    *)
(* records, and its log is empty.                                          *)
LEMMA ClosedManifest ==
  LET e == Edit({}, {}, {3}, {4}, {0})
      file == Sync(AddRecord(AddRecord(EmptyFile, NoEdit), e))
  IN  /\ e \in EditType /\ file \in File(EditType) /\ file.synced = Len(file.records)
      /\ Replay(Records(file)) = e /\ SavedAfter(file) = {e}
<1> DEFINE e == Edit({}, {}, {3}, {4}, {0})
           one == AddRecord(EmptyFile, NoEdit)
           two == AddRecord(one, e)
           file == Sync(two)
<1>1. e \in EditType /\ NoEdit \in EditType
  BY NoEditType DEF Edit, EditType
<1>2. EmptyFile \in File(EditType) /\ AllWhole(EmptyFile) /\ Records(EmptyFile) = << >>
  BY EmptyFileRight
<1>3. ApplyEdit(NoEdit, NoEdit) = NoEdit /\ ApplyEdit(NoEdit, e) = e
  BY DEF ApplyEdit, NoEdit, Edit
<1> HIDE DEF e
<1>4. one \in File(EditType) /\ AllWhole(one) /\ Records(one) = Append(Records(EmptyFile), NoEdit)
  <2>1. EmptyFile \in File(EditType) /\ AllWhole(EmptyFile)
    BY <1>2
  <2> QED
    BY <1>1, <2>1, AddRecordRight
<1> HIDE DEF one
<1>5. two \in File(EditType) /\ Records(two) = Append(Records(one), e)
  BY <1>1, <1>4, AddRecordRight, SMTT(30)
<1> HIDE DEF two
<1>6. /\ file \in File(EditType) /\ file.records = two.records /\ file.synced = Len(two.records)
      /\ Records(file) = Records(two)
  BY <1>5, SyncRight
<1> HIDE DEF file
<1>7. Replay(Records(one)) = NoEdit
  <2>1. Replay(Records(EmptyFile)) = NoEdit /\ << >> \in Seq(EditType)
    BY <1>2, ReplayRight
  <2> QED
    BY <1>1, <1>2, <1>3, <1>4, <2>1, ReplayRight
<1>8. Replay(Records(two)) = e
  <2>1. Records(one) \in Seq(EditType)
    BY <1>4, RecordsType
  <2> QED
    BY <1>1, <1>3, <1>5, <1>7, <2>1, ReplayRight
<1>9. SavedAfter(file) = {Replay(Records(file))}
  BY <1>6, SurvivorOfSynced
<1> QED
  BY <1>1, <1>6, <1>8, <1>9 DEF file, two, one, e

(* The invariant holds at first.                                           *)
LEMMA InitHolds ==
  ASSUME Init
  PROVE  RecoveryInv
<1>1. /\ tables = << >> /\ pc = "down" /\ vs = NoVersions
      /\ reuse = FALSE /\ save = FALSE /\ todo = {} /\ edit = NoEdit
      /\ mem = {} /\ imm = {} /\ logfile = 0 /\ flushing = 0
      /\ apply = "none" /\ record = NoEdit /\ collect = FALSE /\ bg_error = FALSE
      /\ written = {} /\ synced = {} /\ incarnation = 0
  BY DEF Init
<1>2. DownInv /\ RecoveredInv /\ SaveInv /\ UpInv /\ FlushInv
  BY <1>1 DEF DownInv, RecoveredInv, SaveInv, UpInv, FlushInv
<1>3. /\ NoVersions \in VersionsType /\ NoEdit \in EditType
      /\ DOMAIN tables = {} /\ tables \in [DOMAIN tables -> SUBSET Entry]
  BY <1>1, NoEditType DEF NoVersions, VersionsType
<1>4. CASE CURRENT = 0 /\ manifests = << >> /\ logs = << >>
  <2>1. TypeInv
    BY <1>1, <1>3, <1>4 DEF TypeInv
  <2>2. FilesInv /\ DiskInv
    BY <1>1, <1>3, <1>4 DEF FilesInv, DiskInv
  <2> QED
    BY <1>2, <2>1, <2>2 DEF RecoveryInv
<1>5. CASE /\ CURRENT = 2
           /\ manifests = [n \in {2} |->
                Sync(AddRecord(AddRecord(EmptyFile, NoEdit), Edit({}, {}, {3}, {4}, {0})))]
           /\ logs = [n \in {3} |-> EmptyFile]
  <2> DEFINE e == Edit({}, {}, {3}, {4}, {0})
  <2>1. PICK file : file = Sync(AddRecord(AddRecord(EmptyFile, NoEdit), e))
    OBVIOUS
  <2>2. /\ file \in File(EditType) /\ file.synced = Len(file.records)
        /\ Replay(Records(file)) = e /\ SavedAfter(file) = {e}
    BY <2>1, ClosedManifest
  <2>3. /\ DOMAIN manifests = {2} /\ manifests[2] = file
        /\ manifests \in [DOMAIN manifests -> File(EditType)]
    BY <1>5, <2>1, <2>2
  <2>4. EmptyFile \in File(Entry) /\ EmptyFile.synced = 0 /\ Len(EmptyFile.records) = 0
    BY EmptyFileRight
  <2>5. DOMAIN logs = {3} /\ logs[3] = EmptyFile /\ logs \in [DOMAIN logs -> File(Entry)]
    BY <1>5, <2>4
  <2>6. TypeInv
    BY <1>1, <1>3, <1>5, <2>3, <2>5, SMTT(30) DEF TypeInv
  <2>7. FilesInv
    <3>1. Len(file.records) \in Nat
      BY <2>2, LenProperties DEF File
    <3> QED
      BY <2>2, <2>3, <2>4, <2>5, <3>1 DEF FilesInv
  <2>8. Saved = e /\ Survivors = {e}
    BY <1>5, <2>2, <2>3 DEF Saved, Survivors
  <2>9. /\ e.added = {} /\ e.log = {3} /\ e.next = {4} /\ e.sequence = {0} /\ e # NoEdit
    BY DEF Edit, NoEdit
  <2> HIDE DEF e
  <2>10. EntriesIn(e.added) = {}
    BY <2>9 DEF EntriesIn
  <2>11. LogEntries(3) = {}
    BY <2>5, EmptyEntries DEF LogEntries
  <2>12. Found(e) = {}
    BY <2>5, <2>10, <2>11 DEF Found, LogsFrom
  <2>13. Sound(e)
    <3>1. Fields(e)
      BY <1>5, <2>9, <2>10 DEF Fields, UpTo
    <3> QED
      BY <1>1, <2>9, <2>12, <3>1 DEF Sound, Unique
  <2>14. DiskInv
    BY <1>1, <1>5, <2>3, <2>8, <2>9, <2>13 DEF DiskInv
  <2> QED
    BY <1>2, <2>6, <2>7, <2>14 DEF RecoveryInv
<1> QED
  BY <1>4, <1>5 DEF Init

(* The invariant holds at every moment.                                    *)
LEMMA InvHolds ==
  ASSUME ReuseLogs \subseteq {FALSE}
  PROVE  Spec => []RecoveryInv
<1>1. Init => RecoveryInv
  BY InitHolds
<1>2. RecoveryInv /\ [Next]_vars => RecoveryInv'
  BY NextKeeps
<1> QED
  BY <1>1, <1>2, PTL DEF Spec

(* What the manifest says has its fields when it can be read at all.       *)
LEMMA ReadableIsFound ==
  ASSUME RecoveryInv, CURRENT # 0, Readable
  PROVE  /\ Saved # NoEdit /\ Sound(Saved) /\ Recoverable = Found(Saved)
         /\ written \subseteq Found(Saved) /\ Unique(Found(Saved))
<1>1. Saved # NoEdit
  BY DEF Readable, NoEdit, Edit
<1>2. Saved \in Survivors /\ written \subseteq Found(Saved)
  BY <1>1, SavedRight DEF RecoveryInv, DiskInv
<1>3. Sound(Saved)
  BY <1>1, <1>2 DEF RecoveryInv, DiskInv
<1> QED
  BY <1>1, <1>2, <1>3 DEF Recoverable, Found, Sound

(* A database can be opened at every moment, whatever crashed in the       *)
(* middle of an Open (DBImpl::Recover, NewDB) or of LogAndApply: the       *)
(* manifest that CURRENT names, once it is not the first, has its fields   *)
(* and names only tables that exist.                                       *)
THEOREM RecoveryCanBeOpened ==
  ASSUME ReuseLogs \subseteq {FALSE}
  PROVE  Spec => []CanBeOpened
<1>1. ASSUME RecoveryInv
      PROVE  CanBeOpened
  <2>1. SUFFICES ASSUME CURRENT > 1
                 PROVE  Readable
    BY DEF CanBeOpened
  <2>2. CURRENT \in Nat /\ CURRENT # 0 /\ CURRENT # 1
    BY <1>1, <2>1 DEF RecoveryInv, TypeInv
  <2>3. CURRENT \in DOMAIN manifests /\ Saved \in Survivors
    BY <1>1, <2>2, SavedRight DEF RecoveryInv, DiskInv
  <2>4. Sound(Saved)
    BY <1>1, <2>2, <2>3 DEF RecoveryInv, DiskInv
  <2> QED
    BY <2>3, <2>4 DEF Readable, Sound, Fields
<1> QED
  BY <1>1, InvHolds, PTL

(* What was promised is on disk at every moment: every write that returned *)
(* as long as the process alone may die, and, once the machine has died,   *)
(* every write that a sync covered.  DeleteObsoleteFiles and LogAndApply   *)
(* may be anywhere when it happens.                                        *)
THEOREM RecoveryLosesNothing ==
  ASSUME ReuseLogs \subseteq {FALSE}
  PROVE  Spec => []NothingPromisedIsLost
<1>1. ASSUME RecoveryInv
      PROVE  NothingPromisedIsLost
  BY <1>1, ReadableIsFound DEF NothingPromisedIsLost
<1> QED
  BY <1>1, InvHolds, PTL

(* The numbers of files and of entries: no sequence number comes back from *)
(* an old log with another entry, VersionSet::last_sequence_ is above all  *)
(* that an open database holds, and next_file_number_ is above every file  *)
(* that is still needed (MarkFileNumberUsed, NewFileNumber).               *)
THEOREM RecoveryNumbersRight ==
  ASSUME ReuseLogs \subseteq {FALSE}
  PROVE  Spec => []NumbersRight
<1>1. ASSUME RecoveryInv
      PROVE  NumbersRight
  <2> USE <1>1 DEF RecoveryInv
  <2>1. RecoveryTypeOK
    <3>1. Cardinality(imm) <= 1
      <4>1. imm = {} \/ \E m : imm = {m}
        BY DEF TypeInv
      <4> QED
        <5>1. CASE imm = {}
          BY <5>1, FS_EmptySet
        <5>2. CASE \E m : imm = {m}
          <6>1. PICK m : imm = {m}
            BY <5>2
          <6>2. Cardinality({m}) = 1
            BY FS_Singleton
          <6> QED
            BY <6>1, <6>2
        <5> QED
          BY <4>1, <5>1, <5>2
    <3>2. \A n \in DOMAIN logs : logs[n].synced \in 0 .. Len(logs[n].records)
      <4>1. \A n \in DOMAIN logs : logs[n].synced \in Nat /\ Len(logs[n].records) \in Nat
        BY LenProperties DEF TypeInv, File
      <4> QED
        BY <4>1 DEF FilesInv
    <3> QED
      BY <3>1, <3>2 DEF RecoveryTypeOK, TypeInv, DownInv
  <2>2. SequencesUnique
    <3>1. SUFFICES ASSUME CURRENT # 0, Readable
                   PROVE  Unique(Found(Saved) \cup mem \cup (UNION imm))
      BY ReadableIsFound DEF SequencesUnique, Unique
    <3>2. mem \subseteq Found(Saved) /\ (UNION imm) \subseteq Found(Saved)
      <4>1. CASE pc = "up"
        BY <4>1 DEF UpInv
      <4>2. CASE pc # "up"
        BY <4>2 DEF DownInv
      <4> QED
        BY <4>1, <4>2
    <3>3. Unique(Found(Saved))
      BY <3>1, ReadableIsFound
    <3> QED
      BY <3>2, <3>3 DEF Unique
  <2>3. SequenceIsFresh
    <3>1. SUFFICES ASSUME pc \in {"save", "up"}
                   PROVE  UpTo(mem \cup (UNION imm) \cup EntriesIn(vs.files), vs.last_sequence)
      BY DEF SequenceIsFresh, UpTo
    <3>2. CASE pc = "save"
      <4>1. mem = {} /\ imm = {}
        BY <3>2 DEF DownInv
      <4>2. UpTo(EntriesIn(vs.files \cup edit.added), vs.last_sequence)
        BY <3>2 DEF SaveInv
      <4> QED
        BY <4>1, <4>2 DEF UpTo, EntriesIn
    <3>3. CASE pc = "up"
      <4>1. Saved \in Survivors
        BY <3>3, SavedIsSound
      <4>2. UpTo(Found(Saved), vs.last_sequence)
        BY <3>3, <4>1 DEF UpInv
      <4> QED
        BY <3>3, <4>2 DEF UpInv, UpTo
    <3> QED
      BY <3>1, <3>2, <3>3
  <2>4. NumberIsFresh
    <3>1. /\ vs.next_file \in Nat /\ vs.manifest \in Nat /\ CURRENT \in Nat /\ logfile \in Nat
          /\ DOMAIN logs \subseteq Nat
      BY DEF TypeInv, VersionsType
    <3>2. CASE pc = "logs"
      <4>1. apply = "none" /\ flushing = 0
        BY <3>2 DEF DownInv
      <4>2. CURRENT < vs.manifest /\ vs.manifest < vs.next_file
            /\ \A n \in vs.files : n < vs.next_file
        <5>1. vs.manifest < vs.next_file
          BY <3>2, <4>1 DEF RecoveredInv
        <5>2. CURRENT < vs.manifest /\ \A n \in vs.files : n < vs.manifest
          BY <3>2, <4>1, OpeningNumbers
        <5>3. vs.files \in SUBSET Nat
          BY DEF TypeInv, VersionsType
        <5> QED
          BY <3>1, <5>1, <5>2, <5>3
      <4>3. \A n \in LogsFrom(vs.log_number) \ todo : n < vs.next_file
        BY <3>2, <4>1 DEF RecoveredInv
      <4> QED
        BY <3>1, <3>2, <4>1, <4>2, <4>3 DEF NumberIsFresh
    <3>3. CASE pc = "save"
      <4>1. flushing = 0
        BY <3>3 DEF DownInv
      <4>2. /\ vs.manifest < vs.next_file /\ logfile < vs.next_file
            /\ \A n \in DOMAIN logs : n <= logfile
            /\ \A n \in vs.files : n < vs.next_file
        BY <3>3 DEF SaveInv
      <4>3. CURRENT < vs.next_file
        <5>1. CASE apply = "install"
          BY <3>3, <4>2, <5>1 DEF SaveInv
        <5>2. CASE apply # "install"
          BY <3>1, <3>3, <4>2, <5>2, OpeningNumbers
        <5> QED
          BY <5>1, <5>2
      <4>4. \A n \in LogsFrom(vs.log_number) : n < vs.next_file
        BY <3>1, <4>2 DEF LogsFrom
      <4> QED
        BY <3>1, <3>3, <4>1, <4>2, <4>3, <4>4 DEF NumberIsFresh
    <3>4. CASE pc = "up"
      <4>1. /\ CURRENT = vs.manifest /\ vs.manifest < vs.next_file /\ logfile < vs.next_file
            /\ \A n \in DOMAIN logs : n <= logfile
            /\ \A n \in vs.files : n < vs.next_file
        BY <3>4 DEF UpInv
      <4>2. flushing < vs.next_file
        <5>1. CASE apply = "none"
          BY <3>1, <3>4, <4>1, <5>1 DEF UpInv
        <5>2. CASE apply # "none"
          BY <3>4, <5>2 DEF FlushInv
        <5> QED
          BY <5>1, <5>2
      <4>3. \A n \in LogsFrom(vs.log_number) : n < vs.next_file
        BY <3>1, <4>1 DEF LogsFrom
      <4> QED
        BY <3>1, <3>4, <4>1, <4>2, <4>3 DEF NumberIsFresh
    <3> QED
      BY <3>2, <3>3, <3>4 DEF NumberIsFresh
  <2> QED
    BY <2>1, <2>2, <2>3, <2>4 DEF NumbersRight
<1> QED
  BY <1>1, InvHolds, PTL
=============================================================================
