--------------------------- MODULE DBWritersProofs ---------------------------
(***************************************************************************)
(* What DBWriters shows on a small instance, for any threads, batches and  *)
(* limits.                                                                 *)
(***************************************************************************)
EXTENDS DBWriters, SequenceTheorems, WellFoundedInduction, TLAPS

-----------------------------------------------------------------------------
(* The inductive invariant.                                                *)

Leading == {"room", "sleep", "full", "build", "append", "sync", "insert", "finish"}
Places == {"idle", "queued", "return", "check", "memtable"} \cup Leading
Writes == Threads \X Nat
Entry == [seq : Nat, op : Writes, place : Nat]
Record == [whole : BOOLEAN, entries : SUBSET Entry]

TypeInv ==
  /\ pc \in [Threads -> Places]
  /\ nth \in [Threads -> Nat]
  /\ done \in [Threads -> BOOLEAN] /\ status \in [Threads -> {"ok", "error"}]
  /\ results \in [{"ok", "error"} -> SUBSET (Writes)]
  /\ writers \in Seq(Threads)
  /\ group \in [size : Nat, inserted : Nat, entries : Seq(Entry)]
  /\ sync_error \in BOOLEAN /\ bg_error \in BOOLEAN
  /\ last_sequence \in Nat
  /\ mem \in SUBSET Entry /\ imm \in SUBSET SUBSET Entry /\ tables \in SUBSET Entry
  /\ log \in Seq(Record) /\ imm_log \in Seq(Record) /\ synced \in SUBSET Entry

(* A thread that is in Write writes one of its batches.                    *)
CallInv == \A t \in Threads : nth[t] <= Len(Batch[t]) /\ (pc[t] # "idle" => nth[t] > 0)

(* The queue holds the threads in Write that nobody has answered, once     *)
(* each; only its head leads.                                              *)
QueueInv ==
  /\ \A i, j \in DOMAIN writers : writers[i] = writers[j] => i = j
  /\ \A t \in Threads :
       /\ t \in Range(writers) <=> (pc[t] \in Leading \/ (pc[t] = "queued" /\ ~ done[t]))
       /\ pc[t] \in Leading => Head(writers) = t

Grouped == {"append", "sync", "insert", "finish"}

Taken == {Op(writers[i]) : i \in 1 .. group.size}

(* The group holds the batches of the first writers, complete and numbered *)
(* on from last_sequence; a leader that does not sync takes no sync write. *)
GroupInv ==
  /\ group.size <= Len(writers)
  /\ group.size = 0 => group.entries = << >>
  /\ (\A t \in Threads : pc[t] \notin Grouped) => group.size = 0
  /\ \A t \in Threads : pc[t] \in Grouped \ {"finish"} => group.entries # << >>
  /\ \A k \in DOMAIN group.entries :
       group.entries[k].seq = last_sequence + k /\ group.entries[k].op \in Taken
  /\ \A e \in Range(group.entries) :
       {f \in Range(group.entries) : f.op = e.op} = Atomic!BatchAround(e)
  /\ \A op \in Taken : BatchAt(op).count > 0 => \E e \in Range(group.entries) : e.op = op
  /\ \A i \in 1 .. group.size : Current(writers[i]).sync => Current(Head(writers)).sync

(* Where the leader is tells how much of the group is inserted.            *)
LeaderInv ==
  /\ group.inserted <= Len(group.entries)
  /\ sync_error => \E t \in Threads : pc[t] = "finish"
  /\ \A t \in Threads :
       /\ pc[t] \in {"append", "sync"} => group.inserted = 0
       /\ pc[t] = "insert" => group.inserted < Len(group.entries)
       /\ pc[t] \in Grouped \ {"finish"} => status[t] = "ok"
       /\ pc[t] = "finish" /\ status[t] = "ok" =>
            /\ group.inserted = Len(group.entries) /\ ~ sync_error
            /\ group.size = 0 => Current(t).count = 0
       /\ pc[t] = "finish" /\ status[t] = "error" =>
            /\ group.inserted = 0
            /\ group.entries # << >> => sync_error \/ ~ Whole(log)

Inserted == {group.entries[k] : k \in 1 .. group.inserted}

(* What is above last_sequence is the part of the group inserted so far.   *)
StoreInv ==
  /\ Inserted \subseteq mem
  /\ \A e \in mem : e.seq <= last_sequence \/ e \in Inserted
  /\ \A e \in (UNION imm) \cup tables : e.seq <= last_sequence

(* A write that has its outcome, whether or not its thread has returned.   *)
Outcome(op, s) ==
  \/ op \in results[s]
  \/ \E t \in Threads : /\ op = Op(t) /\ status[t] = s
                        /\ pc[t] = "return" \/ (pc[t] = "queued" /\ done[t])

OutcomeInv ==
  /\ \A s \in {"ok", "error"} : \A op \in results[s] :
       op[2] <= nth[op[1]] /\ (op[1] \in InWrite => op[2] < nth[op[1]])
  /\ \A e \in Visible : Outcome(e.op, "ok")
  /\ \A t \in Threads : \A i \in 1 .. Len(Batch[t]) :
       Outcome(<<t, i>>, "ok") /\ Batch[t][i].count > 0 => \E e \in Visible : e.op = <<t, i>>

(* The records of a log are in order; only the last one may hold entries   *)
(* that are not published, those of the group.                             *)
LogInv ==
  /\ \A i, j \in DOMAIN log : i < j =>
       \A e \in log[i].entries, f \in log[j].entries : e.seq < f.seq
  /\ \A i \in DOMAIN log : \A e \in log[i].entries :
       e.seq <= last_sequence \/ e \in Range(group.entries)
  /\ \A t \in Threads :
       /\ pc[t] = "append" =>
            \A i \in DOMAIN log : \A e \in log[i].entries : e.seq <= last_sequence
       /\ pc[t] \in {"sync", "insert"} =>
            log # << >> /\ log[Len(log)] = [whole |-> TRUE, entries |-> Range(group.entries)]
  /\ \A i \in DOMAIN imm_log : \A e \in imm_log[i].entries : e.seq <= last_sequence

Replays(m, records) ==
  Whole(records) =>
    /\ m \subseteq Readable(records)
    /\ ~ bg_error => {e \in Readable(records) : e.seq <= last_sequence} \subseteq m
    /\ \A e \in m : BatchAt(e.op).sync => e \in synced

(* Memtables and their logs.                                               *)
ReplayInv ==
  /\ Replays(mem, log)
  /\ \A m \in imm : Replays(m, imm_log)
  /\ \A t \in Threads : pc[t] = "insert" /\ Current(t).sync /\ Whole(log) =>
       Range(group.entries) \subseteq synced

WritersInv ==
  /\ TypeInv /\ CallInv /\ QueueInv /\ GroupInv /\ LeaderInv
  /\ StoreInv /\ OutcomeInv /\ LogInv /\ ReplayInv

-----------------------------------------------------------------------------
(* Lemmas.                                                                 *)

(* A non-empty set of natural numbers has a least element: what stands for *)
(* induction in these proofs.                                              *)
LEMMA LeastNumber ==
  ASSUME NEW T \in SUBSET Nat, T # {}
  PROVE  \E n \in T : \A m \in T : n <= m
<1> DEFINE R == OpToRel(<, Nat)
<1>1. IsWellFoundedOn(R, Nat)
  BY NatLessThanWellFounded
<1>2. \A x, y \in Nat : <<y, x>> \in R <=> y < x
  BY DEF OpToRel
<1> HIDE DEF R
<1>3. PICK n \in T : \A m \in T : ~ (<<m, n>> \in R)
  BY <1>1, WFMin
<1>4. \A m \in T : ~ (m < n)
  BY <1>2, <1>3
<1> QED
  BY <1>4

Counted(ops) == \A i \in 1 .. Len(ops) : BatchAt(ops[i]).count \in Nat

(* The sums that Sizes takes, up to the n-th write. *)
Sums(f, ops, n) ==
  /\ f \in [0 .. n -> Nat]
  /\ f[0] = 0
  /\ \A m \in 1 .. n : f[m] = f[m - 1] + BatchAt(ops[m]).count

(* Sizes is what its definition says: the sums from the first write on.    *)
LEMMA SizesRight ==
  ASSUME NEW ops \in Seq(Writes), Counted(ops)
  PROVE  Sums(Sizes(ops), ops, Len(ops))
<1> DEFINE N == Len(ops)
           c(n) == BatchAt(ops[n]).count
           Bad == {n \in 0 .. N : ~ \E f : Sums(f, ops, n)}
<1> N \in Nat
  OBVIOUS
<1>1. Bad = {}
  <2> SUFFICES ASSUME Bad # {} PROVE FALSE
    OBVIOUS
  <2>1. PICK n \in Bad : \A m \in Bad : n <= m
    <3>1. Bad \in SUBSET Nat
      OBVIOUS
    <3> HIDE DEF Bad
    <3> QED
      BY <3>1, LeastNumber
  <2>2. CASE n = 0
    <3>1. Sums([m \in 0 .. 0 |-> 0], ops, 0)
      BY DEF Sums
    <3> QED
      BY <3>1, <2>1, <2>2
  <2>3. CASE n # 0
    <3>1. n \in 1 .. N /\ n - 1 \in 0 .. N /\ n - 1 \notin Bad
      BY <2>1, <2>3
    <3>2. PICK f : Sums(f, ops, n - 1)
      BY <3>1
    <3> DEFINE g == [m \in 0 .. n |-> IF m = n THEN f[n - 1] + c(n) ELSE f[m]]
    <3>3. c(n) \in Nat
      BY <3>1 DEF Counted
    <3>4. \A m \in 0 .. n - 1 : f[m] \in Nat
      BY <3>2, <3>1 DEF Sums
    <3>5. g \in [0 .. n -> Nat]
      BY <3>3, <3>4, <3>1
    <3>6. \A m \in 1 .. n : g[m] = g[m - 1] + c(m)
      <4> SUFFICES ASSUME NEW m \in 1 .. n PROVE g[m] = g[m - 1] + c(m)
        OBVIOUS
      <4>1. CASE m = n
        BY <4>1, <3>1
      <4>2. CASE m # n
        BY <4>2, <3>1, <3>2 DEF Sums
      <4> QED
        BY <4>1, <4>2
    <3>7. g[0] = 0
      BY <3>2, <3>1 DEF Sums
    <3>8. Sums(g, ops, n)
      <4> HIDE DEF g
      <4> QED BY <3>5, <3>6, <3>7 DEF Sums
    <3> QED
      BY <3>8, <2>1
  <2> QED
    BY <2>2, <2>3
<1>2. PICK f : Sums(f, ops, N)
  BY <1>1
<1> DEFINE Eq(g) == g = [n \in 0 .. N |-> IF n = 0 THEN 0 ELSE g[n - 1] + c(n)]
<1>3. Eq(f)
  BY <1>2 DEF Sums
<1>4. Sizes(ops) = CHOOSE g : Eq(g)
  BY DEF Sizes
<1> HIDE DEF Eq
<1>5. Eq(Sizes(ops))
  BY <1>3, <1>4
<1> DEFINE s == Sizes(ops)
<1> HIDE DEF s
<1>6. s = [n \in 0 .. N |-> IF n = 0 THEN 0 ELSE s[n - 1] + c(n)]
  BY <1>5 DEF Eq, s
<1> DEFINE Off == {n \in 0 .. N : s[n] \notin Nat}
<1>7. Off = {}
  <2> SUFFICES ASSUME Off # {} PROVE FALSE
    OBVIOUS
  <2>1. PICK n \in Off : \A m \in Off : n <= m
    <3>1. Off \in SUBSET Nat
      OBVIOUS
    <3> HIDE DEF Off
    <3> QED
      BY <3>1, LeastNumber
  <2>2. n # 0
    BY <2>1, <1>6
  <2>3. s[n - 1] \in Nat /\ c(n) \in Nat
    BY <2>1, <2>2 DEF Counted
  <2>4. s[n] = s[n - 1] + c(n)
    BY <1>6, <2>1, <2>2
  <2> QED
    BY <2>1, <2>3, <2>4
<1>8. Sums(s, ops, N)
  <2>1. s \in [0 .. N -> Nat]
    BY <1>6, <1>7
  <2>2. s[0] = 0 /\ \A m \in 1 .. N : s[m] = s[m - 1] + c(m)
    BY <1>6
  <2> QED
    BY <2>1, <2>2 DEF Sums
<1> QED
  BY <1>8 DEF s

(* The sums do not decrease.                                               *)
LEMMA SizesGrow ==
  ASSUME NEW ops \in Seq(Writes), Counted(ops), NEW i \in 0 .. Len(ops), NEW j \in i .. Len(ops)
  PROVE  Sizes(ops)[i] <= Sizes(ops)[j]
<1> DEFINE s == Sizes(ops)
           Bad == {n \in i .. Len(ops) : ~ s[i] <= s[n]}
<1>1. Sums(s, ops, Len(ops))
  BY SizesRight
<1> HIDE DEF s
<1>2. Bad = {}
  <2> SUFFICES ASSUME Bad # {} PROVE FALSE
    OBVIOUS
  <2>1. PICK n \in Bad : \A m \in Bad : n <= m
    <3>1. Bad \in SUBSET Nat
      OBVIOUS
    <3> HIDE DEF Bad
    <3> QED
      BY <3>1, LeastNumber
  <2>2. n # i /\ n \in 1 .. Len(ops) /\ s[n] \in Nat /\ s[i] \in Nat
    BY <2>1, <1>1 DEF Sums
  <2>3. n - 1 \in i .. Len(ops) /\ n - 1 \in 0 .. Len(ops)
    BY <2>1, <2>2
  <2>4. s[i] <= s[n - 1] /\ s[n - 1] \in Nat
    BY <2>1, <2>3, <1>1 DEF Sums
  <2>5. s[n] = s[n - 1] + BatchAt(ops[n]).count /\ BatchAt(ops[n]).count \in Nat
    BY <2>2, <1>1 DEF Sums, Counted
  <2> QED
    BY <2>1, <2>2, <2>4, <2>5
<1> QED
  BY <1>2 DEF s

(* The entries of a group: numbered on from first, of the writes of the    *)
(* group only, and all the entries of each.                                *)
LEMMA EntriesRight ==
  ASSUME NEW ops \in Seq(Writes), Counted(ops), NEW first \in Nat,
         \A i, j \in 1 .. Len(ops) : ops[i] = ops[j] => i = j
  PROVE  LET all == EntriesOf(ops, first)
         IN  /\ all \in Seq(Entry)
             /\ \A k \in DOMAIN all : /\ all[k].seq = first + k - 1
                                      /\ \E i \in 1 .. Len(ops) : all[k].op = ops[i]
             /\ \A e \in Range(all) : {f \in Range(all) : f.op = e.op} = Atomic!BatchAround(e)
             /\ \A i \in 1 .. Len(ops) :
                  BatchAt(ops[i]).count > 0 => \E e \in Range(all) : e.op = ops[i]
<1> DEFINE s == Sizes(ops)
           N == Len(ops)
           at(k, i) == s[i - 1] < k /\ k <= s[i]
           from(k) == CHOOSE i \in DOMAIN ops : s[i - 1] < k /\ k <= s[i]
           entry(k) == [seq |-> first + k - 1, op |-> ops[from(k)],
                        place |-> k - s[from(k) - 1]]
           all == [k \in 1 .. s[N] |-> entry(k)]
<1>1. Sums(s, ops, N)
  BY SizesRight
<1>2. EntriesOf(ops, first) = all
  BY DEF EntriesOf
<1>3. \A i, j \in 0 .. N : i <= j => s[i] <= s[j]
  <2> SUFFICES ASSUME NEW i \in 0 .. N, NEW j \in 0 .. N, i <= j PROVE s[i] <= s[j]
    OBVIOUS
  <2>1. j \in i .. N
    OBVIOUS
  <2> QED
    BY <2>1, SizesGrow
<1> HIDE DEF s
<1>4. s \in [0 .. N -> Nat] /\ s[0] = 0 /\ N \in Nat
  BY <1>1 DEF Sums
<1>5. \A i \in 1 .. N : s[i] = s[i - 1] + BatchAt(ops[i]).count /\ BatchAt(ops[i]).count \in Nat
  BY <1>1 DEF Sums, Counted
<1>6. \A k \in 1 .. s[N] : \E i \in 1 .. N : at(k, i)
  <2> SUFFICES ASSUME NEW k \in 1 .. s[N] PROVE \E i \in 1 .. N : at(k, i)
    OBVIOUS
  <2> DEFINE T == {i \in 0 .. N : k <= s[i]}
  <2>1. N \in T /\ T \in SUBSET Nat
    BY <1>4
  <2>2. PICK i \in T : \A m \in T : i <= m
    <3> HIDE DEF T
    <3> QED
      BY <2>1, LeastNumber
  <2>3. i # 0
    BY <2>2, <1>4
  <2>4. i \in 1 .. N /\ i - 1 \in 0 .. N /\ i - 1 \notin T
    BY <2>2, <2>3, <1>4
  <2>5. at(k, i)
    BY <2>2, <2>4, <1>4
  <2> QED
    BY <2>4, <2>5
<1>7. \A k \in 1 .. s[N] : from(k) \in 1 .. N /\ at(k, from(k))
  <2>1. DOMAIN ops = 1 .. N /\ \A k : from(k) = CHOOSE i \in DOMAIN ops : at(k, i)
    OBVIOUS
  <2> HIDE DEF at, from
  <2> QED
    BY <1>6, <2>1
<1>8. ASSUME NEW k \in Nat, NEW i \in 1 .. N, NEW j \in 1 .. N, at(k, i), at(k, j)
      PROVE  i = j
  <2>1. CASE i < j
    <3>1. i \in 0 .. N /\ j - 1 \in 0 .. N /\ i <= j - 1
      BY <2>1, <1>4
    <3>2. s[i] <= s[j - 1] /\ s[i] \in Nat /\ s[j - 1] \in Nat
      BY <3>1, <1>3, <1>4
    <3> QED
      BY <3>2, <1>8
  <2>2. CASE j < i
    <3>1. j \in 0 .. N /\ i - 1 \in 0 .. N /\ j <= i - 1
      BY <2>2, <1>4
    <3>2. s[j] <= s[i - 1] /\ s[j] \in Nat /\ s[i - 1] \in Nat
      BY <3>1, <1>3, <1>4
    <3> QED
      BY <3>2, <1>8
  <2> QED
    BY <2>1, <2>2, <1>4
<1>9. \A i \in 1 .. N : \A k \in Nat : at(k, i) => k \in 1 .. s[N] /\ from(k) = i
  <2> SUFFICES ASSUME NEW i \in 1 .. N, NEW k \in Nat, at(k, i)
               PROVE  k \in 1 .. s[N] /\ from(k) = i
    OBVIOUS
  <2>1. s[i] <= s[N] /\ i - 1 \in 0 .. N /\ s[i] \in Nat /\ s[N] \in Nat /\ s[i - 1] \in Nat
    BY <1>3, <1>4
  <2>2. k \in 1 .. s[N]
    BY <2>1
  <2> HIDE DEF at, from
  <2> QED
    BY <2>2, <1>7, <1>8
<1> HIDE DEF from
<1>10. \A k \in 1 .. s[N] : /\ entry(k) \in Entry
                            /\ entry(k).place \in 1 .. BatchAt(ops[from(k)]).count
  <2> SUFFICES ASSUME NEW k \in 1 .. s[N]
               PROVE  entry(k) \in Entry /\ entry(k).place \in 1 .. BatchAt(ops[from(k)]).count
    OBVIOUS
  <2>1. from(k) \in 1 .. N /\ at(k, from(k))
    BY <1>7
  <2>2. from(k) - 1 \in 0 .. N /\ s[from(k) - 1] \in Nat /\ s[N] \in Nat
    BY <2>1, <1>4, SMTT(30)
  <2>3. k - s[from(k) - 1] \in Nat /\ k - s[from(k) - 1] > 0 /\ first + k - 1 \in Nat
    BY <2>1, <2>2
  <2>4. ops[from(k)] \in Writes
    BY <2>1
  <2>5. k - s[from(k) - 1] <= BatchAt(ops[from(k)]).count
    BY <2>1, <2>2, <1>5
  <2> QED
    BY <2>3, <2>4, <2>5, <2>1, <1>5 DEF Entry
<1>11. all \in Seq(Entry) /\ DOMAIN all = 1 .. s[N]
  <2>1. s[N] \in Nat
    BY <1>4
  <2> HIDE DEF entry
  <2> QED
    BY <2>1, <1>10
<1>12. \A k \in DOMAIN all : /\ all[k].seq = first + k - 1
                             /\ \E i \in 1 .. N : all[k].op = ops[i]
  BY <1>7
<1>13. \A i \in 1 .. N : BatchAt(ops[i]).count > 0 => \E e \in Range(all) : e.op = ops[i]
  <2> SUFFICES ASSUME NEW i \in 1 .. N, BatchAt(ops[i]).count > 0
               PROVE  \E e \in Range(all) : e.op = ops[i]
    OBVIOUS
  <2>1. i - 1 \in 0 .. N /\ s[i] \in Nat /\ s[i - 1] \in Nat
    BY <1>4
  <2>2. at(s[i], i)
    BY <1>5, <2>1
  <2>3. s[i] \in 1 .. s[N] /\ from(s[i]) = i
    <3> HIDE DEF at
    <3> QED
      BY <2>1, <2>2, <1>9
  <2>4. all[s[i]].op = ops[i] /\ all[s[i]] \in Range(all)
    BY <2>3 DEF Range
  <2> QED
    BY <2>4
<1>14. ASSUME NEW e \in Range(all)
       PROVE  {f \in Range(all) : f.op = e.op} = Atomic!BatchAround(e)
  <2>1. PICK k \in 1 .. s[N] : e = entry(k)
    BY DEF Range
  <2> DEFINE i == from(k)
  <2>2. i \in 1 .. N /\ at(k, i) /\ s[i - 1] \in Nat /\ s[i] \in Nat /\ s[N] \in Nat
    <3>1. i \in 1 .. N /\ at(k, i)
      BY <1>7
    <3>2. i - 1 \in 0 .. N
      BY <3>1
    <3> QED
      BY <3>1, <3>2, <1>4, SMTT(30)
  <2> DEFINE same(m) == [seq |-> first + m - 1, op |-> ops[i], place |-> m - s[i - 1]]
  <2>3. e = same(k)
    BY <2>1
  <2>4. \A m \in 1 .. s[N] : entry(m).op = e.op <=> at(m, i)
    <3> SUFFICES ASSUME NEW m \in 1 .. s[N] PROVE entry(m).op = e.op <=> at(m, i)
      OBVIOUS
    <3>1. from(m) \in 1 .. N /\ at(m, from(m)) /\ entry(m).op = ops[from(m)] /\ e.op = ops[i]
      BY <1>7, <2>1
    <3>2. m \in Nat
      BY <2>2
    <3> HIDE DEF at
    <3> QED
      BY <3>1, <3>2, <2>2, <1>9
  <2>5. \A m \in 1 .. s[N] : at(m, i) => entry(m) = same(m)
    BY <1>9, <2>2
  <2>6. {f \in Range(all) : f.op = e.op} = {same(m) : m \in {n \in 1 .. s[N] : at(n, i)}}
    <3>1. Range(all) = {entry(m) : m \in 1 .. s[N]}
      BY DEF Range
    <3> HIDE DEF all, entry, same, at, i
    <3> QED
      BY <3>1, <2>4, <2>5
  <2>7. {n \in 1 .. s[N] : at(n, i)} = {s[i - 1] + j : j \in 1 .. BatchAt(ops[i]).count}
    <3>1. s[i] = s[i - 1] + BatchAt(ops[i]).count /\ BatchAt(ops[i]).count \in Nat
      BY <1>5, <2>2
    <3>2. s[i] <= s[N]
      BY <1>3, <2>2, <1>4
    <3> HIDE DEF i
    <3>3. \A j \in 1 .. BatchAt(ops[i]).count :
            s[i - 1] + j \in 1 .. s[N] /\ at(s[i - 1] + j, i)
      <4> SUFFICES ASSUME NEW j \in 1 .. BatchAt(ops[i]).count
                   PROVE  s[i - 1] + j \in 1 .. s[N] /\ at(s[i - 1] + j, i)
        OBVIOUS
      <4>1. j \in Nat /\ j > 0 /\ j <= BatchAt(ops[i]).count
        BY <3>1
      <4>2. s[i - 1] + j \in Nat /\ s[i - 1] + j > s[i - 1] /\ s[i - 1] + j <= s[i]
        BY <4>1, <3>1, <2>2, SMTT(30)
      <4> QED
        BY <4>2, <3>2, <2>2
    <3>4. \A n \in 1 .. s[N] : at(n, i) =>
            n - s[i - 1] \in 1 .. BatchAt(ops[i]).count /\ n = s[i - 1] + (n - s[i - 1])
      BY <3>1, <2>2, SMTT(30)
    <3> QED
      BY <3>3, <3>4
  <2>8. \A j \in 1 .. BatchAt(ops[i]).count :
          same(s[i - 1] + j) = [seq |-> e.seq + j - e.place, op |-> e.op, place |-> j]
    <3> HIDE DEF i
    <3>1. BatchAt(ops[i]).count \in Nat
      BY <1>5, <2>2
    <3>2. e.seq = first + k - 1 /\ e.place = k - s[i - 1] /\ e.op = ops[i]
      BY <2>3
    <3>3. k \in Nat
      BY <2>1, <2>2
    <3> SUFFICES ASSUME NEW j \in 1 .. BatchAt(ops[i]).count
                 PROVE  same(s[i - 1] + j)
                          = [seq |-> e.seq + j - e.place, op |-> e.op, place |-> j]
      OBVIOUS
    <3>4. j \in Nat
      BY <3>1
    <3>5. e.seq + j - e.place = first + (s[i - 1] + j) - 1 /\ (s[i - 1] + j) - s[i - 1] = j
      BY <3>2, <3>3, <3>4, <2>2
    <3> QED
      BY <3>2, <3>5
  <2>9. {same(m) : m \in {n \in 1 .. s[N] : at(n, i)}}
          = {[seq |-> e.seq + j - e.place, op |-> e.op, place |-> j] :
               j \in 1 .. BatchAt(ops[i]).count}
    <3> DEFINE J == 1 .. BatchAt(ops[i]).count
               to(j) == s[i - 1] + j
               around(j) == [seq |-> e.seq + j - e.place, op |-> e.op, place |-> j]
    <3>1. {n \in 1 .. s[N] : at(n, i)} = {to(j) : j \in J}
      BY <2>7
    <3>2. \A j \in J : same(to(j)) = around(j)
      BY <2>8
    <3> HIDE DEF i, same, at, J, to, around
    <3>3. {same(m) : m \in {to(j) : j \in J}} = {around(j) : j \in J}
      BY <3>2
    <3>4. {same(m) : m \in {n \in 1 .. s[N] : at(n, i)}} = {around(j) : j \in J}
      BY <3>1, <3>3
    <3> QED
      BY <3>4 DEF J, around
  <2> QED
    BY <2>3, <2>6, <2>9 DEF Atomic!BatchAround, CountOf
<1> HIDE DEF all, N
<1> QED
  BY <1>2, <1>11, <1>12, <1>13, <1>14 DEF N

(* A leader finds a group: at least itself, and no more than the queue; a  *)
(* leader that does not sync takes no write that does.                     *)
LEMMA BuildBatchGroupRight ==
  ASSUME writers \in Seq(Threads), writers # << >>
  PROVE  /\ BuildBatchGroup \in 1 .. Len(writers)
         /\ \A i \in 1 .. BuildBatchGroup :
              Current(writers[i]).sync => Current(Head(writers)).sync
<1> DEFINE first == Current(Head(writers))
           max_size == IF first.count <= SmallBatch THEN first.count + SmallBatch ELSE LargeGroup
           stops(n) == \/ Current(writers[n]).sync /\ ~ first.sync
                       \/ Current(writers[n]).count > 0 /\ Sizes(Queued)[n] > max_size
           right(n) == /\ \A m \in 2 .. n : ~ stops(m)
                       /\ n < Len(writers) => stops(n + 1)
           T == {n \in 1 .. Len(writers) : n < Len(writers) => stops(n + 1)}
<1>1. BuildBatchGroup = CHOOSE n \in 1 .. Len(writers) : right(n)
  BY DEF BuildBatchGroup
<1>2. Len(writers) \in Nat /\ Len(writers) > 0
  OBVIOUS
<1>3. \E n \in 1 .. Len(writers) : right(n)
  <2> HIDE DEF stops
  <2>1. Len(writers) \in T /\ T \in SUBSET Nat
    BY <1>2
  <2>2. PICK n \in T : \A m \in T : n <= m
    <3> HIDE DEF T
    <3> QED
      BY <2>1, LeastNumber
  <2>3. ASSUME NEW m \in 2 .. n PROVE ~ stops(m)
    <3>1. m - 1 \in 1 .. Len(writers) /\ m - 1 < n /\ m - 1 + 1 = m
      BY <2>2, <1>2
    <3>2. m - 1 \notin T
      <4> HIDE DEF T
      <4> QED BY <3>1, <2>2, <2>1
    <3> QED
      BY <3>1, <3>2
  <2> QED
    BY <2>2, <2>3
<1> DEFINE b == BuildBatchGroup
<1>4. b \in 1 .. Len(writers) /\ right(b)
  <2> HIDE DEF right, b
  <2>1. b = CHOOSE n \in 1 .. Len(writers) : right(n)
    BY <1>1 DEF b
  <2> QED
    BY <2>1, <1>3
<1>5. ASSUME NEW i \in 1 .. b, Current(writers[i]).sync PROVE first.sync
  <2> HIDE DEF b
  <2>1. CASE i = 1
    BY <1>5, <2>1
  <2>2. CASE i # 1
    BY <1>5, <2>2, <1>4
  <2> QED
    BY <2>1, <2>2
<1> QED
  BY <1>4, <1>5


-----------------------------------------------------------------------------
(* What steps leave alone.                                                 *)

(* Only the head of the queue leads.                                       *)
LEMMA LeaderIsHead ==
  ASSUME TypeInv, QueueInv, NEW t \in Threads, pc[t] \in Leading
  PROVE  /\ writers # << >> /\ Head(writers) = t /\ 1 \in DOMAIN writers /\ writers[1] = t
         /\ \A u \in Threads : pc[u] \in Leading => u = t
<1>1. t \in Range(writers)
  BY DEF QueueInv
<1>2. writers # << >> /\ Head(writers) = t
  BY <1>1 DEF TypeInv, QueueInv, Range
<1> QED
  BY <1>2 DEF TypeInv, QueueInv

(* A step that touches neither group, memtables nor logs.                  *)
LEMMA DataUntouched ==
  ASSUME WritersInv, UNCHANGED <<group, last_sequence, storeVars, logVars>>,
         bg_error => bg_error',
         \A t \in Threads : pc'[t] \in Grouped \ {"finish"} =>
           pc'[t] = pc[t] /\ nth'[t] = nth[t]
  PROVE  StoreInv' /\ LogInv' /\ ReplayInv'
<1>1. StoreInv'
  BY DEF WritersInv, StoreInv, Inserted, storeVars
<1>2. LogInv'
  BY DEF WritersInv, LogInv, logVars, Grouped
<1>3. ASSUME NEW m, NEW records, Replays(m, records)
      PROVE  Replays(m, records)'
  BY <1>3 DEF Replays, logVars
<1>4. ReplayInv'
  <2>1. Replays(mem, log)'
    <3>1. Replays(mem, log)
      BY DEF WritersInv, ReplayInv
    <3>2. mem' = mem /\ log' = log
      BY DEF storeVars, logVars
    <3> QED
      BY <3>1, <3>2 DEF Replays, Whole, Readable, logVars
  <2>2. \A m \in imm' : Replays(m, imm_log)'
    <3>1. \A m \in imm : Replays(m, imm_log)
      BY DEF WritersInv, ReplayInv
    <3>2. imm' = imm /\ imm_log' = imm_log
      BY DEF storeVars, logVars
    <3> QED
      BY <3>1, <3>2 DEF Replays, Whole, Readable, logVars
  <2>3. ASSUME NEW t \in Threads, pc'[t] = "insert", Current(t)'.sync, Whole(log)'
        PROVE  Range(group.entries)' \subseteq synced'
    <3>1. pc[t] = "insert" /\ nth'[t] = nth[t] /\ log' = log /\ group' = group /\ synced' = synced
      BY <2>3 DEF Grouped, logVars
    <3>2. Current(t).sync /\ Whole(log)
      BY <2>3, <3>1 DEF Current, Op, Whole
    <3> QED
      BY <3>1, <3>2 DEF WritersInv, ReplayInv
  <2> QED
    BY <2>1, <2>2, <2>3 DEF ReplayInv
<1> QED
  BY <1>1, <1>2, <1>4

(* A step that keeps the group and the writers it was taken from.          *)
LEMMA GroupUntouched ==
  ASSUME WritersInv, UNCHANGED <<group, last_sequence>>, Len(writers) <= Len(writers'),
         writers' \in Seq(Threads),
         \A i \in 1 .. Len(writers) :
           writers'[i] = writers[i] /\ nth'[writers[i]] = nth[writers[i]],
         \A t \in Threads :
           /\ pc[t] \in Grouped => pc'[t] \in Grouped
           /\ pc'[t] \in Grouped \ {"finish"} => pc[t] \in Grouped \ {"finish"}
  PROVE  GroupInv'
<1>1. TypeInv /\ GroupInv
  BY DEF WritersInv
<1>2. group.size \in Nat /\ Len(writers) \in Nat /\ Len(writers') \in Nat
      /\ group.size <= Len(writers)
  BY <1>1 DEF TypeInv, GroupInv
<1>3. \A i \in 1 .. group.size : Op(writers[i])' = Op(writers[i])
  BY <1>2 DEF Op
<1>4. Taken' = Taken
  BY <1>3 DEF Taken
<1>5. \A i \in 1 .. group.size : Current(writers[i])' = Current(writers[i])
  BY <1>3 DEF Current
<1>6. group.size > 0 => Current(Head(writers))' = Current(Head(writers))
  BY <1>2, <1>5, <1>1 DEF TypeInv
<1>7. group'.size <= Len(writers')
  BY <1>2
<1>8. \A i \in 1 .. group'.size : Current(writers[i])'.sync => Current(Head(writers))'.sync
  BY <1>1, <1>2, <1>5, <1>6 DEF GroupInv
<1>9. \A e \in Range(group.entries)' :
        {f \in Range(group.entries)' : f.op = e.op} = Atomic!BatchAround(e)'
  BY <1>1 DEF GroupInv, Atomic!BatchAround
<1> QED
  BY <1>1, <1>4, <1>7, <1>8, <1>9 DEF GroupInv

(* A step that moves no leader that has a group.                           *)
LEMMA LeaderUntouched ==
  ASSUME WritersInv, UNCHANGED <<group, sync_error, log>>,
         \A t \in Threads :
           /\ pc[t] \in Grouped => pc'[t] = pc[t]
           /\ pc'[t] \in Grouped =>
                pc'[t] = pc[t] /\ status'[t] = status[t] /\ nth'[t] = nth[t]
  PROVE  LeaderInv'
<1>1. LeaderInv
  BY DEF WritersInv
<1>2. Whole(log)' = Whole(log)
  BY DEF Whole
<1>3. \A t \in Threads : pc'[t] \in Grouped => Current(t)' = Current(t)
  BY DEF Current, Op
<1> QED
  BY <1>1, <1>2, <1>3 DEF LeaderInv, Grouped

(* The thread's write has its outcome.                                     *)
Answered(t) == pc[t] = "return" \/ (pc[t] = "queued" /\ done[t])

(* A step that answers no writer.                                          *)
LEMMA OutcomesUntouched ==
  ASSUME WritersInv, UNCHANGED <<nth, results>>, Visible' = Visible,
         \A t \in Threads :
           /\ Answered(t)' <=> Answered(t)
           /\ Answered(t) => status'[t] = status[t]
           /\ t \in InWrite' => t \in InWrite
  PROVE  OutcomeInv'
<1>1. OutcomeInv
  BY DEF WritersInv
<1>2. \A op, s : Outcome(op, s)' <=> Outcome(op, s)
  BY DEF Outcome, Answered, Op
<1>3. \A s \in {"ok", "error"} : \A op \in results'[s] :
        op[2] <= nth'[op[1]] /\ (op[1] \in InWrite' => op[2] < nth'[op[1]])
  <2>1. \A t : t \in InWrite' => t \in InWrite
    BY DEF InWrite
  <2> QED
    BY <1>1, <2>1 DEF OutcomeInv
<1>4. \A e \in Visible' : Outcome(e.op, "ok")'
  BY <1>1, <1>2 DEF OutcomeInv
<1>5. \A t \in Threads : \A i \in 1 .. Len(Batch[t]) :
        Outcome(<<t, i>>, "ok")' /\ Batch[t][i].count > 0 => \E e \in Visible' : e.op = <<t, i>>
  <2> SUFFICES ASSUME NEW t \in Threads, NEW i \in 1 .. Len(Batch[t]),
                      Outcome(<<t, i>>, "ok")', Batch[t][i].count > 0
               PROVE  \E e \in Visible' : e.op = <<t, i>>
    OBVIOUS
  <2>1. Outcome(<<t, i>>, "ok")
    BY <1>2
  <2> QED
    BY <1>1, <2>1 DEF OutcomeInv
<1> QED
  BY <1>3, <1>4, <1>5 DEF OutcomeInv

-----------------------------------------------------------------------------
(* One lemma per step.                                                     *)

(* Entering Write appends to the queue, perhaps while a group is written.  *)
LEMMA CallKeeps ==
  ASSUME WritersInv, NEW t \in Threads, Call(t)
  PROVE  WritersInv'
<1> DEFINE place == IF writers = << >> THEN "room" ELSE "queued"
<1>1. /\ TypeInv /\ CallInv /\ QueueInv /\ GroupInv /\ OutcomeInv
  BY DEF WritersInv
<1>2. /\ pc[t] = "idle" /\ nth[t] < Len(Batch[t])
      /\ nth' = [nth EXCEPT ![t] = @ + 1]
      /\ done' = [done EXCEPT ![t] = FALSE]
      /\ writers' = Append(writers, t)
      /\ pc' = [pc EXCEPT ![t] = place]
      /\ UNCHANGED <<status, results, group, sync_error, last_sequence, storeVars,
                     logVars, bg_error>>
  BY DEF Call, Lead, Goto
<1>3. TypeInv'
  BY <1>1, <1>2 DEF TypeInv, Places, Leading, storeVars, logVars
<1>4. CallInv'
  BY <1>1, <1>2, WritersAssumption, SMTT(30) DEF TypeInv, CallInv
<1>5. t \notin Range(writers)
  BY <1>1, <1>2 DEF QueueInv, Leading
<1>6. \A u \in Threads : pc'[u] \in Leading => pc[u] \in Leading \/ (u = t /\ writers = << >>)
  BY <1>1, <1>2 DEF TypeInv, Leading
<1>7. QueueInv'
  <2>1. Range(writers') = Range(writers) \cup {t}
    <3>1. /\ Len(writers') = Len(writers) + 1 /\ writers'[Len(writers) + 1] = t
          /\ \A i \in 1 .. Len(writers) : writers'[i] = writers[i]
          /\ DOMAIN writers' = 1 .. Len(writers) + 1 /\ DOMAIN writers = 1 .. Len(writers)
          /\ Len(writers) \in Nat
      BY <1>1, <1>2 DEF TypeInv
    <3> QED
      BY <3>1 DEF Range
  <2>2. \A i, j \in DOMAIN writers' : writers'[i] = writers'[j] => i = j
    BY <1>1, <1>2, <1>5, SMTT(30) DEF TypeInv, QueueInv, Range
  <2>3. \A u \in Threads : u \in Range(writers') <=>
          (pc'[u] \in Leading \/ (pc'[u] = "queued" /\ ~ done'[u]))
    BY <1>1, <1>2, <2>1 DEF TypeInv, QueueInv, Leading
  <2>4. \A u \in Threads : pc'[u] \in Leading => Head(writers') = u
    BY <1>1, <1>2, <1>6, LeaderIsHead DEF TypeInv, QueueInv
  <2> QED
    BY <2>2, <2>3, <2>4 DEF QueueInv
<1>8. \A u \in Threads : u # t => pc'[u] = pc[u] /\ nth'[u] = nth[u] /\ done'[u] = done[u]
  BY <1>1, <1>2 DEF TypeInv
<1>9. pc'[t] \in {"room", "queued"} /\ nth'[t] = nth[t] + 1 /\ ~ done'[t]
  BY <1>1, <1>2 DEF TypeInv
<1>10. GroupInv'
  <2>1. Len(writers) <= Len(writers') /\ writers' \in Seq(Threads)
        /\ \A i \in 1 .. Len(writers) :
             writers'[i] = writers[i] /\ nth'[writers[i]] = nth[writers[i]]
    BY <1>1, <1>2, <1>5, <1>8 DEF TypeInv, Range
  <2> QED
    BY <1>2, <1>8, <1>9, <2>1, GroupUntouched DEF Grouped
<1>11. LeaderInv'
  BY <1>2, <1>8, <1>9, LeaderUntouched DEF Grouped, logVars
<1>12. StoreInv' /\ LogInv' /\ ReplayInv'
  BY <1>2, <1>8, <1>9, DataUntouched DEF Grouped
<1>13. OutcomeInv'
  <2>1. Visible' = Visible
    BY <1>2 DEF Visible, AllEntries, storeVars
  <2>2. \A op, s : Outcome(op, s)' <=> op \in results[s] \/ \E u \in Threads \ {t} :
          op = Op(u) /\ status[u] = s /\ Answered(u)
    <3>1. \A u \in Threads \ {t} : Op(u)' = Op(u) /\ (Answered(u)' <=> Answered(u))
      BY <1>8 DEF Op, Answered
    <3>2. ~ Answered(t)'
      BY <1>9 DEF Answered
    <3> QED
      BY <3>1, <3>2, <1>2 DEF Outcome, Answered
  <2>3. \A op, s : Outcome(op, s)' <=> Outcome(op, s)
    <3>1. ~ Answered(t)
      BY <1>2 DEF Answered
    <3> QED
      BY <2>2, <3>1 DEF Outcome, Answered
  <2>4. ASSUME NEW s \in {"ok", "error"}, NEW op \in results'[s]
        PROVE  op[2] <= nth'[op[1]] /\ (op[1] \in InWrite' => op[2] < nth'[op[1]])
    <3>1. op \in results[s] /\ op[1] \in Threads /\ op[2] \in Nat
      BY <2>4, <1>1, <1>2 DEF TypeInv, Writes
    <3>2. op[2] <= nth[op[1]] /\ (op[1] \in InWrite => op[2] < nth[op[1]])
      BY <3>1, <1>1 DEF OutcomeInv
    <3>3. op[1] # t => (op[1] \in InWrite' <=> op[1] \in InWrite)
      BY <3>1, <1>8 DEF InWrite
    <3>4. CASE op[1] = t
      BY <3>1, <3>2, <3>4, <1>1, <1>9 DEF TypeInv
    <3>5. CASE op[1] # t
      BY <3>1, <3>2, <3>3, <3>5, <1>8
    <3> QED
      BY <3>4, <3>5
  <2>5. \A e \in Visible' : Outcome(e.op, "ok")'
    BY <1>1, <2>1, <2>3 DEF OutcomeInv
  <2>6. \A u \in Threads : \A i \in 1 .. Len(Batch[u]) :
          Outcome(<<u, i>>, "ok")' /\ Batch[u][i].count > 0 => \E e \in Visible' : e.op = <<u, i>>
    <3> SUFFICES ASSUME NEW u \in Threads, NEW i \in 1 .. Len(Batch[u]),
                        Outcome(<<u, i>>, "ok")', Batch[u][i].count > 0
                 PROVE  \E e \in Visible' : e.op = <<u, i>>
      OBVIOUS
    <3>1. Outcome(<<u, i>>, "ok")
      BY <2>3
    <3> QED
      BY <1>1, <2>1, <3>1 DEF OutcomeInv
  <2> QED
    BY <2>4, <2>5, <2>6 DEF OutcomeInv
<1> QED
  BY <1>3, <1>4, <1>7, <1>10, <1>11, <1>12, <1>13 DEF WritersInv

(* A writer woken finds its answer, becomes the head, or waits on.         *)
LEMMA WakeKeeps ==
  ASSUME WritersInv, NEW t \in Threads, Wake(t)
  PROVE  WritersInv'
<1>1. TypeInv /\ CallInv /\ QueueInv
  BY DEF WritersInv
<1>2. /\ pc[t] = "queued"
      /\ UNCHANGED <<nth, done, status, results, writers, group, sync_error, last_sequence,
                     storeVars, logVars, bg_error>>
      /\ \A u \in Threads : u # t => pc'[u] = pc[u]
      /\ \/ done[t] /\ pc' = [pc EXCEPT ![t] = "return"]
         \/ ~ done[t] /\ Head(writers) = t /\ pc' = [pc EXCEPT ![t] = "room"]
         \/ ~ done[t] /\ pc' = pc
  BY <1>1 DEF Wake, Lead, Goto, TypeInv
<1>3. \/ done[t] /\ pc'[t] = "return"
      \/ ~ done[t] /\ Head(writers) = t /\ pc'[t] = "room"
      \/ ~ done[t] /\ pc'[t] = "queued"
  BY <1>1, <1>2 DEF TypeInv
<1>4. TypeInv'
  BY <1>1, <1>2 DEF TypeInv, Places, Leading, storeVars, logVars
<1>5. CallInv'
  BY <1>1, <1>2 DEF CallInv
<1>6. QueueInv'
  BY <1>1, <1>2, <1>3 DEF QueueInv, Leading
<1>7. GroupInv'
  BY <1>1, <1>2, <1>3, GroupUntouched DEF TypeInv, Grouped
<1>8. LeaderInv'
  BY <1>2, <1>3, LeaderUntouched DEF Grouped, logVars
<1>9. StoreInv' /\ LogInv' /\ ReplayInv'
  BY <1>2, <1>3, DataUntouched DEF Grouped
<1>10. OutcomeInv'
  <2>1. Visible' = Visible
    BY <1>2 DEF Visible, AllEntries, storeVars
  <2> QED
    BY <1>2, <1>3, <2>1, OutcomesUntouched DEF Answered, InWrite
<1> QED
  BY <1>4, <1>5, <1>6, <1>7, <1>8, <1>9, <1>10 DEF WritersInv

(* The steps of MakeRoomForWrite that only move the leader, or record an   *)
(* error; the leader has no group yet.                                     *)
LEMMA RoomKeeps ==
  ASSUME WritersInv, NEW t \in Threads, pc[t] \in {"room", "sleep", "full"},
         UNCHANGED <<nth, done, results, writers, group, sync_error, last_sequence, storeVars,
                     logVars, bg_error>>,
         NEW place \in {"room", "sleep", "full", "build", "finish"},
         pc' = [pc EXCEPT ![t] = place],
         IF place = "finish" THEN status' = [status EXCEPT ![t] = "error"] ELSE status' = status
  PROVE  WritersInv'
<1>1. TypeInv /\ CallInv /\ QueueInv /\ GroupInv /\ LeaderInv
  BY DEF WritersInv
<1>2. \A u \in Threads : u # t => pc'[u] = pc[u] /\ status'[u] = status[u]
  BY <1>1 DEF TypeInv
<1>3. pc'[t] = place
  BY <1>1 DEF TypeInv
<1>4. group.size = 0 /\ group.entries = << >> /\ group.inserted = 0 /\ ~ sync_error
  <2>1. \A u \in Threads : pc[u] \notin Grouped
    BY <1>1, LeaderIsHead DEF Leading, Grouped
  <2>2. group.size = 0 /\ group.entries = << >> /\ ~ sync_error
    BY <1>1, <2>1 DEF GroupInv, LeaderInv, Grouped
  <2> QED
    BY <1>1, <2>2 DEF LeaderInv, TypeInv
<1>5. TypeInv'
  BY <1>1 DEF TypeInv, Places, Leading, storeVars, logVars
<1>6. CallInv'
  BY <1>1, <1>2, <1>3 DEF CallInv
<1>7. QueueInv'
  BY <1>1, <1>2, <1>3 DEF QueueInv, Leading
<1>8. GroupInv'
  BY <1>1, <1>2, <1>3, GroupUntouched DEF TypeInv, Grouped
<1>9. LeaderInv'
  <2>1. \A u \in Threads : pc'[u] \in Grouped => u = t /\ place = "finish" /\ status'[t] = "error"
    BY <1>1, <1>2, <1>3, LeaderIsHead DEF Leading, Grouped, TypeInv
  <2> QED
    BY <1>4, <2>1 DEF LeaderInv, Grouped
<1>10. StoreInv' /\ LogInv' /\ ReplayInv'
  BY <1>2, <1>3, DataUntouched DEF Grouped
<1>11. OutcomeInv'
  <2>1. Visible' = Visible
    BY DEF Visible, AllEntries, storeVars
  <2> QED
    BY <1>2, <1>3, <2>1, OutcomesUntouched DEF Answered, InWrite
<1> QED
  BY <1>5, <1>6, <1>7, <1>8, <1>9, <1>10, <1>11 DEF WritersInv

(* The memtable and its log are set aside together.                        *)
LEMMA RoomSwitchKeeps ==
  ASSUME WritersInv, NEW t \in Threads, pc[t] = "room", RoomSwitch(t),
         UNCHANGED <<nth, done, results, writers, group, sync_error, last_sequence, bg_error>>
  PROVE  WritersInv'
<1>1. TypeInv /\ CallInv /\ QueueInv /\ GroupInv /\ LeaderInv /\ StoreInv /\ LogInv /\ ReplayInv
  BY DEF WritersInv
<1>2. /\ imm = {} /\ imm' = {mem} /\ mem' = {} /\ imm_log' = log /\ log' = << >>
      /\ UNCHANGED <<pc, status, tables, synced>>
  BY DEF RoomSwitch, MustWait
<1>3. \A u \in Threads : pc[u] \notin Grouped
  BY <1>1, LeaderIsHead DEF Leading, Grouped
<1>4. group.size = 0 /\ group.entries = << >> /\ group.inserted = 0
  <2>1. group.size = 0 /\ group.entries = << >>
    BY <1>1, <1>3 DEF GroupInv
  <2> QED
    BY <1>1, <2>1 DEF LeaderInv, TypeInv
<1>5. TypeInv'
  BY <1>1, <1>2 DEF TypeInv
<1>6. CallInv' /\ QueueInv'
  BY <1>1, <1>2 DEF CallInv, QueueInv
<1>7. GroupInv'
  BY <1>1, <1>2, GroupUntouched DEF TypeInv
<1>8. LeaderInv'
  BY <1>1, <1>2, <1>3, <1>4 DEF LeaderInv, Grouped
<1>9. Inserted = {} /\ Inserted' = {}
  BY <1>4 DEF Inserted
<1>10. StoreInv'
  BY <1>1, <1>2, <1>9 DEF StoreInv
<1>11. OutcomeInv'
  <2>1. Visible' = Visible
    BY <1>2 DEF Visible, AllEntries
  <2> QED
    BY <1>2, <2>1, OutcomesUntouched DEF Answered, InWrite
<1>12. LogInv'
  BY <1>1, <1>2, <1>3, <1>4 DEF LogInv, Range, Grouped
<1>13. ReplayInv'
  <2>1. Replays(mem, log)'
    BY <1>2 DEF Replays, Readable
  <2>2. Replays(mem, log)
    BY <1>1 DEF ReplayInv
  <2>3. \A m \in imm' : Replays(m, imm_log)'
    BY <1>2, <2>2 DEF Replays, Whole, Readable
  <2> QED
    BY <2>1, <2>3, <1>2, <1>3 DEF ReplayInv, Grouped
<1> QED
  BY <1>5, <1>6, <1>7, <1>8, <1>10, <1>11, <1>12, <1>13 DEF WritersInv

(* A turn of the loop of MakeRoomForWrite.                                 *)
LEMMA MakeRoomForWriteKeeps ==
  ASSUME WritersInv, NEW t \in Threads, MakeRoomForWrite(t)
  PROVE  WritersInv'
<1>1. /\ pc[t] = "room"
      /\ UNCHANGED <<nth, done, results, writers, group, sync_error, last_sequence, bg_error>>
  BY DEF MakeRoomForWrite
<1>2. CASE RoomSwitch(t)
  BY <1>1, <1>2, RoomSwitchKeeps
<1>3. CASE RoomError(t)
  BY <1>1, <1>3, RoomKeeps DEF RoomError, RoomUnchanged, Goto, storeVars, logVars
<1>4. CASE RoomDelay(t)
  BY <1>1, <1>4, RoomKeeps DEF RoomDelay, RoomUnchanged, Goto, storeVars, logVars
<1>5. CASE RoomFound(t)
  BY <1>1, <1>5, RoomKeeps DEF RoomFound, RoomUnchanged, Goto, storeVars, logVars
<1>6. CASE RoomWait(t)
  BY <1>1, <1>6, RoomKeeps DEF RoomWait, RoomUnchanged, Goto, storeVars, logVars
<1>7. CASE RoomFails(t)
  BY <1>1, <1>7, RoomKeeps DEF RoomFails, RoomUnchanged, Goto, storeVars, logVars
<1> QED
  BY <1>2, <1>3, <1>4, <1>5, <1>6, <1>7 DEF MakeRoomForWrite

(* The sleep, or the wait on the background work, ends.                    *)
LEMMA RoomAgainKeeps ==
  ASSUME WritersInv, NEW t \in Threads, RoomAgain(t)
  PROVE  WritersInv'
BY RoomKeeps DEF RoomAgain, Goto, storeVars, logVars

(* The queue of writes that BuildBatchGroup looks at.                      *)
LEMMA QueuedRight ==
  ASSUME TypeInv, CallInv, QueueInv
  PROVE  /\ Queued \in Seq(Writes) /\ Len(Queued) = Len(writers)
         /\ \A i \in 1 .. Len(writers) :
              /\ writers[i] \in Threads /\ Queued[i] = Op(writers[i])
              /\ nth[writers[i]] \in 1 .. Len(Batch[writers[i]])
              /\ BatchAt(Queued[i]).count \in Nat
         /\ \A i, j \in 1 .. Len(writers) : Queued[i] = Queued[j] => i = j
<1>1. writers \in Seq(Threads) /\ Len(writers) \in Nat /\ DOMAIN writers = 1 .. Len(writers)
  BY DEF TypeInv
<1>2. \A i \in 1 .. Len(writers) : writers[i] \in Threads /\ writers[i] \in Range(writers)
  BY <1>1 DEF Range
<1>3. \A i \in 1 .. Len(writers) : Op(writers[i]) \in Writes
  BY <1>2 DEF Op, Writes, TypeInv
<1>4. Queued \in Seq(Writes) /\ Len(Queued) = Len(writers)
      /\ \A i \in 1 .. Len(writers) : Queued[i] = Op(writers[i])
  BY <1>1, <1>3 DEF Queued
<1>5. \A i \in 1 .. Len(writers) : nth[writers[i]] \in 1 .. Len(Batch[writers[i]])
  <2> SUFFICES ASSUME NEW i \in 1 .. Len(writers)
               PROVE  nth[writers[i]] \in 1 .. Len(Batch[writers[i]])
    OBVIOUS
  <2>1. pc[writers[i]] # "idle"
    BY <1>2 DEF QueueInv, Leading
  <2>2. Len(Batch[writers[i]]) \in Nat
    BY <1>2, WritersAssumption
  <2> QED
    BY <1>2, <2>1, <2>2 DEF CallInv, TypeInv
<1>6. \A i \in 1 .. Len(writers) : BatchAt(Op(writers[i])).count \in Nat
  <2> SUFFICES ASSUME NEW i \in 1 .. Len(writers) PROVE BatchAt(Op(writers[i])).count \in Nat
    OBVIOUS
  <2> DEFINE batches == Batch[writers[i]]
             n == nth[writers[i]]
  <2>1. batches \in Seq([count : Nat, sync : BOOLEAN]) /\ n \in 1 .. Len(batches)
    BY <1>2, <1>5, WritersAssumption
  <2>2. BatchAt(Op(writers[i])) = batches[n]
    BY DEF BatchAt, Op
  <2> HIDE DEF batches, n
  <2>3. batches[n] \in [count : Nat, sync : BOOLEAN]
    BY <2>1, ElementOfSeq
  <2> QED
    BY <2>2, <2>3
<1>7. \A i, j \in 1 .. Len(writers) : Op(writers[i]) = Op(writers[j]) => i = j
  BY <1>1 DEF Op, QueueInv
<1> QED
  BY <1>2, <1>4, <1>5, <1>6, <1>7

(* The leader takes its group and numbers it.                              *)
LEMMA BuildKeeps ==
  ASSUME WritersInv, NEW t \in Threads, Build(t)
  PROVE  WritersInv'
<1>1. /\ TypeInv /\ CallInv /\ QueueInv /\ GroupInv /\ LeaderInv /\ StoreInv /\ OutcomeInv
      /\ LogInv /\ ReplayInv
  BY DEF WritersInv
<1>2. /\ pc[t] = "build"
      /\ status' = [status EXCEPT ![t] = "ok"]
      /\ UNCHANGED <<nth, done, results, writers, sync_error, last_sequence, storeVars,
                     logVars, bg_error>>
  BY DEF Build
<1>3. \A u \in Threads : pc[u] \notin Grouped
  BY <1>1, <1>2, LeaderIsHead DEF Leading, Grouped
<1>4. group.size = 0 /\ group.entries = << >> /\ group.inserted = 0 /\ ~ sync_error
  <2>1. group.size = 0 /\ group.entries = << >> /\ ~ sync_error
    BY <1>1, <1>3 DEF GroupInv, LeaderInv, Grouped
  <2> QED
    BY <1>1, <2>1 DEF LeaderInv, TypeInv
<1>5. Visible' = Visible
  BY <1>2 DEF Visible, AllEntries, storeVars
<1>6. CASE Current(t).count = 0
  <2>1. pc' = [pc EXCEPT ![t] = "finish"] /\ group' = group
    BY <1>6 DEF Build, Goto
  <2>2. \A u \in Threads : u # t => pc'[u] = pc[u] /\ status'[u] = status[u]
    BY <1>1, <1>2, <2>1 DEF TypeInv
  <2>3. pc'[t] = "finish" /\ status'[t] = "ok"
    BY <1>1, <1>2, <2>1 DEF TypeInv
  <2>4. TypeInv'
    BY <1>1, <1>2, <2>1 DEF TypeInv, Places, Leading, storeVars, logVars
  <2>5. CallInv' /\ QueueInv'
    BY <1>1, <1>2, <2>2, <2>3 DEF CallInv, QueueInv, Leading
  <2>6. GroupInv'
    BY <1>1, <1>2, <1>3, <2>1, <2>2, <2>3, GroupUntouched DEF TypeInv, Grouped
  <2>7. LeaderInv'
    <3>1. Current(t)' = Current(t)
      BY <1>2 DEF Current, Op
    <3> QED
      BY <1>2, <1>3, <1>4, <1>6, <2>1, <2>2, <2>3, <3>1 DEF LeaderInv, Grouped
  <2>8. StoreInv' /\ LogInv' /\ ReplayInv'
    BY <1>2, <2>1, <2>2, <2>3, DataUntouched DEF Grouped
  <2>9. OutcomeInv'
    BY <1>2, <1>5, <2>2, <2>3, OutcomesUntouched DEF Answered, InWrite
  <2> QED
    BY <2>4, <2>5, <2>6, <2>7, <2>8, <2>9 DEF WritersInv
<1>7. CASE Current(t).count # 0
  <2> DEFINE size == BuildBatchGroup
             ops == SubSeq(Queued, 1, size)
             all == EntriesOf(ops, last_sequence + 1)
  <2>1. /\ pc' = [pc EXCEPT ![t] = "append"]
        /\ group' = [size |-> size, inserted |-> 0, entries |-> all]
    BY <1>7 DEF Build, Goto
  <2>2. \A u \in Threads : u # t => pc'[u] = pc[u] /\ status'[u] = status[u]
    BY <1>1, <1>2, <2>1 DEF TypeInv
  <2>3. pc'[t] = "append" /\ status'[t] = "ok"
    BY <1>1, <1>2, <2>1 DEF TypeInv
  <2>4. writers # << >> /\ Head(writers) = t /\ writers[1] = t /\ writers \in Seq(Threads)
    BY <1>1, <1>2, LeaderIsHead DEF TypeInv, Leading
  <2>5. size \in 1 .. Len(writers)
        /\ \A i \in 1 .. size : Current(writers[i]).sync => Current(Head(writers)).sync
    BY <2>4, BuildBatchGroupRight
  <2> HIDE DEF size
  <2>6. ops \in Seq(Writes) /\ Len(ops) = size /\ \A i \in 1 .. size : ops[i] = Op(writers[i])
    <3>1. /\ Queued \in Seq(Writes) /\ Len(Queued) = Len(writers)
          /\ \A i \in 1 .. Len(writers) : Queued[i] = Op(writers[i])
      BY <1>1, QueuedRight
    <3>2. Len(writers) \in Nat /\ size \in Nat /\ size >= 1 /\ size <= Len(writers)
      BY <2>4, <2>5
    <3>3. ops \in Seq(Writes) /\ Len(ops) = size /\ \A i \in 1 .. size : ops[i] = Queued[i]
      BY <3>1, <3>2, SubSeqProperties
    <3> QED
      BY <3>1, <3>2, <3>3
  <2>7. Counted(ops) /\ \A i, j \in 1 .. Len(ops) : ops[i] = ops[j] => i = j
    BY <1>1, <2>4, <2>5, <2>6, QueuedRight DEF Counted
  <2> HIDE DEF ops
  <2>8. /\ all \in Seq(Entry)
        /\ \A k \in DOMAIN all : /\ all[k].seq = last_sequence + k
                                 /\ \E i \in 1 .. size : all[k].op = ops[i]
        /\ \A e \in Range(all) : {f \in Range(all) : f.op = e.op} = Atomic!BatchAround(e)
        /\ \A i \in 1 .. size : BatchAt(ops[i]).count > 0 => \E e \in Range(all) : e.op = ops[i]
    <3>1. last_sequence \in Nat /\ last_sequence + 1 \in Nat
      BY <1>1 DEF TypeInv
    <3>2. /\ all \in Seq(Entry)
          /\ \A k \in DOMAIN all : /\ all[k].seq = last_sequence + 1 + k - 1
                                   /\ \E i \in 1 .. Len(ops) : all[k].op = ops[i]
          /\ \A e \in Range(all) : {f \in Range(all) : f.op = e.op} = Atomic!BatchAround(e)
          /\ \A i \in 1 .. Len(ops) :
               BatchAt(ops[i]).count > 0 => \E e \in Range(all) : e.op = ops[i]
      BY <3>1, <2>6, <2>7, EntriesRight
    <3> HIDE DEF all
    <3>3. \A k \in DOMAIN all : k \in Nat /\ last_sequence + 1 + k - 1 = last_sequence + k
      BY <3>1, <3>2
    <3> QED
      BY <2>6, <3>2, <3>3
  <2> HIDE DEF all
  <2>9. TypeInv'
    <3>1. group' \in [size : Nat, inserted : Nat, entries : Seq(Entry)]
      BY <2>1, <2>5, <2>8, <2>4
    <3> QED
      BY <1>1, <1>2, <2>1, <3>1 DEF TypeInv, Places, Leading, storeVars, logVars
  <2>10. CallInv' /\ QueueInv'
    BY <1>1, <1>2, <2>2, <2>3 DEF CallInv, QueueInv, Leading
  <2>11. /\ \A u : Op(u)' = Op(u) /\ Current(u)' = Current(u)
         /\ Taken' = {ops[i] : i \in 1 .. size}
    <3>1. \A u : Op(u)' = Op(u) /\ Current(u)' = Current(u)
      BY <1>2 DEF Op, Current
    <3> QED
      BY <1>2, <2>1, <2>6, <3>1 DEF Taken
  <2>12. all # << >>
    <3>1. ops[1] = Op(t) /\ BatchAt(ops[1]).count > 0 /\ 1 \in 1 .. size
      BY <1>7, <2>4, <2>5, <2>6, <2>7 DEF Current, Counted
    <3> QED
      BY <2>8, <3>1 DEF Range
  <2>13. GroupInv'
    <3>1. group'.size = size /\ group'.entries = all /\ group'.inserted = 0
      BY <2>1
    <3>2. /\ group'.size <= Len(writers')
          /\ group'.size = 0 => group'.entries = << >>
          /\ (\A u \in Threads : pc'[u] \notin Grouped) => group'.size = 0
          /\ \A u \in Threads : pc'[u] \in Grouped \ {"finish"} => group'.entries # << >>
      BY <1>2, <2>3, <2>4, <2>5, <2>12, <3>1 DEF Grouped
    <3>3. \A k \in DOMAIN group'.entries :
            group'.entries[k].seq = last_sequence' + k /\ group'.entries[k].op \in Taken'
      BY <1>2, <2>8, <2>11, <3>1
    <3>4. \A e \in Range(group.entries)' :
            {f \in Range(group.entries)' : f.op = e.op} = Atomic!BatchAround(e)'
      BY <2>8, <3>1 DEF Atomic!BatchAround
    <3>5. \A op \in Taken' : BatchAt(op).count > 0 => \E e \in Range(group.entries)' : e.op = op
      BY <2>8, <2>11, <3>1
    <3>6. \A i \in 1 .. group'.size : Current(writers[i])'.sync => Current(Head(writers))'.sync
      BY <1>2, <2>5, <2>11, <3>1 DEF Current, Op
    <3> QED
      BY <3>2, <3>3, <3>4, <3>5, <3>6 DEF GroupInv
  <2>14. LeaderInv'
    <3>1. group'.inserted = 0 /\ group'.entries = all /\ Len(all) \in Nat
      BY <2>1, <2>8
    <3> QED
      BY <1>2, <1>3, <1>4, <2>2, <2>3, <3>1 DEF LeaderInv, Grouped
  <2>15. StoreInv'
    <3>1. Inserted = {} /\ Inserted' = {}
      BY <1>4, <2>1 DEF Inserted
    <3> QED
      BY <1>1, <1>2, <3>1 DEF StoreInv, storeVars
  <2>16. OutcomeInv'
    BY <1>2, <1>5, <2>2, <2>3, OutcomesUntouched DEF Answered, InWrite
  <2>17. \A i \in DOMAIN log : \A e \in log[i].entries : e.seq <= last_sequence
    BY <1>1, <1>4 DEF LogInv, Range
  <2>18. LogInv'
    BY <1>1, <1>2, <1>3, <2>2, <2>3, <2>17 DEF LogInv, Grouped, logVars
  <2>19. ReplayInv'
    <3>1. Replays(mem, log) /\ \A m \in imm : Replays(m, imm_log)
      BY <1>1 DEF ReplayInv
    <3>2. \A u \in Threads : pc'[u] # "insert"
      BY <1>3, <2>2, <2>3 DEF Grouped
    <3> QED
      BY <1>2, <3>1, <3>2 DEF ReplayInv, Replays, Whole, Readable, storeVars, logVars
  <2> QED
    BY <2>9, <2>10, <2>13, <2>14, <2>15, <2>16, <2>18, <2>19 DEF WritersInv
<1> QED
  BY <1>6, <1>7

(* Without a torn record, the whole log is readable.                       *)
LEMMA ReadableWhole ==
  ASSUME NEW records \in Seq(Record), Whole(records)
  PROVE  Readable(records) = UNION {records[i].entries : i \in DOMAIN records}
<1>1. \A j \in DOMAIN records : \A k \in 1 .. j : records[k].whole
  BY DEF Whole
<1> QED
  BY <1>1 DEF Readable

(* What the records of a log hold.                                         *)
LEMMA EntriesOfRecords ==
  ASSUME NEW records \in Seq(Record)
  PROVE  \A i \in DOMAIN records : records[i].entries \in SUBSET Entry
<1> SUFFICES ASSUME NEW i \in DOMAIN records PROVE records[i].entries \in SUBSET Entry
  OBVIOUS
<1>1. i \in 1 .. Len(records)
  OBVIOUS
<1>2. records[i] \in Record
  BY <1>1, ElementOfSeq
<1> QED
  BY <1>2 DEF Record

(* The group is appended to the log, or part of it is.                     *)
LEMMA AddRecordKeeps ==
  ASSUME WritersInv, NEW t \in Threads, AddRecord(t)
  PROVE  WritersInv'
<1>1. /\ TypeInv /\ CallInv /\ QueueInv /\ GroupInv /\ LeaderInv /\ StoreInv /\ OutcomeInv
      /\ LogInv /\ ReplayInv
  BY DEF WritersInv
<1>2. /\ pc[t] = "append"
      /\ UNCHANGED <<nth, done, results, writers, group, sync_error, last_sequence, storeVars,
                     imm_log, synced, bg_error>>
  BY DEF AddRecord
<1>3. \A u \in Threads : pc[u] \in Grouped => u = t
  BY <1>1, <1>2, LeaderIsHead DEF Leading, Grouped
<1>4. Visible' = Visible
  BY <1>2 DEF Visible, AllEntries, storeVars
<1>5. Range(group.entries) \in SUBSET Entry
  BY <1>1 DEF TypeInv, Range
<1>6. \A e \in Range(group.entries) : e.seq > last_sequence
  <2>1. DOMAIN group.entries \in SUBSET Nat /\ \A k \in DOMAIN group.entries : k > 0
    BY <1>1 DEF TypeInv
  <2> QED
    BY <1>1, <2>1 DEF GroupInv, Range, TypeInv
<1>7. Replays(mem, log) /\ \A m \in imm : Replays(m, imm_log)
  BY <1>1 DEF ReplayInv
<1>8. \A m \in imm' : Replays(m, imm_log)'
  BY <1>2, <1>7 DEF Replays, Whole, Readable, storeVars
<1>9. ASSUME NEW place \in {"sync", "insert"}, pc' = [pc EXCEPT ![t] = place], status' = status,
             place = "insert" => ~ Current(t).sync,
             log' = Append(log, [whole |-> TRUE, entries |-> Range(group.entries)])
      PROVE  WritersInv'
  <2>1. \A u \in Threads : u # t => pc'[u] = pc[u]
    BY <1>1, <1>9 DEF TypeInv
  <2>2. pc'[t] = place
    BY <1>1, <1>9 DEF TypeInv
  <2> DEFINE r == [whole |-> TRUE, entries |-> Range(group.entries)]
  <2>3. r \in Record
    BY <1>5 DEF Record
  <2>4. /\ log' \in Seq(Record) /\ Len(log') = Len(log) + 1 /\ log'[Len(log')] = r
        /\ \A i \in 1 .. Len(log) : log'[i] = log[i]
        /\ Len(log) \in Nat /\ DOMAIN log = 1 .. Len(log) /\ DOMAIN log' = 1 .. Len(log')
    <3> HIDE DEF r
    <3> QED
      BY <1>1, <1>9, <2>3 DEF TypeInv, r
  <2>5. TypeInv'
    BY <1>1, <1>2, <1>9, <2>4 DEF TypeInv, Places, Leading, storeVars
  <2>6. CallInv' /\ QueueInv'
    BY <1>1, <1>2, <2>1, <2>2 DEF CallInv, QueueInv, Leading
  <2>7. GroupInv'
    BY <1>1, <1>2, <2>1, <2>2, GroupUntouched DEF TypeInv, Grouped
  <2>8. LeaderInv'
    <3>1. group.inserted = 0 /\ group.entries # << >> /\ status[t] = "ok"
      BY <1>1, <1>2 DEF LeaderInv, GroupInv, Grouped
    <3>2. Len(group.entries) \in Nat /\ Len(group.entries) > 0
      BY <1>1, <3>1 DEF TypeInv
    <3>3. ~ sync_error
      BY <1>1, <1>2, <1>3 DEF LeaderInv, Grouped
    <3> QED
      BY <1>2, <1>3, <1>9, <2>1, <2>2, <3>1, <3>2, <3>3 DEF LeaderInv, Grouped
  <2>9. StoreInv'
    BY <1>1, <1>2 DEF StoreInv, Inserted, storeVars
  <2>10. OutcomeInv'
    BY <1>2, <1>4, <1>9, <2>1, <2>2, OutcomesUntouched DEF Answered, InWrite
  <2>11. \A i \in DOMAIN log : \A e \in log[i].entries : e.seq <= last_sequence
    BY <1>1, <1>2 DEF LogInv
  <2>12. LogInv'
    <3>1. \A i, j \in DOMAIN log' : i < j =>
            \A e \in log'[i].entries, f \in log'[j].entries : e.seq < f.seq
      <4> SUFFICES ASSUME NEW i \in DOMAIN log', NEW j \in DOMAIN log', i < j,
                          NEW e \in log'[i].entries, NEW f \in log'[j].entries
                   PROVE  e.seq < f.seq
        OBVIOUS
      <4>1. i \in DOMAIN log /\ e \in log[i].entries
        BY <2>4
      <4>2. e \in Entry
        BY <1>1, <4>1, EntriesOfRecords DEF TypeInv
      <4>3. CASE j \in DOMAIN log
        BY <1>1, <2>4, <4>1, <4>3 DEF LogInv
      <4>4. CASE j \notin DOMAIN log
        <5>1. f \in Range(group.entries)
          BY <2>4, <4>4
        <5>2. e.seq <= last_sequence /\ f.seq > last_sequence /\ f \in Entry
          BY <4>1, <5>1, <2>11, <1>5, <1>6
        <5> QED
          BY <4>2, <5>2, <1>1 DEF Entry, TypeInv
      <4> QED
        BY <4>3, <4>4
    <3>2. \A i \in DOMAIN log' : \A e \in log'[i].entries :
            e.seq <= last_sequence' \/ e \in Range(group.entries)'
      BY <1>2, <2>4, <2>11
    <3>3. log' # << >>
      BY <2>4
    <3> QED
      BY <1>1, <1>2, <1>3, <2>1, <2>2, <2>4, <3>1, <3>2, <3>3 DEF LogInv, Grouped
  <2>13. Replays(mem, log)'
    <3> SUFFICES ASSUME Whole(log)' PROVE
           /\ mem' \subseteq Readable(log)'
           /\ ~ bg_error' => {e \in Readable(log)' : e.seq <= last_sequence'} \subseteq mem'
           /\ \A e \in mem' : BatchAt(e.op).sync => e \in synced'
      BY DEF Replays
    <3>1. Whole(log) /\ Whole(log')
      BY <2>4 DEF Whole
    <3>2. Readable(log) = UNION {log[i].entries : i \in DOMAIN log}
      BY <1>1, <3>1, ReadableWhole DEF TypeInv
    <3>3. Readable(log') = UNION {log'[i].entries : i \in DOMAIN log'}
      BY <2>4, <3>1, ReadableWhole
    <3>4. Readable(log') = Readable(log) \cup Range(group.entries)
      BY <2>4, <3>2, <3>3
    <3>5. Readable(log)' = Readable(log')
      BY DEF Readable
    <3>6. {e \in Range(group.entries) : e.seq <= last_sequence} = {}
      BY <1>1, <1>5, <1>6 DEF Entry, TypeInv
    <3> QED
      BY <1>2, <1>7, <3>1, <3>4, <3>5, <3>6 DEF Replays, storeVars
  <2>14. ReplayInv'
    <3>1. \A u \in Threads : pc'[u] = "insert" => u = t /\ ~ Current(u)'.sync
      BY <1>2, <1>3, <1>9, <2>1, <2>2 DEF Grouped, Current, Op
    <3> QED
      BY <1>8, <2>13, <3>1 DEF ReplayInv
  <2> QED
    BY <2>5, <2>6, <2>7, <2>8, <2>9, <2>10, <2>12, <2>14 DEF WritersInv
<1>10. ASSUME pc' = [pc EXCEPT ![t] = "finish"], status' = [status EXCEPT ![t] = "error"],
              log' = Append(log, [whole |-> FALSE, entries |-> {}])
       PROVE  WritersInv'
  <2>1. \A u \in Threads : u # t => pc'[u] = pc[u] /\ status'[u] = status[u]
    BY <1>1, <1>10 DEF TypeInv
  <2>2. pc'[t] = "finish" /\ status'[t] = "error"
    BY <1>1, <1>10 DEF TypeInv
  <2>3. /\ log' \in Seq(Record) /\ Len(log') = Len(log) + 1 
        /\ log'[Len(log')] = [whole |-> FALSE, entries |-> {}]
        /\ \A i \in 1 .. Len(log) : log'[i] = log[i]
        /\ Len(log) \in Nat /\ DOMAIN log = 1 .. Len(log) /\ DOMAIN log' = 1 .. Len(log')
    <3> DEFINE r == [whole |-> FALSE, entries |-> {}]
    <3>1. r \in Record
      BY DEF Record
    <3> HIDE DEF r
    <3> QED
      BY <1>1, <1>10, <3>1 DEF TypeInv, r
  <2>4. TypeInv'
    BY <1>1, <1>2, <1>10, <2>3 DEF TypeInv, Places, Leading, storeVars
  <2>5. CallInv' /\ QueueInv'
    BY <1>1, <1>2, <2>1, <2>2 DEF CallInv, QueueInv, Leading
  <2>6. GroupInv'
    BY <1>1, <1>2, <2>1, <2>2, GroupUntouched DEF TypeInv, Grouped
  <2>7. ~ Whole(log)'
    BY <2>3 DEF Whole
  <2>8. LeaderInv'
    <3>1. group.inserted = 0 /\ ~ sync_error
      BY <1>1, <1>2, <1>3 DEF LeaderInv, Grouped
    <3>2. Len(group.entries) \in Nat
      BY <1>1 DEF TypeInv
    <3> QED
      BY <1>2, <1>3, <2>1, <2>2, <2>7, <3>1, <3>2 DEF LeaderInv, Grouped
  <2>9. StoreInv'
    BY <1>1, <1>2 DEF StoreInv, Inserted, storeVars
  <2>10. OutcomeInv'
    BY <1>2, <1>4, <2>1, <2>2, OutcomesUntouched DEF Answered, InWrite
  <2>11. LogInv'
    BY <1>1, <1>2, <1>3, <2>1, <2>2, <2>3 DEF LogInv, Grouped
  <2>12. ReplayInv'
    BY <1>3, <1>8, <2>1, <2>2, <2>7 DEF ReplayInv, Replays, Grouped
  <2> QED
    BY <2>4, <2>5, <2>6, <2>8, <2>9, <2>10, <2>11, <2>12 DEF WritersInv
<1> QED
  BY <1>9, <1>10 DEF AddRecord, Goto

(* The log is synced, or the sync fails.                                   *)
LEMMA SyncKeeps ==
  ASSUME WritersInv, NEW t \in Threads, Sync(t)
  PROVE  WritersInv'
<1>1. /\ TypeInv /\ CallInv /\ QueueInv /\ GroupInv /\ LeaderInv /\ StoreInv /\ OutcomeInv
      /\ LogInv /\ ReplayInv
  BY DEF WritersInv
<1>2. /\ pc[t] = "sync"
      /\ UNCHANGED <<nth, done, results, writers, group, last_sequence, storeVars, log,
                     imm_log, bg_error>>
  BY DEF Sync
<1>3. \A u \in Threads : pc[u] \in Grouped => u = t
  BY <1>1, <1>2, LeaderIsHead DEF Leading, Grouped
<1>4. Visible' = Visible
  BY <1>2 DEF Visible, AllEntries, storeVars
<1>5. PICK place \in {"insert", "finish"} :
        /\ pc' = [pc EXCEPT ![t] = place]
        /\ place = "insert" => /\ synced' = synced \cup Readable(log)
                               /\ UNCHANGED <<status, sync_error>>
        /\ place = "finish" => /\ sync_error' = TRUE
                               /\ status' = [status EXCEPT ![t] = "error"]
                               /\ synced' = synced
  BY DEF Sync, Goto
<1>6. \A u \in Threads : u # t => pc'[u] = pc[u] /\ status'[u] = status[u]
  BY <1>1, <1>5 DEF TypeInv
<1>7. pc'[t] = place /\ (place = "finish" => status'[t] = "error")
  BY <1>1, <1>5 DEF TypeInv
<1>8. Readable(log) \in SUBSET Entry
  BY <1>1, EntriesOfRecords DEF TypeInv, Readable
<1>9. TypeInv'
  BY <1>1, <1>2, <1>5, <1>8 DEF TypeInv, Places, Leading, storeVars
<1>10. CallInv' /\ QueueInv'
  BY <1>1, <1>2, <1>6, <1>7 DEF CallInv, QueueInv, Leading
<1>11. GroupInv'
  BY <1>1, <1>2, <1>6, <1>7, GroupUntouched DEF TypeInv, Grouped
<1>12. LeaderInv'
  <2>1. group.inserted = 0 /\ group.entries # << >> /\ status[t] = "ok"
    BY <1>1, <1>2 DEF LeaderInv, GroupInv, Grouped
  <2>2. Len(group.entries) \in Nat /\ Len(group.entries) > 0
    BY <1>1, <2>1 DEF TypeInv
  <2>3. ~ sync_error
    BY <1>1, <1>2, <1>3 DEF LeaderInv, Grouped
  <2> QED
    BY <1>2, <1>3, <1>5, <1>6, <1>7, <2>1, <2>2, <2>3 DEF LeaderInv, Grouped
<1>13. StoreInv'
  BY <1>1, <1>2 DEF StoreInv, Inserted, storeVars
<1>14. OutcomeInv'
  BY <1>2, <1>4, <1>6, <1>7, OutcomesUntouched DEF Answered, InWrite
<1>15. LogInv'
  BY <1>1, <1>2, <1>3, <1>6, <1>7 DEF LogInv, Grouped
<1>16. synced \subseteq synced'
  BY <1>5
<1>17. ReplayInv'
  <2>1. Replays(mem, log) /\ \A m \in imm : Replays(m, imm_log)
    BY <1>1 DEF ReplayInv
  <2>2. Replays(mem, log)' /\ \A m \in imm' : Replays(m, imm_log)'
    BY <1>2, <1>16, <2>1 DEF Replays, Whole, Readable, storeVars
  <2>3. ASSUME NEW u \in Threads, pc'[u] = "insert", Whole(log)'
        PROVE  Range(group.entries)' \subseteq synced'
    <3>1. u = t /\ place = "insert"
      BY <2>3, <1>3, <1>6, <1>7 DEF Grouped
    <3>2. Whole(log)
      BY <2>3, <1>2 DEF Whole
    <3>3. log # << >> /\ log[Len(log)].entries = Range(group.entries)
      BY <1>1, <1>2 DEF LogInv
    <3>4. Len(log) \in DOMAIN log
      BY <1>1, <3>3 DEF TypeInv
    <3>5. Range(group.entries) \subseteq Readable(log)
      BY <1>1, <3>2, <3>3, <3>4, ReadableWhole DEF TypeInv
    <3> QED
      BY <1>2, <1>5, <3>1, <3>5
  <2> QED
    BY <2>2, <2>3 DEF ReplayInv
<1> QED
  BY <1>9, <1>10, <1>11, <1>12, <1>13, <1>14, <1>15, <1>17 DEF WritersInv

(* One more entry of the group is inserted into the memtable.              *)
LEMMA InsertKeeps ==
  ASSUME WritersInv, NEW t \in Threads, Insert(t)
  PROVE  WritersInv'
<1> DEFINE n == group.inserted + 1
           e == group.entries[n]
<1>1. /\ TypeInv /\ CallInv /\ QueueInv /\ GroupInv /\ LeaderInv /\ StoreInv /\ OutcomeInv
      /\ LogInv /\ ReplayInv
  BY DEF WritersInv
<1>2. /\ pc[t] = "insert"
      /\ mem' = mem \cup {e}
      /\ group' = [group EXCEPT !.inserted = n]
      /\ IF n = Len(group.entries) THEN pc' = [pc EXCEPT ![t] = "finish"] ELSE pc' = pc
      /\ UNCHANGED <<nth, done, status, results, writers, sync_error, last_sequence, imm,
                     tables, log, imm_log, synced, bg_error>>
  BY DEF Insert, Goto, logVars
<1>3. \A u \in Threads : pc[u] \in Grouped => u = t
  BY <1>1, <1>2, LeaderIsHead DEF Leading, Grouped
<1>4. group.inserted \in Nat /\ Len(group.entries) \in Nat /\ n \in DOMAIN group.entries
  <2>1. group.inserted \in Nat /\ Len(group.entries) \in Nat
        /\ DOMAIN group.entries = 1 .. Len(group.entries)
    BY <1>1 DEF TypeInv
  <2>2. group.inserted < Len(group.entries)
    BY <1>1, <1>2 DEF LeaderInv
  <2> QED
    BY <2>1, <2>2
<1> HIDE DEF n
<1>5. /\ e \in Entry /\ e.seq = last_sequence + n /\ e.op \in Taken
      /\ e \in Range(group.entries) /\ last_sequence \in Nat
  BY <1>1, <1>4 DEF TypeInv, GroupInv, Range
<1> HIDE DEF e
<1>6. \A u \in Threads : u # t => pc'[u] = pc[u]
  BY <1>1, <1>2 DEF TypeInv
<1>7. /\ group'.size = group.size /\ group'.entries = group.entries /\ group'.inserted = n
      /\ group' \in [size : Nat, inserted : Nat, entries : Seq(Entry)]
  <2>1. n \in Nat /\ group \in [size : Nat, inserted : Nat, entries : Seq(Entry)]
    BY <1>1, <1>4 DEF TypeInv, n
  <2> QED
    BY <1>2, <2>1
<1>8. pc'[t] = IF n = Len(group.entries) THEN "finish" ELSE "insert"
  BY <1>1, <1>2 DEF TypeInv
<1>9. TypeInv'
  BY <1>1, <1>2, <1>5, <1>7 DEF TypeInv, Places, Leading
<1>10. CallInv' /\ QueueInv'
  BY <1>1, <1>2, <1>6, <1>8 DEF CallInv, QueueInv, Leading
<1>11. \A u : Op(u)' = Op(u) /\ Current(u)' = Current(u)
  BY <1>2 DEF Op, Current
<1>12. GroupInv'
  <2>1. Taken' = Taken
    BY <1>2, <1>7, <1>11 DEF Taken
  <2>2. \A u \in Threads : pc'[u] \in Grouped \ {"finish"} => pc[u] \in Grouped \ {"finish"}
    BY <1>2, <1>6 DEF Grouped
  <2>3. pc'[t] \in Grouped
    BY <1>8 DEF Grouped
  <2>4. \A f \in Range(group.entries)' :
          {g \in Range(group.entries)' : g.op = f.op} = Atomic!BatchAround(f)'
    BY <1>1, <1>7 DEF GroupInv, Atomic!BatchAround
  <2>5. \A i \in 1 .. group'.size : Current(writers[i])'.sync => Current(Head(writers))'.sync
    BY <1>1, <1>2, <1>7, <1>11 DEF GroupInv, Current, Op
  <2> QED
    BY <1>1, <1>2, <1>7, <2>1, <2>2, <2>3, <2>4, <2>5 DEF GroupInv
<1>13. LeaderInv'
  <2>1. status[t] = "ok" /\ ~ sync_error /\ group.size # 0
    BY <1>1, <1>2, <1>3 DEF LeaderInv, GroupInv, Grouped
  <2>2. n <= Len(group.entries) /\ n \in Nat
    BY <1>4 DEF TypeInv
  <2> QED
    BY <1>2, <1>3, <1>6, <1>7, <1>8, <1>4, <2>1, <2>2 DEF LeaderInv, Grouped
<1>14. Inserted' = Inserted \cup {e}
  <2>1. \A k : k \in 1 .. n <=> k \in 1 .. group.inserted \/ k = n
    BY <1>4 DEF n
  <2> QED
    BY <1>7, <2>1 DEF Inserted, e
<1>15. StoreInv'
  BY <1>1, <1>2, <1>14 DEF StoreInv
<1>16. Visible' = Visible
  <2>1. ~ e.seq <= last_sequence
    BY <1>4, <1>5 DEF n
  <2> QED
    BY <1>2, <2>1 DEF Visible, AllEntries
<1>17. OutcomeInv'
  BY <1>2, <1>6, <1>8, <1>16, OutcomesUntouched DEF Answered, InWrite
<1>18. LogInv'
  BY <1>1, <1>2, <1>3, <1>6, <1>7, <1>8 DEF LogInv, Grouped
<1>19. ReplayInv'
  <2>1. Replays(mem, log) /\ \A m \in imm : Replays(m, imm_log)
    BY <1>1 DEF ReplayInv
  <2>2. \A m \in imm' : Replays(m, imm_log)'
    BY <1>2, <2>1 DEF Replays, Whole, Readable
  <2>3. ASSUME Whole(log)
        PROVE  e \in Readable(log) /\ (BatchAt(e.op).sync => e \in synced)
    <3>1. log # << >> /\ log[Len(log)].entries = Range(group.entries)
      BY <1>1, <1>2 DEF LogInv
    <3>2. Len(log) \in DOMAIN log
      BY <1>1, <3>1 DEF TypeInv
    <3>3. e \in Readable(log)
      BY <1>1, <1>5, <2>3, <3>1, <3>2, ReadableWhole DEF TypeInv
    <3>4. ASSUME BatchAt(e.op).sync PROVE e \in synced
      <4>1. PICK i \in 1 .. group.size : e.op = Op(writers[i])
        BY <1>5 DEF Taken
      <4>2. Current(Head(writers)).sync
        BY <1>1, <3>4, <4>1 DEF GroupInv, Current
      <4>3. Head(writers) = t
        BY <1>1, <1>2, LeaderIsHead DEF Leading
      <4> QED
        BY <1>1, <1>2, <1>5, <2>3, <4>2, <4>3 DEF ReplayInv
    <3> QED
      BY <3>3, <3>4
  <2>4. Replays(mem, log)'
    BY <1>2, <2>1, <2>3 DEF Replays, Whole, Readable
  <2>5. ASSUME NEW u \in Threads, pc'[u] = "insert", Current(u)'.sync, Whole(log)'
        PROVE  Range(group.entries)' \subseteq synced'
    <3>1. u = t
      BY <2>5, <1>3, <1>6 DEF Grouped
    <3>2. Current(t).sync /\ Whole(log)
      BY <2>5, <3>1, <1>2, <1>11 DEF Whole
    <3> QED
      BY <1>1, <1>2, <1>7, <3>2 DEF ReplayInv
  <2> QED
    BY <2>2, <2>4, <2>5 DEF ReplayInv
<1> QED
  BY <1>9, <1>10, <1>12, <1>13, <1>15, <1>17, <1>18, <1>19 DEF WritersInv

(* What Finish does to the queue, and whose writes get an outcome.         *)
LEMMA FinishQueue ==
  ASSUME TypeInv, QueueInv, GroupInv, NEW t \in Threads, pc[t] = "finish", Finish(t)
  PROVE  LET size == IF group.size = 0 THEN 1 ELSE group.size
         IN  /\ size \in 1 .. Len(writers) /\ writers[1] = t
             /\ writers' \in Seq(Threads) /\ Len(writers') = Len(writers) - size
             /\ \A i \in 1 .. Len(writers') : writers'[i] = writers[size + i]
             /\ \A u \in Threads : (\E i \in 2 .. size : u = writers[i]) =>
                  /\ u # t /\ pc[u] = "queued" /\ ~ done[u] /\ pc'[u] = "queued" /\ done'[u]
                  /\ status'[u] = status[t] /\ u \notin Range(writers')
             /\ \A u \in Threads : u # t /\ (\A i \in 2 .. size : u # writers[i]) =>
                  /\ pc'[u] = pc[u] /\ done'[u] = done[u] /\ status'[u] = status[u]
                  /\ u \in Range(writers') <=> u \in Range(writers)
             /\ pc'[t] = "return" /\ status'[t] = status[t] /\ t \notin Range(writers')
<1> DEFINE size == IF group.size = 0 THEN 1 ELSE group.size
           mine == {writers[i] : i \in 2 .. size}
<1>1. /\ writers' = SubSeq(writers, size + 1, Len(writers))
      /\ done' = [u \in Threads |-> done[u] \/ u \in mine]
      /\ status' = [u \in Threads |-> IF u \in mine THEN status[t] ELSE status[u]]
      /\ pc' = [pc EXCEPT ![t] = "return"]
  BY DEF Finish, Goto
<1>2. writers # << >> /\ writers[1] = t
  BY LeaderIsHead DEF Leading
<1>3. writers \in Seq(Threads) /\ Len(writers) \in Nat /\ DOMAIN writers = 1 .. Len(writers)
      /\ Len(writers) > 0
  BY <1>2 DEF TypeInv
<1>4. size \in 1 .. Len(writers)
  BY <1>3 DEF TypeInv, GroupInv
<1> HIDE DEF size
<1>5. /\ writers' \in Seq(Threads) /\ Len(writers') = Len(writers) - size
      /\ \A i \in 1 .. Len(writers') : writers'[i] = writers[size + i]
  <2>1. size + 1 \in Int /\ Len(writers) \in Int
        /\ \A i \in size + 1 .. Len(writers) : writers[i] \in Threads
    BY <1>3, <1>4
  <2>2. /\ writers' \in Seq(Threads)
        /\ Len(writers') = IF size + 1 <= Len(writers) THEN Len(writers) - (size + 1) + 1 ELSE 0
        /\ \A i \in 1 .. Len(writers) - (size + 1) + 1 : writers'[i] = writers[size + 1 + i - 1]
    BY <1>1, <2>1, SubSeqProperties
  <2>3. Len(writers') = Len(writers) - size /\ Len(writers) - (size + 1) + 1 = Len(writers) - size
    <3>1. size \in Nat /\ size <= Len(writers) /\ size >= 1
      BY <1>3, <1>4
    <3>2. \A a, n \in Nat : a <= n =>
            (IF a + 1 <= n THEN n - (a + 1) + 1 ELSE 0) = n - a /\ n - (a + 1) + 1 = n - a
      OBVIOUS
    <3> QED
      BY <2>2, <1>3, <3>1, <3>2
  <2>4. \A i \in 1 .. Len(writers') : i \in Nat /\ size + 1 + i - 1 = size + i
    BY <1>4, <2>3, <1>3
  <2> QED
    BY <2>2, <2>3, <2>4
<1>6. Range(writers') = {writers[i] : i \in size + 1 .. Len(writers)}
  <2>1. DOMAIN writers' = 1 .. Len(writers) - size
    BY <1>5
  <2>2. \A i \in size + 1 .. Len(writers) : i - size \in 1 .. Len(writers) - size
                                            /\ size + (i - size) = i
    BY <1>3, <1>4
  <2>3. \A i \in 1 .. Len(writers) - size : size + i \in size + 1 .. Len(writers)
    BY <1>3, <1>4
  <2> QED
    BY <1>5, <2>1, <2>2, <2>3 DEF Range
<1>7. \A i, j \in 1 .. Len(writers) : writers[i] = writers[j] => i = j
  BY <1>3 DEF QueueInv
<1>8. t \notin Range(writers') /\ t \notin mine
  BY <1>2, <1>3, <1>4, <1>6, <1>7
<1>9. \A u \in mine : u \in Threads /\ u \in Range(writers) /\ u \notin Range(writers')
  BY <1>3, <1>4, <1>6, <1>7 DEF Range
<1>10. \A u \in mine : pc[u] = "queued" /\ ~ done[u]
  BY <1>8, <1>9, LeaderIsHead DEF QueueInv, Leading
<1>11. \A u : u \in Range(writers) <=> u = t \/ u \in mine \/ u \in Range(writers')
  <2>1. \A i : i \in 1 .. Len(writers) <=>
          i = 1 \/ i \in 2 .. size \/ i \in size + 1 .. Len(writers)
    BY <1>3, <1>4
  <2> QED
    BY <1>2, <1>3, <1>6, <2>1 DEF Range
<1>12. pc'[t] = "return" /\ \A u \in Threads : u # t => pc'[u] = pc[u]
  BY <1>1 DEF TypeInv
<1>13. \A u \in Threads : (\E i \in 2 .. size : u = writers[i]) <=> u \in mine
  OBVIOUS
<1> HIDE DEF mine
<1>14. \A u \in Threads : u \in mine => done'[u] /\ status'[u] = status[t]
  BY <1>1
<1>15. \A u \in Threads : u \notin mine => (done'[u] <=> done[u]) /\ status'[u] = status[u]
  BY <1>1
<1>16. \A u \in Threads : u \notin mine => done'[u] = done[u]
  BY <1>1, <1>15 DEF TypeInv
<1> QED
  BY <1>2, <1>4, <1>5, <1>8, <1>9, <1>10, <1>11, <1>12, <1>13, <1>14, <1>15, <1>16 DEF size

(* Finish publishes what is inserted of the group.                         *)
LEMMA FinishPublishes ==
  ASSUME WritersInv, NEW t \in Threads, Finish(t)
  PROVE  /\ Visible' = Visible \cup Inserted
         /\ \A f \in Inserted : f.seq > last_sequence /\ f \in Range(group.entries)
         /\ status[t] = "ok" => Inserted = Range(group.entries)
         /\ status[t] = "error" => Inserted = {}
<1>1. /\ TypeInv /\ GroupInv /\ LeaderInv /\ StoreInv
  BY DEF WritersInv
<1>2. /\ pc[t] = "finish"
      /\ last_sequence' = last_sequence + Len(group.entries)
      /\ UNCHANGED storeVars
  BY DEF Finish
<1>3. /\ Len(group.entries) \in Nat /\ DOMAIN group.entries = 1 .. Len(group.entries)
      /\ group.inserted \in Nat /\ last_sequence \in Nat
  BY <1>1 DEF TypeInv
<1>4. \A f \in Range(group.entries) : f.seq > last_sequence /\ f.seq <= last_sequence'
  BY <1>1, <1>2, <1>3 DEF GroupInv, Range
<1>5. \A f \in Entry : f.seq <= last_sequence => f.seq <= last_sequence'
  BY <1>2, <1>3 DEF Entry
<1>6. Inserted \subseteq Range(group.entries)
  BY <1>1, <1>3 DEF Inserted, Range, LeaderInv
<1>7. status[t] = "ok" => Inserted = Range(group.entries)
  BY <1>1, <1>2, <1>3 DEF Inserted, Range, LeaderInv
<1>8. status[t] = "error" => Inserted = {}
  BY <1>1, <1>2, <1>3 DEF Inserted, LeaderInv
<1>9. mem \subseteq Entry /\ (UNION imm) \subseteq Entry /\ tables \subseteq Entry
       /\ mem' = mem /\ imm' = imm /\ tables' = tables
  BY <1>1, <1>2 DEF TypeInv, storeVars
<1>10. Visible' = Visible \cup Inserted
  <2>1. \A f \in Inserted : f \in mem /\ f.seq <= last_sequence'
    BY <1>1, <1>4, <1>6 DEF StoreInv
  <2>2. \A f \in AllEntries : f \in Entry /\ (f.seq <= last_sequence \/ f \in Inserted)
    <3>1. \A f \in mem : f \in Entry /\ (f.seq <= last_sequence \/ f \in Inserted)
      BY <1>1, <1>9 DEF StoreInv
    <3>2. \A f \in (UNION imm) \cup tables : f \in Entry /\ f.seq <= last_sequence
      <4>1. \A f \in (UNION imm) \cup tables : f.seq <= last_sequence
        BY <1>1 DEF StoreInv
      <4>2. \A f \in (UNION imm) \cup tables : f \in Entry
        BY <1>9
      <4> QED
        BY <4>1, <4>2
    <3>3. AllEntries = mem \cup ((UNION imm) \cup tables)
      BY DEF AllEntries
    <3> QED
      BY <3>1, <3>2, <3>3
  <2>3. AllEntries' = AllEntries
    BY <1>9 DEF AllEntries
  <2> QED
    BY <1>5, <2>1, <2>2, <2>3 DEF Visible, AllEntries
<1> QED
  BY <1>4, <1>6, <1>7, <1>8, <1>10

(* The last critical section publishes the group and answers its writers.  *)
LEMMA FinishKeeps ==
  ASSUME WritersInv, NEW t \in Threads, Finish(t)
  PROVE  WritersInv'
<1> DEFINE size == IF group.size = 0 THEN 1 ELSE group.size
           mine(u) == \E i \in 2 .. size : u = writers[i]
<1>1. /\ TypeInv /\ CallInv /\ QueueInv /\ GroupInv /\ LeaderInv /\ StoreInv /\ OutcomeInv
      /\ LogInv /\ ReplayInv
  BY DEF WritersInv
<1>2. /\ pc[t] = "finish"
      /\ bg_error' = (bg_error \/ sync_error)
      /\ last_sequence' = last_sequence + Len(group.entries)
      /\ group' = [size |-> 0, inserted |-> 0, entries |-> << >>]
      /\ sync_error' = FALSE
      /\ UNCHANGED <<nth, results, storeVars, logVars>>
  BY DEF Finish
<1>3. \A u \in Threads : pc[u] \in Grouped => u = t
  BY <1>1, <1>2, LeaderIsHead DEF Leading, Grouped
<1>4. /\ size \in 1 .. Len(writers) /\ writers[1] = t
      /\ writers' \in Seq(Threads) /\ Len(writers') = Len(writers) - size
      /\ \A i \in 1 .. Len(writers') : writers'[i] = writers[size + i]
  BY <1>1, <1>2, FinishQueue
<1>5. \A u \in Threads : mine(u) =>
        /\ u # t /\ pc[u] = "queued" /\ ~ done[u] /\ pc'[u] = "queued" /\ done'[u]
        /\ status'[u] = status[t] /\ u \notin Range(writers')
  BY <1>1, <1>2, FinishQueue
<1>6. \A u \in Threads : u # t /\ ~ mine(u) =>
        /\ pc'[u] = pc[u] /\ done'[u] = done[u] /\ status'[u] = status[u]
        /\ u \in Range(writers') <=> u \in Range(writers)
  <2>1. \A u \in Threads : u # t /\ (\A i \in 2 .. size : u # writers[i]) =>
          /\ pc'[u] = pc[u] /\ done'[u] = done[u] /\ status'[u] = status[u]
          /\ u \in Range(writers') <=> u \in Range(writers)
    BY <1>1, <1>2, FinishQueue
  <2> QED
    BY <2>1
<1>7. pc'[t] = "return" /\ status'[t] = status[t] /\ t \notin Range(writers')
  BY <1>1, <1>2, FinishQueue
<1>8. /\ group'.size = 0 /\ group'.inserted = 0 /\ group'.entries = << >>
      /\ Range(group.entries)' = {} /\ Inserted' = {} /\ Taken' = {}
  BY <1>2 DEF Range, Inserted, Taken
<1>9. \A u \in Threads : pc'[u] \notin Grouped
  BY <1>3, <1>5, <1>6, <1>7 DEF Grouped
<1>10. /\ Len(group.entries) \in Nat /\ DOMAIN group.entries = 1 .. Len(group.entries)
       /\ group.inserted \in Nat /\ last_sequence \in Nat
       /\ Range(group.entries) \subseteq Entry
  BY <1>1 DEF TypeInv, Range
<1>11. \A f \in Range(group.entries) : /\ f.seq > last_sequence
                                       /\ f.seq <= last_sequence' /\ f.op \in Taken
  BY <1>1, <1>2, <1>10 DEF GroupInv, Range
<1>12. \A f \in Entry : f.seq <= last_sequence => f.seq <= last_sequence'
  BY <1>2, <1>10 DEF Entry
<1>13. Inserted \subseteq Range(group.entries)
  BY <1>1, <1>10 DEF Inserted, Range, LeaderInv
<1>14. status[t] = "ok" => Inserted = Range(group.entries)
  BY <1>1, <1>2, <1>10 DEF Inserted, Range, LeaderInv
<1>15. status[t] = "error" => Inserted = {}
  BY <1>1, <1>2, <1>10 DEF Inserted, LeaderInv
<1>16. status[t] \in {"ok", "error"}
  BY <1>1 DEF TypeInv
<1>17. TypeInv'
  <2>1. done' \in [Threads -> BOOLEAN] /\ status' \in [Threads -> {"ok", "error"}]
        /\ pc' \in [Threads -> Places]
    BY <1>1 DEF Finish, Goto, TypeInv, Places, Leading
  <2>2. group' \in [size : Nat, inserted : Nat, entries : Seq(Entry)]
    BY <1>2
  <2>3. last_sequence' \in Nat
    BY <1>2, <1>10
  <2>4. bg_error' \in BOOLEAN /\ sync_error' \in BOOLEAN
    BY <1>2
  <2> QED
    BY <1>1, <1>2, <1>4, <2>1, <2>2, <2>3, <2>4 DEF TypeInv, storeVars, logVars
<1>18. CallInv'
  <2>1. \A u \in Threads : pc'[u] # "idle" => pc[u] # "idle"
    BY <1>2, <1>5, <1>6
  <2> QED
    BY <1>1, <1>2, <2>1 DEF CallInv
<1>19. QueueInv'
  <2>1. \A i, j \in DOMAIN writers' : writers'[i] = writers'[j] => i = j
    <3>1. Len(writers) \in Nat /\ DOMAIN writers = 1 .. Len(writers)
          /\ DOMAIN writers' = 1 .. Len(writers')
      BY <1>1, <1>4 DEF TypeInv
    <3>2. \A i \in DOMAIN writers' : i \in Nat /\ size + i \in DOMAIN writers
      <4> HIDE DEF size
      <4>1. size \in Nat /\ size <= Len(writers)
        BY <3>1, <1>4
      <4> QED
        BY <3>1, <1>4, <4>1
    <3> HIDE DEF size
    <3>3. \A i \in DOMAIN writers' : writers'[i] = writers[size + i]
      BY <3>1, <1>4
    <3>4. ASSUME NEW i \in DOMAIN writers', NEW j \in DOMAIN writers', writers'[i] = writers'[j]
          PROVE  i = j
      <4>1. size + i = size + j
        BY <1>1, <3>2, <3>3, <3>4 DEF QueueInv
      <4> QED
        BY <1>4, <3>1, <3>2, <4>1
    <3> QED
      BY <3>4
  <2>2. \A u \in Threads :
          /\ u \in Range(writers') <=> (pc'[u] \in Leading \/ (pc'[u] = "queued" /\ ~ done'[u]))
          /\ pc'[u] \notin Leading
    <3> SUFFICES ASSUME NEW u \in Threads
                 PROVE  /\ u \in Range(writers') <=>
                             (pc'[u] \in Leading \/ (pc'[u] = "queued" /\ ~ done'[u]))
                        /\ pc'[u] \notin Leading
      OBVIOUS
    <3>1. CASE u = t
      BY <1>7, <3>1 DEF Leading
    <3>2. CASE mine(u)
      BY <1>5, <3>2 DEF Leading
    <3>3. CASE u # t /\ ~ mine(u)
      <4>1. pc[u] \notin Leading
        BY <1>1, <1>2, <3>3, LeaderIsHead DEF Leading
      <4> QED
        BY <1>1, <1>6, <3>3, <4>1 DEF QueueInv
    <3> QED
      BY <3>1, <3>2, <3>3
  <2> QED
    BY <2>1, <2>2 DEF QueueInv
<1>20. GroupInv'
  <2>1. Len(writers') \in Nat
    BY <1>4
  <2>2. 1 .. group'.size = {} /\ DOMAIN group'.entries = {}
    BY <1>8
  <2> QED
    BY <1>8, <1>9, <2>1, <2>2 DEF GroupInv
<1>21. LeaderInv'
  BY <1>2, <1>8, <1>9 DEF LeaderInv, Grouped
<1>22. mem \subseteq Entry /\ (UNION imm) \subseteq Entry /\ tables \subseteq Entry
       /\ mem' = mem /\ imm' = imm /\ tables' = tables
       /\ log' = log /\ imm_log' = imm_log /\ synced' = synced
  BY <1>1, <1>2 DEF TypeInv, storeVars, logVars
<1>23. StoreInv'
  <2>1. \A f \in mem : f.seq <= last_sequence'
    BY <1>1, <1>11, <1>12, <1>13, <1>22 DEF StoreInv
  <2>2. \A f \in (UNION imm) \cup tables : f.seq <= last_sequence'
    <3>1. \A f \in (UNION imm) \cup tables : f \in Entry /\ f.seq <= last_sequence
      <4>1. \A f \in (UNION imm) \cup tables : f.seq <= last_sequence
        BY <1>1 DEF StoreInv
      <4>2. \A f \in (UNION imm) \cup tables : f \in Entry
        BY <1>22
      <4> QED
        BY <4>1, <4>2
    <3> QED
      BY <1>12, <3>1
  <2> QED
    BY <1>8, <1>22, <2>1, <2>2 DEF StoreInv
<1>24. Visible' = Visible \cup Inserted
  BY FinishPublishes
<1>25. \A op, s : Outcome(op, s)' <=>
         Outcome(op, s) \/ (s = status[t] /\ \E i \in 1 .. size : op = Op(writers[i]))
  <2> SUFFICES ASSUME NEW op, NEW s
               PROVE  Outcome(op, s)' <=>
                        Outcome(op, s) \/ (s = status[t] /\ \E i \in 1 .. size : op = Op(writers[i]))
    OBVIOUS
  <2> DEFINE has(u) == op = Op(u) /\ status[u] = s /\ Answered(u)
             gets(u) == op = Op(u) /\ s = status[t] /\ (u = t \/ mine(u))
  <2>1. Outcome(op, s) <=> op \in results[s] \/ \E u \in Threads : has(u)
    BY DEF Outcome, Answered
  <2>2. Outcome(op, s)' <=> op \in results[s] \/ \E u \in Threads : has(u)'
    BY <1>2 DEF Outcome, Answered
  <2>3. ASSUME NEW u \in Threads PROVE has(u)' <=> has(u) \/ gets(u)
    <3>1. Op(u)' = Op(u)
      BY <1>2 DEF Op
    <3>2. CASE u = t
      <4>1. Answered(u)' /\ ~ Answered(u) /\ status'[u] = status[t]
        BY <1>2, <1>7, <3>2 DEF Answered
      <4> QED
        BY <3>1, <3>2, <4>1
    <3>3. CASE mine(u)
      <4>1. Answered(u)' /\ ~ Answered(u) /\ status'[u] = status[t]
        BY <1>5, <3>3 DEF Answered
      <4> QED
        BY <3>1, <3>3, <4>1
    <3>4. CASE u # t /\ ~ mine(u)
      <4>1. (Answered(u)' <=> Answered(u)) /\ status'[u] = status[u]
        BY <1>6, <3>4 DEF Answered
      <4> QED
        BY <3>1, <3>4, <4>1
    <3> QED
      BY <3>2, <3>3, <3>4
  <2>4. (\E u \in Threads : gets(u)) <=> s = status[t] /\ \E i \in 1 .. size : op = Op(writers[i])
    <3>1. \A i \in 1 .. size : writers[i] \in Threads
      BY <1>1, <1>4 DEF TypeInv
    <3>2. size \in Nat /\ size >= 1
      BY <1>1, <1>4 DEF TypeInv
    <3>3. \A i : i \in 1 .. size <=> i = 1 \/ i \in 2 .. size
      BY <3>2
    <3> HIDE DEF size
    <3> QED
      BY <1>4, <3>1, <3>3
  <2> HIDE DEF has, gets
  <2> QED
    BY <2>1, <2>2, <2>3, <2>4
<1>26. (\E i \in 1 .. size : Op(writers[i]) \notin Taken) => group.size = 0
  BY DEF Taken
<1>27. OutcomeInv'
  <2>1. \A s \in {"ok", "error"} : \A op \in results'[s] :
          op[2] <= nth'[op[1]] /\ (op[1] \in InWrite' => op[2] < nth'[op[1]])
    <3>1. \A u : u \in InWrite' => u \in InWrite
      BY <1>2, <1>5, <1>6 DEF InWrite
    <3> QED
      BY <1>1, <1>2, <3>1 DEF OutcomeInv
  <2>2. \A e \in Visible' : Outcome(e.op, "ok")'
    <3> SUFFICES ASSUME NEW e \in Visible' PROVE Outcome(e.op, "ok")'
      OBVIOUS
    <3>1. CASE e \in Visible
      BY <1>1, <1>25, <3>1 DEF OutcomeInv
    <3>2. CASE e \in Inserted
      <4>1. status[t] = "ok" /\ e.op \in Taken /\ group.size # 0
        BY <1>11, <1>13, <1>15, <1>16, <3>2 DEF Taken
      <4>2. \E i \in 1 .. size : e.op = Op(writers[i])
        BY <4>1 DEF Taken
      <4> QED
        BY <1>25, <4>1, <4>2
    <3> QED
      BY <1>24, <3>1, <3>2
  <2>3. ASSUME NEW u \in Threads, NEW i \in 1 .. Len(Batch[u]),
               Outcome(<<u, i>>, "ok")', Batch[u][i].count > 0
        PROVE  \E e \in Visible' : e.op = <<u, i>>
    <3>1. CASE Outcome(<<u, i>>, "ok")
      BY <1>1, <1>24, <2>3, <3>1 DEF OutcomeInv
    <3>2. CASE status[t] = "ok" /\ \E j \in 1 .. size : <<u, i>> = Op(writers[j])
      <4>1. BatchAt(<<u, i>>).count > 0
        BY <2>3 DEF BatchAt
      <4>2. CASE group.size = 0
        <5>1. <<u, i>> = Op(t) /\ Current(t).count = 0
          BY <1>1, <1>2, <1>4, <3>2, <4>2 DEF LeaderInv
        <5> QED
          BY <4>1, <5>1 DEF Current
      <4>3. CASE group.size # 0
        <5>1. <<u, i>> \in Taken
          BY <3>2, <4>3 DEF Taken
        <5>2. \E e \in Range(group.entries) : e.op = <<u, i>>
          BY <1>1, <4>1, <5>1 DEF GroupInv
        <5> QED
          BY <1>14, <1>24, <3>2, <5>2
      <4> QED
        BY <4>2, <4>3
    <3> QED
      BY <1>25, <2>3, <3>1, <3>2
  <2> QED
    BY <2>1, <2>2, <2>3 DEF OutcomeInv
<1>28. \A i \in DOMAIN log : log[i].entries \in SUBSET Entry
  BY <1>1, EntriesOfRecords DEF TypeInv
<1>29. LogInv'
  <2>1. \A i \in DOMAIN log : \A e \in log[i].entries : e.seq <= last_sequence'
    BY <1>1, <1>11, <1>12, <1>28 DEF LogInv
  <2>2. \A i \in DOMAIN imm_log : \A e \in imm_log[i].entries : e.seq <= last_sequence'
    <3>1. \A i \in DOMAIN imm_log : imm_log[i].entries \in SUBSET Entry
      BY <1>1, EntriesOfRecords DEF TypeInv
    <3> QED
      BY <1>1, <1>12, <3>1 DEF LogInv
  <2> QED
    BY <1>1, <1>9, <1>22, <2>1, <2>2 DEF LogInv, Grouped
<1>30. ReplayInv'
  <2>1. Replays(mem, log) /\ \A m \in imm : Replays(m, imm_log)
    BY <1>1 DEF ReplayInv
  <2>2. ASSUME Whole(log), ~ bg_error', NEW e \in Readable(log), e.seq <= last_sequence'
        PROVE  e \in mem
    <3>1. PICK i \in DOMAIN log : e \in log[i].entries
      BY <2>2 DEF Readable
    <3>2. CASE e.seq <= last_sequence
      BY <1>2, <2>1, <2>2, <3>2 DEF Replays
    <3>3. CASE e \in Range(group.entries)
      <4>1. group.entries # << >>
        BY <3>3 DEF Range
      <4>2. status[t] = "ok"
        BY <1>1, <1>2, <1>16, <2>2, <4>1 DEF LeaderInv
      <4> QED
        BY <1>1, <1>14, <3>3, <4>2 DEF StoreInv
    <3> QED
      BY <1>1, <3>1, <3>2, <3>3 DEF LogInv
  <2>3. Replays(mem, log)'
    BY <1>22, <2>1, <2>2 DEF Replays, Whole, Readable
  <2>4. ASSUME NEW m \in imm PROVE Replays(m, imm_log)'
    <3>1. \A e \in Readable(imm_log) : e.seq <= last_sequence
      BY <1>1 DEF LogInv, Readable
    <3> QED
      <4>1. ~ bg_error' => ~ bg_error
        BY <1>2
      <4>2. Whole(imm_log)' = Whole(imm_log) /\ Readable(imm_log)' = Readable(imm_log)
        BY <1>22 DEF Whole, Readable
      <4> QED
        BY <1>22, <2>1, <3>1, <4>1, <4>2 DEF Replays
  <2> QED
    BY <1>9, <1>22, <2>3, <2>4 DEF ReplayInv, Grouped
<1> QED
  BY <1>17, <1>18, <1>19, <1>20, <1>21, <1>23, <1>27, <1>29, <1>30 DEF WritersInv

(* A writer returns with its status.                                       *)
LEMMA ReturnKeeps ==
  ASSUME WritersInv, NEW t \in Threads, Return(t)
  PROVE  WritersInv'
<1>1. /\ TypeInv /\ CallInv /\ QueueInv /\ OutcomeInv
  BY DEF WritersInv
<1>2. PICK place \in {"check", "idle"} :
        /\ pc[t] = "return" /\ pc' = [pc EXCEPT ![t] = place]
        /\ results' = [results EXCEPT ![status[t]] = @ \cup {Op(t)}]
        /\ UNCHANGED <<nth, done, status, writers, group, sync_error, last_sequence, storeVars,
                       logVars, bg_error>>
  BY DEF Return, Goto
<1>3. pc'[t] = place /\ \A u \in Threads : u # t => pc'[u] = pc[u]
  BY <1>1, <1>2 DEF TypeInv
<1>4. status[t] \in {"ok", "error"} /\ Op(t) \in Writes
  BY <1>1 DEF TypeInv, Op, Writes
<1>5. \A s \in {"ok", "error"} : results'[s] =
        IF s = status[t] THEN results[s] \cup {Op(t)} ELSE results[s]
  BY <1>1, <1>2 DEF TypeInv
<1>6. TypeInv'
  <2>1. results' \in [{"ok", "error"} -> SUBSET Writes]
    BY <1>1, <1>2, <1>4 DEF TypeInv
  <2> QED
    BY <1>1, <1>2, <2>1 DEF TypeInv, Places, Leading, storeVars, logVars
<1>7. CallInv' /\ QueueInv'
  BY <1>1, <1>2, <1>3 DEF CallInv, QueueInv, Leading
<1>8. GroupInv'
  BY <1>1, <1>2, <1>3, GroupUntouched DEF TypeInv, Grouped
<1>9. LeaderInv'
  BY <1>2, <1>3, LeaderUntouched DEF Grouped, logVars
<1>10. StoreInv' /\ LogInv' /\ ReplayInv'
  BY <1>2, <1>3, DataUntouched DEF Grouped
<1>11. Visible' = Visible
  BY <1>2 DEF Visible, AllEntries, storeVars
<1>12. \A s \in {"ok", "error"} : \A op : Outcome(op, s)' <=> Outcome(op, s)
  <2> SUFFICES ASSUME NEW s \in {"ok", "error"}, NEW op
               PROVE  Outcome(op, s)' <=> Outcome(op, s)
    OBVIOUS
  <2> DEFINE has(u) == op = Op(u) /\ status[u] = s /\ Answered(u)
  <2>1. Outcome(op, s) <=> op \in results[s] \/ \E u \in Threads : has(u)
    BY DEF Outcome, Answered
  <2>2. Outcome(op, s)' <=> op \in results'[s] \/ \E u \in Threads : has(u)'
    BY DEF Outcome, Answered
  <2>3. \A u \in Threads : u # t => (has(u)' <=> has(u))
    BY <1>2, <1>3 DEF Op, Answered
  <2>4. ~ has(t)' /\ (has(t) <=> op = Op(t) /\ status[t] = s)
    BY <1>2, <1>3 DEF Answered
  <2>5. op \in results'[s] <=> op \in results[s] \/ (op = Op(t) /\ status[t] = s)
    BY <1>5
  <2> HIDE DEF has
  <2> QED
    BY <2>1, <2>2, <2>3, <2>4, <2>5
<1>13. OutcomeInv'
  <2>1. ASSUME NEW s \in {"ok", "error"}, NEW op \in results'[s]
        PROVE  op[2] <= nth'[op[1]] /\ (op[1] \in InWrite' => op[2] < nth'[op[1]])
    <3>1. \A u : u \in InWrite' => u \in InWrite /\ u # t
      BY <1>2, <1>3 DEF InWrite
    <3>2. CASE op \in results[s]
      BY <1>1, <1>2, <3>1, <3>2 DEF OutcomeInv
    <3>3. CASE op = Op(t)
      BY <1>1, <1>2, <3>1, <3>3 DEF Op, TypeInv
    <3> QED
      BY <1>5, <3>2, <3>3
  <2>2. \A e \in Visible' : Outcome(e.op, "ok")'
    BY <1>1, <1>11, <1>12 DEF OutcomeInv
  <2>3. \A u \in Threads : \A i \in 1 .. Len(Batch[u]) :
          Outcome(<<u, i>>, "ok")' /\ Batch[u][i].count > 0 => \E e \in Visible' : e.op = <<u, i>>
    <3> SUFFICES ASSUME NEW u \in Threads, NEW i \in 1 .. Len(Batch[u]),
                        Outcome(<<u, i>>, "ok")', Batch[u][i].count > 0
                 PROVE  \E e \in Visible' : e.op = <<u, i>>
      OBVIOUS
    <3>1. Outcome(<<u, i>>, "ok")
      BY <1>12
    <3> QED
      BY <1>1, <1>11, <3>1 DEF OutcomeInv
  <2> QED
    BY <2>1, <2>2, <2>3 DEF OutcomeInv
<1> QED
  BY <1>6, <1>7, <1>8, <1>9, <1>10, <1>13 DEF WritersInv

(* The wait of TEST_CompactMemTable.                                       *)
LEMMA MemTableWaitKeeps ==
  ASSUME WritersInv, NEW t \in Threads, MemTableWait(t)
  PROVE  WritersInv'
<1>1. /\ TypeInv /\ CallInv /\ QueueInv
  BY DEF WritersInv
<1>2. PICK place \in {"memtable", "idle"} :
        /\ pc[t] \in {"check", "memtable"} /\ pc' = [pc EXCEPT ![t] = place]
        /\ UNCHANGED <<nth, done, status, results, writers, group, sync_error, last_sequence,
                       storeVars, logVars, bg_error>>
  BY DEF MemTableWait, Goto
<1>3. pc'[t] = place /\ \A u \in Threads : u # t => pc'[u] = pc[u]
  BY <1>1, <1>2 DEF TypeInv
<1>4. TypeInv'
  BY <1>1, <1>2 DEF TypeInv, Places, Leading, storeVars, logVars
<1>5. CallInv' /\ QueueInv'
  BY <1>1, <1>2, <1>3 DEF CallInv, QueueInv, Leading
<1>6. GroupInv'
  BY <1>1, <1>2, <1>3, GroupUntouched DEF TypeInv, Grouped
<1>7. LeaderInv'
  BY <1>2, <1>3, LeaderUntouched DEF Grouped, logVars
<1>8. StoreInv' /\ LogInv' /\ ReplayInv'
  BY <1>2, <1>3, DataUntouched DEF Grouped
<1>9. Visible' = Visible
  BY <1>2 DEF Visible, AllEntries, storeVars
<1>10. OutcomeInv'
  BY <1>2, <1>3, <1>9, OutcomesUntouched DEF Answered, InWrite
<1> QED
  BY <1>4, <1>5, <1>6, <1>7, <1>8, <1>10 DEF WritersInv

(* What the background thread leaves alone.                                *)
LEMMA BackgroundLeaves ==
  ASSUME WritersInv, BackgroundUnchanged, bg_error => bg_error', bg_error' \in BOOLEAN
  PROVE  /\ CallInv' /\ QueueInv' /\ GroupInv' /\ LeaderInv'
         /\ UNCHANGED <<imm, tables, imm_log>> => WritersInv'
<1>1. /\ TypeInv /\ CallInv /\ QueueInv
  BY DEF WritersInv
<1>2. UNCHANGED <<pc, nth, done, status, results, writers, group, sync_error, last_sequence,
                  mem, log, synced>>
  BY DEF BackgroundUnchanged
<1>3. CallInv' /\ QueueInv'
  BY <1>1, <1>2 DEF CallInv, QueueInv
<1>4. GroupInv'
  BY <1>1, <1>2, GroupUntouched DEF TypeInv
<1>5. LeaderInv'
  BY <1>2, LeaderUntouched
<1>6. ASSUME UNCHANGED <<imm, tables, imm_log>> PROVE WritersInv'
  <2>1. TypeInv'
    BY <1>1, <1>2, <1>6 DEF TypeInv
  <2>2. StoreInv' /\ LogInv' /\ ReplayInv'
    BY <1>2, <1>6, DataUntouched DEF storeVars, logVars
  <2>3. Visible' = Visible
    BY <1>2, <1>6 DEF Visible, AllEntries
  <2>4. OutcomeInv'
    BY <1>2, <2>3, OutcomesUntouched DEF Answered, InWrite
  <2> QED
    BY <1>3, <1>4, <1>5, <2>1, <2>2, <2>4 DEF WritersInv
<1> QED
  BY <1>3, <1>4, <1>5, <1>6

(* A flush moves entries; readers see the same.                            *)
LEMMA FlushKeeps ==
  ASSUME WritersInv, BackgroundFlush
  PROVE  WritersInv'
<1>1. /\ TypeInv /\ StoreInv /\ LogInv /\ ReplayInv
  BY DEF WritersInv
<1>2. /\ BackgroundUnchanged /\ bg_error' = bg_error
      /\ tables' = tables \cup (UNION imm) /\ imm' = {} /\ imm_log' = << >>
  BY DEF BackgroundFlush
<1>3. UNCHANGED <<pc, nth, done, status, results, writers, group, sync_error, last_sequence,
                  mem, log, synced>>
  BY <1>2 DEF BackgroundUnchanged
<1>4. CallInv' /\ QueueInv' /\ GroupInv' /\ LeaderInv'
  BY <1>1, <1>2, BackgroundLeaves DEF TypeInv
<1>5. TypeInv'
  BY <1>1, <1>2, <1>3 DEF TypeInv
<1> DEFINE flushed == (UNION imm)
<1>6. (UNION imm)' = {} /\ tables' = tables \cup flushed /\ DOMAIN imm_log' = {}
  BY <1>2
<1>7. AllEntries = mem \cup flushed \cup tables /\ AllEntries' = mem \cup {} \cup tables'
  BY <1>3, <1>6 DEF AllEntries
<1>8. \A e \in flushed \cup tables : e.seq <= last_sequence
  BY <1>1 DEF StoreInv
<1> HIDE DEF flushed
<1>9. StoreInv'
  <2>1. Inserted' = Inserted
    BY <1>3 DEF Inserted
  <2>2. \A e \in (UNION imm)' \cup tables' : e.seq <= last_sequence'
    BY <1>3, <1>6, <1>8
  <2> QED
    BY <1>1, <1>3, <2>1, <2>2 DEF StoreInv
<1>10. OutcomeInv'
  <2>1. AllEntries' = AllEntries
    BY <1>6, <1>7
  <2>2. Visible' = Visible
    BY <1>3, <2>1 DEF Visible
  <2> QED
    BY <1>3, <2>2, OutcomesUntouched DEF Answered, InWrite
<1>11. LogInv'
  BY <1>1, <1>3, <1>6 DEF LogInv
<1>12. ReplayInv'
  BY <1>1, <1>2, <1>3 DEF ReplayInv, Replays, Whole, Readable, Current, Op
<1> QED
  BY <1>4, <1>5, <1>9, <1>10, <1>11, <1>12 DEF WritersInv

(* The background thread.                                                  *)
LEMMA BackgroundKeeps ==
  ASSUME WritersInv, Background
  PROVE  WritersInv'
<1>1. bg_error \in BOOLEAN
  BY DEF WritersInv, TypeInv
<1>2. CASE BackgroundFlush
  BY <1>2, FlushKeeps
<1>3. CASE BackgroundCompacts
  BY <1>1, <1>3, BackgroundLeaves DEF BackgroundCompacts
<1>4. CASE BackgroundCompacted
  BY <1>1, <1>4, BackgroundLeaves DEF BackgroundCompacted
<1>5. CASE BackgroundFails
  BY <1>1, <1>5, BackgroundLeaves DEF BackgroundFails
<1>6. CASE BackgroundStops
  <2>1. bg_error' = (bg_error \/ busy)
    BY <1>6 DEF BackgroundStops
  <2>2. bg_error' \in BOOLEAN
    BY <2>1
  <2> QED
    BY <1>6, <2>1, <2>2, BackgroundLeaves DEF BackgroundStops
<1> QED
  BY <1>2, <1>3, <1>4, <1>5, <1>6 DEF Background

(* Steps that touch nothing the invariant is about.                        *)
LEMMA NothingKeeps ==
  ASSUME WritersInv,
         UNCHANGED <<pc, nth, done, status, results, writers, group, sync_error, last_sequence,
                     storeVars, logVars, bg_error>>
  PROVE  WritersInv'
<1>1. /\ TypeInv /\ CallInv /\ QueueInv
  BY DEF WritersInv
<1>2. TypeInv'
  BY <1>1 DEF TypeInv, storeVars, logVars
<1>3. CallInv' /\ QueueInv'
  BY <1>1 DEF CallInv, QueueInv
<1>4. GroupInv'
  BY <1>1, GroupUntouched DEF TypeInv
<1>5. LeaderInv'
  BY LeaderUntouched DEF logVars
<1>6. StoreInv' /\ LogInv' /\ ReplayInv'
  BY DataUntouched
<1>7. Visible' = Visible
  BY DEF Visible, AllEntries, storeVars
<1>8. OutcomeInv'
  BY <1>7, OutcomesUntouched DEF Answered, InWrite
<1> QED
  BY <1>2, <1>3, <1>4, <1>5, <1>6, <1>8 DEF WritersInv

(* The database as it is opened empty.                                     *)
LEMMA InitHolds == Init => WritersInv
<1> SUFFICES ASSUME Init PROVE WritersInv
  OBVIOUS
<1>1. TypeInv
  <2>1. /\ pc \in [Threads -> Places] /\ nth \in [Threads -> Nat]
        /\ done \in [Threads -> BOOLEAN] /\ status \in [Threads -> {"ok", "error"}]
        /\ results \in [{"ok", "error"} -> SUBSET Writes]
    BY DEF Init, Places
  <2>2. /\ writers \in Seq(Threads) /\ log \in Seq(Record) /\ imm_log \in Seq(Record)
        /\ group \in [size : Nat, inserted : Nat, entries : Seq(Entry)]
    BY DEF Init
  <2> QED
    BY <2>1, <2>2 DEF Init, TypeInv
<1>2. CallInv
  BY WritersAssumption DEF Init, CallInv
<1>3. QueueInv
  BY DEF Init, QueueInv, Leading, Range
<1>4. GroupInv
  BY DEF Init, GroupInv, Range, Taken, Grouped
<1>5. LeaderInv
  BY DEF Init, LeaderInv, Grouped
<1>6. Visible = {} /\ Inserted = {}
  BY DEF Init, Visible, AllEntries, Inserted
<1>7. StoreInv
  BY <1>6 DEF Init, StoreInv
<1>8. OutcomeInv
  BY <1>6 DEF Init, OutcomeInv, Outcome
<1>9. LogInv
  BY DEF Init, LogInv
<1>10. ReplayInv
  BY DEF Init, ReplayInv, Replays, Readable
<1> QED
  BY <1>1, <1>2, <1>3, <1>4, <1>5, <1>7, <1>8, <1>9, <1>10 DEF WritersInv

(* WritersInv is inductive.                                                *)
LEMMA NextKeeps == WritersInv /\ [Next]_vars => WritersInv'
<1> SUFFICES ASSUME WritersInv, [Next]_vars PROVE WritersInv'
  OBVIOUS
<1>1. ASSUME NEW t \in Threads, Call(t) \/ Thread(t) PROVE WritersInv'
  BY <1>1, CallKeeps, WakeKeeps, MakeRoomForWriteKeeps, RoomAgainKeeps, BuildKeeps,
     AddRecordKeeps, SyncKeeps, InsertKeeps, FinishKeeps, ReturnKeeps, MemTableWaitKeeps
     DEF Thread
<1>2. CASE Background
  BY <1>2, BackgroundKeeps
<1>3. CASE Close
  BY <1>3, NothingKeeps DEF Close, threadVars
<1>4. CASE UNCHANGED vars
  BY <1>4, NothingKeeps DEF vars, threadVars
<1> QED
  BY <1>1, <1>2, <1>3, <1>4 DEF Next


-----------------------------------------------------------------------------
(* The properties.                                                         *)

(* WritersInv is an invariant of DBImpl::Write.                            *)
LEMMA InvHolds == Spec => []WritersInv
<1>1. Spec => Init /\ [][Next]_vars
  BY PTL DEF Spec
<1> QED
  BY <1>1, InitHolds, NextKeeps, PTL

(* The queue of DBImpl::Write always holds the writers nobody has answered *)
(* yet, once each, and only its head works, whatever the batches, however  *)
(* many the threads.                                                       *)
THEOREM QueueIsRight == Spec => []WritersTypeOK
<1>1. WritersInv => WritersTypeOK
  <2> SUFFICES ASSUME WritersInv PROVE WritersTypeOK
    OBVIOUS
  <2>1. TypeInv /\ QueueInv /\ GroupInv
    BY DEF WritersInv
  <2>2. ASSUME NEW t \in Threads
        PROVE  /\ pc[t] \notin {"idle", "queued", "return", "check", "memtable"} =>
                    Head(writers) = t
               /\ pc[t] = "queued" => (done[t] <=> t \notin Range(writers))
    <3>1. pc[t] \in Places
      BY <2>1 DEF TypeInv
    <3> QED
      BY <2>1, <3>1 DEF QueueInv, Places, Leading
  <2> QED
    BY <2>1, <2>2 DEF WritersTypeOK, QueueInv, GroupInv
<1> QED
  BY <1>1, InvHolds, PTL

(* A write with the sync option that returned OK is in the part of the log *)
(* that Sync covered, or in a table.                                       *)
THEOREM SyncIsKept == Spec => []SyncedSurvives
<1>1. WritersInv => SyncedSurvives
  <2> SUFFICES ASSUME WritersInv PROVE SyncedSurvives
    OBVIOUS
  <2>1. Replays(mem, log) /\ \A m \in imm : Replays(m, imm_log)
    BY DEF WritersInv, ReplayInv
  <2> QED
    BY <2>1 DEF SyncedSurvives, Replays
<1> QED
  BY <1>1, InvHolds, PTL

(* The log of a memtable replays to that memtable.                         *)
THEOREM LogIsRight == Spec => []LogReplays
<1>1. WritersInv => LogReplays
  <2> SUFFICES ASSUME WritersInv PROVE LogReplays
    OBVIOUS
  <2>1. LogInv /\ Replays(mem, log) /\ \A m \in imm : Replays(m, imm_log)
    BY DEF WritersInv, ReplayInv
  <2> QED
    BY <2>1 DEF LogReplays, LogInv, Replays
<1> QED
  BY <1>1, InvHolds, PTL

-----------------------------------------------------------------------------
(* The refinement of AtomicWrites, one lemma per step that is not a        *)
(* stutter.                                                                *)

WriteOps == UNION {{t} \X DOMAIN Batch[t] : t \in Threads}
Called == {Op(t) : t \in InWrite}

(* What a step of AtomicWrites may change.                                 *)
AtomicVars == <<Called, Visible, results["ok"], results["error"]>>

(* A write under way is one that has not returned.                         *)
LEMMA UnderWay ==
  ASSUME WritersInv, NEW t \in InWrite, NEW s \in {"ok", "error"}
  PROVE  Op(t) \notin results[s]
<1>1. t \in Threads /\ nth[t] \in Nat
  BY DEF WritersInv, TypeInv, InWrite
<1>2. Op(t)[1] = t /\ Op(t)[2] = nth[t]
  BY DEF Op
<1> QED
  BY <1>1, <1>2 DEF WritersInv, OutcomeInv

(* Entering Write is the call.                                             *)
LEMMA CallIsCall ==
  ASSUME WritersInv, NEW t \in Threads, Call(t)
  PROVE  \E op \in WriteOps : Atomic!Call(op)
<1> DEFINE op == <<t, nth[t] + 1>>
<1>1. TypeInv /\ CallInv /\ OutcomeInv
  BY DEF WritersInv
<1>2. /\ pc[t] = "idle" /\ nth[t] < Len(Batch[t]) /\ nth' = [nth EXCEPT ![t] = @ + 1]
      /\ UNCHANGED <<results, last_sequence, storeVars>>
  BY DEF Call
<1>3. nth[t] \in Nat /\ nth'[t] = nth[t] + 1 /\ \A u \in Threads : u # t => nth'[u] = nth[u]
  BY <1>1, <1>2 DEF TypeInv
<1>4. op \in WriteOps
  <2>1. Batch[t] \in Seq([count : Nat, sync : BOOLEAN])
    BY WritersAssumption
  <2>2. nth[t] + 1 \in DOMAIN Batch[t]
    BY <1>2, <1>3, <2>1
  <2> QED
    BY <2>2 DEF WriteOps
<1>5. /\ pc'[t] \in {"room", "queued"}
      /\ \A u \in Threads : u # t => pc'[u] = pc[u]
  BY <1>1 DEF Call, Lead, Goto, TypeInv
<1>6. InWrite' = InWrite \cup {t} /\ t \notin InWrite
  BY <1>2, <1>5 DEF InWrite
<1>7. Op(t)' = op /\ \A u \in InWrite : Op(u)' = Op(u)
  BY <1>3, <1>6 DEF Op, InWrite
<1>8. Called' = Called \cup {op}
  BY <1>6, <1>7 DEF Called
<1>9. op \notin Called
  BY <1>6 DEF Called, Op
<1>10. op \notin results["ok"] /\ op \notin results["error"]
  <2>1. op[1] = t /\ op[2] = nth[t] + 1
    OBVIOUS
  <2>2. ~ (nth[t] + 1 <= nth[t])
    BY <1>3
  <2> QED
    BY <1>1, <2>1, <2>2 DEF OutcomeInv
<1>11. Visible' = Visible /\ results' = results
  BY <1>2 DEF Visible, AllEntries, storeVars
<1> HIDE DEF op
<1> QED
  BY <1>4, <1>8, <1>9, <1>10, <1>11 DEF Atomic!Call, Called

(* The writes of a group are under way, and not yet in the store.          *)
LEMMA GroupIsUnderWay ==
  ASSUME WritersInv, NEW op \in Taken
  PROVE  op \in Called /\ ~ Atomic!InStore(op)
<1>1. TypeInv /\ QueueInv /\ GroupInv /\ OutcomeInv
  BY DEF WritersInv
<1>2. PICK i \in 1 .. group.size : op = Op(writers[i])
  BY DEF Taken
<1> DEFINE u == writers[i]
<1>3. u \in Threads /\ u \in Range(writers)
  BY <1>1 DEF TypeInv, GroupInv, Range
<1> HIDE DEF u
<1>4. u \in InWrite /\ ~ Answered(u)
  BY <1>1, <1>3 DEF QueueInv, InWrite, Leading, Answered
<1>5. ASSUME NEW e \in Visible, e.op = op PROVE FALSE
  <2>1. Outcome(op, "ok")
    BY <1>1, <1>5 DEF OutcomeInv
  <2>2. op = Op(u)
    BY <1>2 DEF u
  <2>3. op \notin results["ok"]
    BY <1>4, <2>2, UnderWay
  <2>4. PICK v \in Threads : op = Op(v) /\ Answered(v)
    BY <2>1, <2>3 DEF Outcome, Answered
  <2>5. v = u
    BY <2>2, <2>4 DEF Op
  <2> QED
    BY <1>4, <2>4, <2>5
<1> QED
  BY <1>2, <1>4, <1>5 DEF Called, Atomic!InStore, u

(* The leader's last critical section is where its group takes effect; if  *)
(* it failed, or led a null batch, readers see no change.                  *)
LEMMA FinishIsTakeEffect ==
  ASSUME WritersInv, NEW t \in Threads, Finish(t)
  PROVE  Atomic!TakeEffect \/ UNCHANGED AtomicVars
<1>1. TypeInv /\ QueueInv /\ GroupInv /\ StoreInv
  BY DEF WritersInv
<1>2. /\ pc[t] = "finish" /\ UNCHANGED <<nth, results>>
  BY DEF Finish
<1>3. /\ Visible' = Visible \cup Inserted
      /\ \A f \in Inserted : f.seq > last_sequence /\ f \in Range(group.entries)
      /\ status[t] = "ok" => Inserted = Range(group.entries)
      /\ status[t] = "error" => Inserted = {}
  BY FinishPublishes
<1>4. Called' = Called
  <2>1. \A u \in Threads : u \in InWrite <=> u \in InWrite'
    <3>1. pc' = [pc EXCEPT ![t] = "return"]
      BY DEF Finish, Goto
    <3> QED
      BY <1>1, <1>2, <3>1 DEF InWrite, TypeInv
  <2>2. InWrite' = InWrite
    BY <2>1 DEF InWrite
  <2> QED
    BY <1>2, <2>2 DEF Called, Op
<1>5. CASE Inserted = {}
  BY <1>2, <1>3, <1>4, <1>5 DEF AtomicVars
<1>6. CASE Inserted # {}
  <2>1. Inserted = Range(group.entries)
    BY <1>1, <1>3, <1>6 DEF TypeInv
  <2>2. Range(group.entries) \subseteq Entry /\ DOMAIN group.entries = 1 .. Len(group.entries)
        /\ Len(group.entries) \in Nat /\ last_sequence \in Nat
    BY <1>1 DEF TypeInv, Range
  <2>3. \A f \in Visible : f \in Entry /\ f.seq <= last_sequence
    <3>1. Visible \subseteq AllEntries
      BY DEF Visible
    <3>2. mem \subseteq Entry /\ (UNION imm) \subseteq Entry /\ tables \subseteq Entry
      BY <1>1 DEF TypeInv
    <3>3. AllEntries \subseteq Entry
      BY <3>2 DEF AllEntries
    <3> QED
      BY <3>1, <3>3 DEF Visible
  <2>4. Visible' \ Visible = Inserted
    <3>1. \A f \in Inserted : f \notin Visible
      BY <1>3, <2>1, <2>2, <2>3 DEF Entry
    <3> QED
      BY <1>3, <3>1
  <2>5. ASSUME NEW e \in Inserted
        PROVE  /\ e.op \in Called /\ ~ Atomic!InStore(e.op)
               /\ {f \in Inserted : f.op = e.op} = Atomic!BatchAround(e)
               /\ \A f \in Visible : f.seq < e.seq
    <3>1. e.op \in Taken
      BY <1>1, <2>1, <2>2 DEF GroupInv, Range
    <3>2. \A f \in Visible : f.seq < e.seq
      BY <1>3, <2>1, <2>2, <2>3 DEF Entry
    <3>3. {f \in Inserted : f.op = e.op} = Atomic!BatchAround(e)
      BY <1>1, <2>1 DEF GroupInv
    <3> QED
      BY <3>1, <3>2, <3>3, GroupIsUnderWay
  <2>6. \A e, f \in Inserted : e.seq = f.seq => e = f
    <3> SUFFICES ASSUME NEW e \in Inserted, NEW f \in Inserted, e.seq = f.seq
                 PROVE  e = f
      OBVIOUS
    <3>1. PICK k \in 1 .. Len(group.entries) : e = group.entries[k]
      BY <2>1, <2>2 DEF Range
    <3>2. PICK l \in 1 .. Len(group.entries) : f = group.entries[l]
      BY <2>1, <2>2 DEF Range
    <3>3. last_sequence + k = last_sequence + l
      BY <1>1, <2>2, <3>1, <3>2 DEF GroupInv
    <3> QED
      BY <2>2, <3>1, <3>2, <3>3
  <2>7. Visible \subseteq Visible' /\ Visible # Visible'
    BY <1>3, <1>6, <2>4
  <2> QED
    BY <1>2, <1>4, <2>4, <2>5, <2>6, <2>7 DEF Atomic!TakeEffect, Called
<1> QED
  BY <1>5, <1>6

(* Write returns OK when its batch is in the store or empty, and an error  *)
(* only when it is not in the store.                                       *)
LEMMA ReturnIsReturn ==
  ASSUME WritersInv, NEW t \in Threads, Return(t)
  PROVE  \E op \in WriteOps : Atomic!Return(op)
<1> DEFINE op == Op(t)
<1>1. TypeInv /\ CallInv /\ OutcomeInv
  BY DEF WritersInv
<1>2. PICK place \in {"check", "idle"} :
        /\ pc[t] = "return" /\ pc' = [pc EXCEPT ![t] = place]
        /\ results' = [results EXCEPT ![status[t]] = @ \cup {Op(t)}]
        /\ UNCHANGED <<nth, last_sequence, storeVars>>
  BY DEF Return, Goto
<1>3. nth[t] \in 1 .. Len(Batch[t]) /\ Batch[t] \in Seq([count : Nat, sync : BOOLEAN])
  <2>1. Batch[t] \in Seq([count : Nat, sync : BOOLEAN])
    BY WritersAssumption
  <2>2. nth[t] \in Nat /\ nth[t] <= Len(Batch[t]) /\ nth[t] > 0
    BY <1>1, <1>2 DEF TypeInv, CallInv
  <2> QED
    BY <2>1, <2>2
<1>4. op \in WriteOps /\ CountOf(op) \in Nat /\ CountOf(op) = Batch[t][nth[t]].count
  <2>1. nth[t] \in DOMAIN Batch[t] /\ Batch[t][nth[t]] \in [count : Nat, sync : BOOLEAN]
    <3>1. nth[t] \in DOMAIN Batch[t]
      BY <1>3
    <3>2. Batch[t][nth[t]] \in [count : Nat, sync : BOOLEAN]
      BY <1>3, ElementOfSeq
    <3> QED
      BY <3>1, <3>2
  <2>2. CountOf(op) = Batch[t][nth[t]].count
    BY DEF Op, CountOf, BatchAt
  <2>3. op \in {t} \X DOMAIN Batch[t]
    BY <2>1 DEF Op
  <2> QED
    BY <2>1, <2>2, <2>3 DEF WriteOps
<1>5. Called' = Called \ {op} /\ op \in Called
  <2>1. InWrite' = InWrite \ {t} /\ t \in InWrite
    BY <1>1, <1>2 DEF InWrite, TypeInv
  <2>2. \A u : Op(u)' = Op(u)
    BY <1>2 DEF Op
  <2>3. \A u \in InWrite : u # t => Op(u) # Op(t)
    BY DEF Op
  <2> QED
    BY <2>1, <2>2, <2>3 DEF Called
<1>6. Visible' = Visible
  BY <1>2 DEF Visible, AllEntries, storeVars
<1>7. status[t] = "ok" => Atomic!InStore(op) \/ CountOf(op) = 0
  <2> SUFFICES ASSUME status[t] = "ok", CountOf(op) # 0 PROVE Atomic!InStore(op)
    OBVIOUS
  <2>1. Outcome(<<t, nth[t]>>, "ok")
    BY <1>2 DEF Outcome, Op
  <2>2. Batch[t][nth[t]].count > 0
    BY <1>4
  <2> QED
    BY <1>1, <1>3, <2>1, <2>2 DEF OutcomeInv, Atomic!InStore, Op
<1>8. status[t] = "error" => ~ Atomic!InStore(op)
  <2> SUFFICES ASSUME status[t] = "error", NEW e \in Visible, e.op = op PROVE FALSE
    BY DEF Atomic!InStore
  <2>1. Outcome(op, "ok")
    BY <1>1 DEF OutcomeInv
  <2>2. op \notin results["ok"]
    BY <1>2, UnderWay DEF InWrite
  <2>3. PICK v \in Threads : op = Op(v) /\ status[v] = "ok"
    BY <2>1, <2>2 DEF Outcome
  <2>4. v = t
    BY <2>3 DEF Op
  <2> QED
    BY <2>3, <2>4
<1>9. \/ status[t] = "ok" /\ results'["ok"] = results["ok"] \cup {op}
         /\ results'["error"] = results["error"]
      \/ status[t] = "error" /\ results'["error"] = results["error"] \cup {op}
         /\ results'["ok"] = results["ok"]
  BY <1>1, <1>2 DEF TypeInv
<1> HIDE DEF op
<1> QED
  BY <1>4, <1>5, <1>6, <1>7, <1>8, <1>9 DEF Atomic!Return, Called

(* What is inserted or moved before Finish readers do not see.             *)
LEMMA StepsUnseen ==
  ASSUME WritersInv, NEW t \in Threads,
         \/ Wake(t) \/ MakeRoomForWrite(t) \/ RoomAgain(t) \/ Build(t)
         \/ AddRecord(t) \/ Sync(t) \/ Insert(t) \/ MemTableWait(t)
  PROVE  UNCHANGED AtomicVars
<1>1. TypeInv /\ GroupInv /\ LeaderInv /\ StoreInv
  BY DEF WritersInv
<1>2. nth' = nth /\ results' = results
  BY DEF Wake, MakeRoomForWrite, RoomAgain, Build, AddRecord, Sync, Insert, MemTableWait
<1>3. PICK place \in Places :
        /\ pc' = [pc EXCEPT ![t] = place] \/ pc' = pc
        /\ place \in {"idle", "memtable"} => pc[t] \in {"check", "memtable"}
        /\ pc[t] \in {"check", "memtable"} => place \in {"idle", "memtable"}
        /\ pc[t] # "idle" /\ place # "check"
  <2> DEFINE Working == Leading \cup {"return"}
  <2>0. "return" \in Working /\ Leading \subseteq Working /\ Working \subseteq Places
        /\ Working \cap {"idle", "memtable", "check"} = {}
    BY DEF Leading, Places
  <2>1. \/ /\ pc[t] \in {"queued", "room", "sleep", "full", "build", "append", "sync", "insert"}
           /\ pc' = pc \/ \E place \in Working : Goto(t, place)
        \/ /\ pc[t] \in {"check", "memtable"}
           /\ \E place \in {"idle", "memtable"} : Goto(t, place)
    <3>1. CASE Wake(t)
      <4>1. pc[t] = "queued" /\ (pc' = pc \/ Goto(t, "return") \/ Goto(t, "room"))
        BY <3>1 DEF Wake, Lead
      <4> QED
        BY <2>0, <4>1 DEF Leading
    <3>2. CASE MakeRoomForWrite(t)
      <4>1. /\ pc[t] = "room"
            /\ pc' = pc \/ \E place \in {"finish", "sleep", "build", "full"} : Goto(t, place)
        BY <3>2 DEF MakeRoomForWrite, RoomError, RoomDelay, RoomFound, RoomWait, RoomSwitch,
                    RoomFails
      <4> QED
        BY <2>0, <4>1 DEF Leading
    <3>3. CASE RoomAgain(t) \/ Build(t)
      <4>1. /\ pc[t] \in {"sleep", "full", "build"}
            /\ \E place \in {"room", "finish", "append"} : Goto(t, place)
        BY <3>3 DEF RoomAgain, Build
      <4> QED
        BY <2>0, <4>1 DEF Leading
    <3>4. CASE AddRecord(t) \/ Sync(t) \/ Insert(t)
      <4>1. /\ pc[t] \in {"append", "sync", "insert"}
            /\ pc' = pc \/ \E place \in {"sync", "insert", "finish"} : Goto(t, place)
        <5>1. CASE AddRecord(t)
          BY <5>1 DEF AddRecord
        <5>2. CASE Sync(t)
          BY <5>2 DEF Sync
        <5>3. CASE Insert(t)
          BY <5>3 DEF Insert
        <5> QED
          BY <3>4, <5>1, <5>2, <5>3
      <4> QED
        BY <2>0, <4>1 DEF Leading
    <3>5. CASE MemTableWait(t)
      BY <3>5 DEF MemTableWait
    <3> QED
      BY <3>1, <3>2, <3>3, <3>4, <3>5
  <2>2. "return" \in Places /\ "idle" \in Places /\ "memtable" \in Places
        /\ Leading \subseteq Places
    BY DEF Places
  <2> HIDE DEF Working
  <2> QED
    BY <2>0, <2>1, <2>2 DEF Goto
<1>4. InWrite' = InWrite
  BY <1>1, <1>3 DEF InWrite, TypeInv
<1>5. Called' = Called
  BY <1>2, <1>4 DEF Called, Op
<1>6. Visible' = Visible
  <2>1. CASE UNCHANGED <<mem, imm, tables, last_sequence>>
    BY <2>1 DEF Visible, AllEntries
  <2>2. CASE MakeRoomForWrite(t) /\ RoomSwitch(t)
    <3>1. imm = {} /\ imm' = {mem} /\ mem' = {} /\ tables' = tables
          /\ last_sequence' = last_sequence
      BY <2>2 DEF MakeRoomForWrite, RoomSwitch, MustWait
    <3>2. (UNION imm) = {} /\ (UNION imm') = mem
      BY <3>1
    <3>3. AllEntries' = AllEntries
      BY <3>1, <3>2 DEF AllEntries
    <3> QED
      BY <3>1, <3>3 DEF Visible
  <2>3. CASE Insert(t)
    <3> DEFINE e == group.entries[group.inserted + 1]
    <3>1. mem' = mem \cup {e} /\ imm' = imm /\ tables' = tables
          /\ last_sequence' = last_sequence /\ pc[t] = "insert"
      BY <2>3 DEF Insert
    <3>2. group.inserted + 1 \in DOMAIN group.entries /\ last_sequence \in Nat
          /\ group.inserted \in Nat
      BY <1>1, <3>1 DEF TypeInv, LeaderInv
    <3>3. e.seq = last_sequence + (group.inserted + 1)
      BY <1>1, <3>2 DEF GroupInv
    <3>4. ~ (e.seq <= last_sequence)
      BY <3>2, <3>3
    <3> HIDE DEF e
    <3>5. AllEntries' = AllEntries \cup {e}
      BY <3>1 DEF AllEntries
    <3> QED
      BY <3>1, <3>4, <3>5 DEF Visible
  <2>4. MakeRoomForWrite(t) => RoomSwitch(t) \/ UNCHANGED <<mem, imm, tables, last_sequence>>
    BY DEF MakeRoomForWrite, RoomError, RoomDelay, RoomFound, RoomWait, RoomFails,
           RoomUnchanged, storeVars
  <2>5. \/ Wake(t) \/ RoomAgain(t) \/ Build(t) \/ AddRecord(t) \/ Sync(t) \/ MemTableWait(t)
        => UNCHANGED <<mem, imm, tables, last_sequence>>
    BY DEF Wake, RoomAgain, Build, AddRecord, Sync, MemTableWait, storeVars
  <2> QED
    BY <2>1, <2>2, <2>3, <2>4, <2>5
<1> QED
  BY <1>2, <1>5, <1>6 DEF AtomicVars

(* Readers see no work of the background thread.                           *)
LEMMA BackgroundUnseen ==
  ASSUME WritersInv, Background
  PROVE  UNCHANGED AtomicVars
<1>1. UNCHANGED <<pc, nth, results, last_sequence, mem>>
  BY DEF Background, BackgroundFlush, BackgroundCompacts, BackgroundCompacted, BackgroundFails,
         BackgroundStops, BackgroundUnchanged
<1>2. AllEntries' = AllEntries
  <2>1. CASE BackgroundFlush
    <3>1. tables' = tables \cup (UNION imm) /\ imm' = {}
      BY <2>1 DEF BackgroundFlush
    <3>2. (UNION imm') = {}
      BY <3>1
    <3> QED
      BY <1>1, <3>1, <3>2 DEF AllEntries
  <2>2. CASE UNCHANGED <<imm, tables>>
    BY <1>1, <2>2 DEF AllEntries
  <2> QED
    BY <2>1, <2>2 DEF Background, BackgroundCompacts, BackgroundCompacted, BackgroundFails,
                      BackgroundStops
<1>3. Visible' = Visible
  BY <1>1, <1>2 DEF Visible
<1>4. Called' = Called
  BY <1>1 DEF Called, InWrite, Op
<1> QED
  BY <1>1, <1>3, <1>4 DEF AtomicVars

(* Every step is one of AtomicWrites or a stutter.                         *)
LEMMA StepsAreSteps ==
  WritersInv /\ [Next]_vars => (\E op \in WriteOps : Atomic!Call(op) \/ Atomic!Return(op))
                               \/ Atomic!TakeEffect \/ UNCHANGED AtomicVars
<1> SUFFICES ASSUME WritersInv, [Next]_vars
             PROVE  \/ \E op \in WriteOps : Atomic!Call(op) \/ Atomic!Return(op)
                    \/ Atomic!TakeEffect \/ UNCHANGED AtomicVars
  OBVIOUS
<1>1. ASSUME NEW t \in Threads, Call(t) \/ Finish(t) \/ Return(t)
      PROVE  \/ \E op \in WriteOps : Atomic!Call(op) \/ Atomic!Return(op)
             \/ Atomic!TakeEffect \/ UNCHANGED AtomicVars
  BY <1>1, CallIsCall, FinishIsTakeEffect, ReturnIsReturn
<1>2. ASSUME NEW t \in Threads, Thread(t), ~ Finish(t), ~ Return(t)
      PROVE  UNCHANGED AtomicVars
  BY <1>2, StepsUnseen DEF Thread
<1>3. CASE Background
  BY <1>3, BackgroundUnseen
<1>4. CASE Close \/ UNCHANGED vars
  BY <1>4 DEF Close, vars, threadVars, storeVars, AtomicVars, Called, InWrite, Op, Visible,
              AllEntries
<1> QED
  BY <1>1, <1>2, <1>3, <1>4 DEF Next

(* Group commit implements AtomicWrites: readers see each batch at once    *)
(* and whole, before its writer returns OK, and never the batch of a       *)
(* writer that got an error.                                               *)
THEOREM GroupCommitIsAtomic == Spec => ImplementsAtomicWrites
<1>1. Init => Atomic!Init
  <2> SUFFICES ASSUME Init PROVE Atomic!Init
    OBVIOUS
  <2>1. InWrite = {} /\ Visible = {} /\ results["ok"] = {} /\ results["error"] = {}
    BY DEF Init, InWrite, Visible, AllEntries
  <2> QED
    BY <2>1 DEF Atomic!Init
<1>2. WritersInv /\ [Next]_vars =>
        [Atomic!Next]_<<{Op(t) : t \in InWrite}, Visible, results["ok"], results["error"]>>
  BY StepsAreSteps DEF Atomic!Next, AtomicVars, Called, WriteOps
<1>3. Spec => Init /\ [][Next]_vars
  BY PTL DEF Spec
<1> QED
  BY <1>1, <1>2, <1>3, InvHolds, PTL DEF ImplementsAtomicWrites, Atomic!Spec

=============================================================================
