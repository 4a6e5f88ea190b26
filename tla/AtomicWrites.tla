---------------------------- MODULE AtomicWrites ----------------------------
(***************************************************************************)
(* What DB::Write promises to threads that write at the same time: batches *)
(* take effect in some order, each at once and as a whole, between the     *)
(* call and the return; a write that returns OK has taken effect, and one  *)
(* that returns an error never does.                                       *)
(*                                                                         *)
(* The order is that of the sequence numbers.  An entry says its number,   *)
(* the write it comes from and its place in the batch.                     *)
(***************************************************************************)
EXTENDS Naturals

CONSTANTS Ops,          \* writes
          Count(_)      \* entries of a write's batch; 0 for a null batch

VARIABLES called,       \* writes under way
          store,        \* the entries that readers see
          ok, error     \* writes that returned

Init == called = {} /\ store = {} /\ ok = {} /\ error = {}

InStore(op) == \E e \in store : e.op = op

(* The batch of the write that an entry comes from, numbered on from it.   *)
BatchAround(e) ==
  {[seq |-> e.seq + i - e.place, op |-> e.op, place |-> i] : i \in 1 .. Count(e.op)}

Call(op) ==
  /\ op \notin called \cup ok \cup error
  /\ called' = called \cup {op}
  /\ UNCHANGED <<store, ok, error>>

(* Some writes under way take effect: their batches come after all that    *)
(* is in the store, one after another, and each is complete.               *)
TakeEffect ==
  /\ store \subseteq store' /\ store # store'
  /\ LET new == store' \ store IN
     /\ \A e \in new :
          /\ e.op \in called /\ ~ InStore(e.op)
          /\ {f \in new : f.op = e.op} = BatchAround(e)
          /\ \A f \in store : f.seq < e.seq
     /\ \A e, f \in new : e.seq = f.seq => e = f
  /\ UNCHANGED <<called, ok, error>>

Return(op) ==
  /\ op \in called
  /\ called' = called \ {op}
  /\ \/ (InStore(op) \/ Count(op) = 0) /\ ok' = ok \cup {op} /\ UNCHANGED error
     \/ ~ InStore(op) /\ error' = error \cup {op} /\ UNCHANGED ok
  /\ UNCHANGED store

Next == TakeEffect \/ \E op \in Ops : Call(op) \/ Return(op)

Spec == Init /\ [][Next]_<<called, store, ok, error>>

=============================================================================
