------------------------------ MODULE CBinding ------------------------------
(***************************************************************************)
(* leveldb's C interface (db/c.cc): handles that own C++ objects, values   *)
(* that are copied for the caller, and the error string behind errptr.     *)
(*                                                                         *)
(* The heap counts the chunks of each kind that are allocated.  A caller   *)
(* keeps the rules of leveldb/c.h: it destroys what it created, iterators  *)
(* and snapshots before their database, and the objects that options refer *)
(* to after it.                                                            *)
(***************************************************************************)
EXTENDS Integers

CONSTANT MaxValues         \* bound: values the caller has not freed yet

VARIABLES
  heap,                    \* chunks allocated, by kind
  handles,                 \* handles the caller has
  values,                  \* strings returned to it that it has not freed
  errptr                   \* whether *errptr is an error message

cVars == <<heap, handles, values, errptr>>

Kinds == {"leveldb_t", "DB", "leveldb_iterator_t", "Iterator", "leveldb_snapshot_t", "Snapshot",
          "leveldb_writebatch_t", "leveldb_options_t", "leveldb_cache_t", "Cache",
          "leveldb_comparator_t", "comparator state", "leveldb_filterpolicy_t", "policy state",
          "Wrapper", "FilterPolicy", "leveldb_env_t", "Env", "leveldb_readoptions_t",
          "leveldb_writeoptions_t", "string", "message"}

(* The chunks a handle's own create function allocates or is given.        *)
Owned(h) ==
  CASE h = "db" -> {"leveldb_t", "DB"}
    [] h = "iterator" -> {"leveldb_iterator_t", "Iterator"}
    [] h = "snapshot" -> {"leveldb_snapshot_t", "Snapshot"}
    [] h = "writebatch" -> {"leveldb_writebatch_t"}
    [] h = "options" -> {"leveldb_options_t"}
    [] h = "cache" -> {"leveldb_cache_t", "Cache"}
    [] h = "comparator" -> {"leveldb_comparator_t", "comparator state"}
    [] h = "filterpolicy" -> {"leveldb_filterpolicy_t", "policy state"}
    [] h = "bloom" -> {"Wrapper", "FilterPolicy"}
    [] h = "env" -> {"leveldb_env_t"}
    [] h = "readoptions" -> {"leveldb_readoptions_t"}
    [] h = "writeoptions" -> {"leveldb_writeoptions_t"}

Plus(kinds) == [k \in Kinds |-> heap[k] + (IF k \in kinds THEN 1 ELSE 0)]
Minus(kinds) == [k \in Kinds |-> heap[k] - (IF k \in kinds THEN 1 ELSE 0)]

(* Mutant: an earlier message is overwritten and not freed.                *)
SaveErrorKeeps == heap' = Plus({"message"}) /\ errptr' = TRUE

(* A message that is there is freed before the new one is copied.          *)
SaveError == heap' = (IF errptr THEN heap ELSE Plus({"message"})) /\ errptr' = TRUE

-----------------------------------------------------------------------------
Create(h, kinds) ==
  /\ h \notin handles
  /\ heap' = Plus(kinds) /\ handles' = handles \cup {h}
  /\ UNCHANGED <<values, errptr>>

Destroy(h, kinds) ==
  /\ h \in handles
  /\ heap' = Minus(kinds) /\ handles' = handles \ {h}
  /\ UNCHANGED <<values, errptr>>

leveldb_open ==
  /\ "options" \in handles
  /\ Create("db", {"leveldb_t", "DB"})

leveldb_open_fails ==
  /\ "options" \in handles /\ "db" \notin handles
  /\ SaveError /\ UNCHANGED <<handles, values>>

leveldb_close ==
  /\ handles \cap {"iterator", "snapshot"} = {}
  /\ Destroy("db", {"leveldb_t", "DB"})

(* A database that is not open is destroyed or repaired, in vain.          *)
leveldb_destroy_or_repair_fails ==
  /\ "options" \in handles /\ "db" \notin handles
  /\ SaveError /\ UNCHANGED <<handles, values>>

(* put, delete and write, when the status is not ok.                       *)
leveldb_write_fails ==
  /\ {"db", "writeoptions"} \subseteq handles
  /\ SaveError /\ UNCHANGED <<handles, values>>

(* A key that is not found is no error.                                    *)
leveldb_get(found) ==
  /\ {"db", "readoptions"} \subseteq handles
  /\ IF found THEN /\ values < MaxValues
                   /\ heap' = Plus({"string"}) /\ values' = values + 1 /\ UNCHANGED errptr
     ELSE SaveError /\ UNCHANGED values
  /\ UNCHANGED handles

(* leveldb_property_value and leveldb_env_get_test_directory copy a string.*)
leveldb_property_value ==
  /\ "db" \in handles /\ values < MaxValues
  /\ heap' = Plus({"string"}) /\ values' = values + 1
  /\ UNCHANGED <<handles, errptr>>

leveldb_env_get_test_directory ==
  /\ "env" \in handles /\ values < MaxValues
  /\ heap' = Plus({"string"}) /\ values' = values + 1
  /\ UNCHANGED <<handles, errptr>>

leveldb_create_iterator ==
  {"db", "readoptions"} \subseteq handles /\ Create("iterator", {"leveldb_iterator_t", "Iterator"})
leveldb_iter_destroy == Destroy("iterator", {"Iterator", "leveldb_iterator_t"})

leveldb_iter_get_error ==
  /\ "iterator" \in handles
  /\ SaveError /\ UNCHANGED <<handles, values>>

leveldb_create_snapshot == "db" \in handles /\ Create("snapshot", {"leveldb_snapshot_t", "Snapshot"})
leveldb_release_snapshot == Destroy("snapshot", {"Snapshot", "leveldb_snapshot_t"})

leveldb_writebatch_create == Create("writebatch", {"leveldb_writebatch_t"})
leveldb_writebatch_destroy == Destroy("writebatch", {"leveldb_writebatch_t"})

leveldb_options_create == Create("options", {"leveldb_options_t"})
leveldb_options_destroy == Destroy("options", {"leveldb_options_t"})

leveldb_readoptions_create == Create("readoptions", {"leveldb_readoptions_t"})
leveldb_readoptions_destroy == Destroy("readoptions", {"leveldb_readoptions_t"})
leveldb_writeoptions_create == Create("writeoptions", {"leveldb_writeoptions_t"})
leveldb_writeoptions_destroy == Destroy("writeoptions", {"leveldb_writeoptions_t"})

leveldb_cache_create_lru == Create("cache", {"leveldb_cache_t", "Cache"})
leveldb_cache_destroy == "db" \notin handles /\ Destroy("cache", {"Cache", "leveldb_cache_t"})

(* The state is the caller's and is given up to the destructor it passes.  *)
leveldb_comparator_create == Create("comparator", {"leveldb_comparator_t", "comparator state"})
leveldb_comparator_destroy ==
  "db" \notin handles /\ Destroy("comparator", {"comparator state", "leveldb_comparator_t"})

leveldb_filterpolicy_create == Create("filterpolicy", {"leveldb_filterpolicy_t", "policy state"})
leveldb_filterpolicy_create_bloom == Create("bloom", {"Wrapper", "FilterPolicy"})

(* One function destroys both kinds of policy: that of a Bloom filter has  *)
(* its own destructor and one that does nothing for the state.             *)
leveldb_filterpolicy_destroy ==
  /\ "db" \notin handles
  /\ \/ Destroy("filterpolicy", {"policy state", "leveldb_filterpolicy_t"})
     \/ Destroy("bloom", {"FilterPolicy", "Wrapper"})

leveldb_create_default_env == Create("env", {"leveldb_env_t"})

(* The default environment is never deleted.                               *)
leveldb_env_destroy == "db" \notin handles /\ Destroy("env", {"leveldb_env_t"})

leveldb_free ==
  \/ /\ values > 0
     /\ values' = values - 1 /\ heap' = Minus({"string"}) /\ UNCHANGED <<handles, errptr>>
  \/ /\ errptr
     /\ errptr' = FALSE /\ heap' = Minus({"message"}) /\ UNCHANGED <<handles, values>>

CInit == heap = [k \in Kinds |-> IF k = "Env" THEN 1 ELSE 0] /\ handles = {} /\ values = 0 /\ errptr = FALSE

CNext ==
  \/ leveldb_open \/ leveldb_open_fails \/ leveldb_close \/ leveldb_write_fails
  \/ leveldb_destroy_or_repair_fails
  \/ leveldb_get(TRUE) \/ leveldb_get(FALSE)
  \/ leveldb_property_value \/ leveldb_env_get_test_directory
  \/ leveldb_create_iterator \/ leveldb_iter_destroy \/ leveldb_iter_get_error
  \/ leveldb_create_snapshot \/ leveldb_release_snapshot
  \/ leveldb_writebatch_create \/ leveldb_writebatch_destroy
  \/ leveldb_options_create \/ leveldb_options_destroy
  \/ leveldb_readoptions_create \/ leveldb_readoptions_destroy
  \/ leveldb_writeoptions_create \/ leveldb_writeoptions_destroy
  \/ leveldb_cache_create_lru \/ leveldb_cache_destroy
  \/ leveldb_comparator_create \/ leveldb_comparator_destroy
  \/ leveldb_filterpolicy_create \/ leveldb_filterpolicy_create_bloom \/ leveldb_filterpolicy_destroy
  \/ leveldb_create_default_env \/ leveldb_env_destroy \/ leveldb_free

-----------------------------------------------------------------------------
(* Whatever the order of calls, failing ones between them: the heap holds  *)
(* the chunks of the handles the caller has, the strings it was given, one *)
(* message at most and the default environment.  So nothing is leaked when *)
(* all is destroyed, and nothing is freed twice.                           *)
HeapIsOwned ==
  \A k \in Kinds :
    heap[k] = CASE k = "Env" -> 1
                [] k = "string" -> values
                [] k = "message" -> IF errptr THEN 1 ELSE 0
                [] OTHER -> IF \E h \in handles : k \in Owned(h) THEN 1 ELSE 0

=============================================================================
