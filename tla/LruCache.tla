------------------------------ MODULE LruCache ------------------------------
(***************************************************************************)
(* cache.c: the least recently used cache shared by the UDP relays (their  *)
(* connection tables) and the block list.  uthash keeps its elements in    *)
(* the order they were added, so a cache is a sequence of entries, the     *)
(* least recently used first.  The operators say what a call leaves in the *)
(* cache; the data it hands to free_cb is named by an operator of its own. *)
(***************************************************************************)
EXTENDS Integers, Sequences

Entry(key, data) == [key |-> key, data |-> data]

\* The caches with keys and data from two sets.
Table(keys, data) == Seq([key : keys, data : data])

KeysOf(cache) == {cache[i].key  : i \in DOMAIN cache}

Entries(cache) == {cache[i] : i \in DOMAIN cache}

\* cache_insert does not look for the key: whether a table has an entry more
\* than once is up to its users.
UniqueKeys(cache) ==
  \A i, j \in DOMAIN cache : cache[i].key = cache[j].key => i = j

\* HASH_FIND.
Has(cache, key) == key \in KeysOf(cache)
Place(cache, key) == CHOOSE i \in DOMAIN cache : cache[i].key = key
Find(cache, key) == cache[Place(cache, key)].data

\* HASH_DEL of the entry with this key.
Without(cache, key) ==
  LET p == Place(cache, key)
  IN  [i \in 1..(Len(cache) - 1) |-> IF i < p THEN cache[i] ELSE cache[i + 1]]

\* cache_lookup and cache_key_exist: what is found becomes the youngest.
Refreshed(cache, key) ==
  IF Has(cache, key)
    THEN Append(Without(cache, key), Entry(key, Find(cache, key)))
    ELSE cache

\* cache_remove.
Removed(cache, key) == IF Has(cache, key) THEN Without(cache, key) ELSE cache
RemovedData(cache, key) == IF Has(cache, key) THEN {Find(cache, key)} ELSE {}

\* cache_insert: the entry is added first, and then the oldest one is evicted
\* if max_entries is reached, so that max_entries is never the count a caller
\* sees.  The key is not looked up.
Inserted(cache, key, data, max_entries) ==
  LET added == Append(cache, Entry(key, data))
  IN  IF Len(added) >= max_entries THEN Tail(added) ELSE added

\* A defect for comparison: free_cb is not called for the evicted entry.
EvictedDataKept(cache, key, data, max_entries) == {}

\* The data free_cb is called with.
EvictedData(cache, key, data, max_entries) ==
  LET added == Append(cache, Entry(key, data))
  IN  IF Len(added) >= max_entries THEN {Head(added).data} ELSE {}
=============================================================================
