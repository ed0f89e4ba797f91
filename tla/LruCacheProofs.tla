--------------------------- MODULE LruCacheProofs ---------------------------
(***************************************************************************)
(* What the operations of cache.c do to the entries of a cache whose keys  *)
(* are unique, for caches of any content and capacity.                     *)
(***************************************************************************)
EXTENDS LruCache, SequenceTheorems, TLAPS

\* An entry is among the entries, and the other way round.
LEMMA EntryPlace ==
  ASSUME NEW E, NEW cache \in Seq(E), NEW e
  PROVE  e \in Entries(cache) <=> \E i \in 1..Len(cache) : cache[i] = e
BY LenProperties DEF Entries

\* HASH_FIND finds an entry with the key.
LEMMA PlaceFacts ==
  ASSUME NEW E, NEW cache \in Seq(E), NEW key, Has(cache, key)
  PROVE  /\ Place(cache, key) \in 1..Len(cache)
         /\ cache[Place(cache, key)].key = key
<1>1. \E i \in DOMAIN cache : cache[i].key = key
  BY DEF Has, KeysOf
<1>2. /\ Place(cache, key) \in DOMAIN cache
      /\ cache[Place(cache, key)].key = key
  BY <1>1 DEF Place
<1> QED
  BY <1>2, LenProperties

\* Removing a key removes its entry and no other, and keeps the keys unique.
LEMMA WithoutFacts ==
  ASSUME NEW E, NEW cache \in Seq(E), NEW key, Has(cache, key), UniqueKeys(cache)
  PROVE  /\ Without(cache, key) \in Seq(E)
         /\ Len(Without(cache, key)) = Len(cache) - 1
         /\ UniqueKeys(Without(cache, key))
         /\ Entries(Without(cache, key)) = {e \in Entries(cache) : e.key # key}
<1> DEFINE n == Len(cache)
           p == Place(cache, key)
           w == Without(cache, key)
           g(i) == IF i < p THEN i ELSE i + 1
<1>1. n \in Nat /\ DOMAIN cache = 1..n /\ \A i \in 1..n : cache[i] \in E
  BY LenProperties, ElementOfSeq
<1>2. p \in 1..n /\ cache[p].key = key
  BY PlaceFacts
<1>3. \A i, j \in 1..n : cache[i].key = cache[j].key => i = j
  BY <1>1 DEF UniqueKeys
<1>4. w = [i \in 1..(n - 1) |-> IF i < p THEN cache[i] ELSE cache[i + 1]]
  BY DEF Without
<1> HIDE DEF n, p, w
<1>5. n - 1 \in Nat
  BY <1>1, <1>2
<1>6. \A i \in 1..(n - 1) : g(i) \in 1..n /\ g(i) # p /\ w[i] = cache[g(i)]
  BY <1>1, <1>2, <1>4
<1>7. w \in Seq(E) /\ Len(w) = n - 1
  <2>1. \A i \in 1..(n - 1) : w[i] \in E
    BY <1>1, <1>6
  <2>2. w \in [1..(n - 1) -> E]
    BY <1>4, <2>1
  <2> QED
    BY <1>5, <2>2, SeqDef, LenProperties
<1>8. DOMAIN w = 1..(n - 1)
  BY <1>4
<1>9. UniqueKeys(w)
  <2> SUFFICES ASSUME NEW i \in 1..(n - 1), NEW j \in 1..(n - 1), w[i].key = w[j].key
               PROVE  i = j
    BY <1>8 DEF UniqueKeys
  <2>1. g(i) = g(j)
    BY <1>3, <1>6
  <2> QED
    BY <2>1, <1>1, <1>2
<1>10. Entries(w) = {e \in Entries(cache) : e.key # key}
  <2>1. ASSUME NEW e \in Entries(w)
        PROVE  e \in Entries(cache) /\ e.key # key
    <3>1. PICK i \in 1..(n - 1) : w[i] = e
      BY <1>8 DEF Entries
    <3>2. g(i) \in 1..n /\ g(i) # p /\ cache[g(i)] = e
      BY <3>1, <1>6
    <3>3. e.key # key
      BY <3>2, <1>2, <1>3
    <3> QED
      BY <3>2, <3>3, <1>1 DEF Entries
  <2>2. ASSUME NEW e \in Entries(cache), e.key # key
        PROVE  e \in Entries(w)
    <3>1. PICK j \in 1..n : cache[j] = e
      BY <1>1 DEF Entries
    <3>2. j # p
      BY <3>1, <2>2, <1>2
    <3>3. PICK i \in 1..(n - 1) : g(i) = j
      <4>1. CASE j < p
        <5>1. j \in 1..(n - 1) /\ g(j) = j
          BY <4>1, <1>1, <1>2
        <5> QED
          BY <5>1
      <4>2. CASE j > p
        <5>1. j - 1 \in 1..(n - 1) /\ g(j - 1) = j
          BY <4>2, <1>1, <1>2
        <5> QED
          BY <5>1
      <4> QED
        BY <4>1, <4>2, <3>2, <1>1, <1>2
    <3>4. w[i] = e
      BY <3>1, <3>3, <1>6
    <3> QED
      BY <3>4, <1>8 DEF Entries
  <2> QED
    BY <2>1, <2>2
<1> QED
  BY <1>7, <1>9, <1>10 DEF n, w

\* Adding an entry with a key that is not there.
LEMMA AppendFacts ==
  ASSUME NEW E, NEW cache \in Seq(E), NEW e \in E, e.key \notin KeysOf(cache),
         UniqueKeys(cache)
  PROVE  /\ Append(cache, e) \in Seq(E)
         /\ Len(Append(cache, e)) = Len(cache) + 1
         /\ UniqueKeys(Append(cache, e))
         /\ Entries(Append(cache, e)) = Entries(cache) \cup {e}
<1> DEFINE n == Len(cache)
           a == Append(cache, e)
<1>1. n \in Nat /\ DOMAIN cache = 1..n
  BY LenProperties
<1>2. /\ a \in Seq(E)
      /\ Len(a) = n + 1
      /\ DOMAIN a = 1..(n + 1)
      /\ \A i \in 1..n : a[i] = cache[i]
      /\ a[n + 1] = e
  BY AppendProperties, LenProperties
<1> HIDE DEF n, a
<1>3. \A i \in 1..n : cache[i].key # e.key
  BY <1>1 DEF KeysOf
<1>4. UniqueKeys(a)
  <2> SUFFICES ASSUME NEW i \in 1..(n + 1), NEW j \in 1..(n + 1), a[i].key = a[j].key
               PROVE  i = j
    BY <1>2 DEF UniqueKeys
  <2>1. CASE i \in 1..n /\ j \in 1..n
    BY <2>1, <1>1, <1>2 DEF UniqueKeys
  <2>2. CASE i \in 1..n /\ j = n + 1
    BY <2>2, <1>2, <1>3
  <2>3. CASE i = n + 1 /\ j \in 1..n
    BY <2>3, <1>2, <1>3
  <2>4. CASE i = n + 1 /\ j = n + 1
    BY <2>4
  <2> QED
    BY <2>1, <2>2, <2>3, <2>4, <1>1
<1>5. Entries(a) = Entries(cache) \cup {e}
  <2>1. Entries(a) = {a[i] : i \in 1..(n + 1)}
    BY <1>2 DEF Entries
  <2>2. Entries(cache) = {cache[i] : i \in 1..n}
    BY <1>1 DEF Entries
  <2>3. ASSUME NEW x \in Entries(a) PROVE x \in Entries(cache) \cup {e}
    <3>1. PICK i \in 1..(n + 1) : a[i] = x
      BY <2>1
    <3>2. i \in 1..n \/ i = n + 1
      BY <1>1
    <3> QED
      BY <3>1, <3>2, <1>2, <2>2
  <2>4. ASSUME NEW x \in Entries(cache) \cup {e} PROVE x \in Entries(a)
    <3>1. CASE x = e
      <4>1. n + 1 \in 1..(n + 1)
        BY <1>1
      <4> QED
        BY <4>1, <3>1, <1>2, <2>1
    <3>2. CASE x \in Entries(cache)
      <4>1. PICK i \in 1..n : cache[i] = x
        BY <3>2, <2>2
      <4>2. i \in 1..(n + 1) /\ a[i] = x
        BY <4>1, <1>1, <1>2
      <4> QED
        BY <4>2, <2>1
    <3> QED
      BY <3>1, <3>2
  <2> QED
    BY <2>3, <2>4
<1> QED
  BY <1>2, <1>4, <1>5 DEF n, a

\* What is found under a key is the data of an entry with that key, and with
\* unique keys there is no other.
LEMMA FindFacts ==
  ASSUME NEW K, NEW D, NEW cache \in Table(K, D),
         NEW key, Has(cache, key), UniqueKeys(cache)
  PROVE  /\ key \in K /\ Find(cache, key) \in D
         /\ Entry(key, Find(cache, key)) \in Entries(cache)
         /\ \A e \in Entries(cache) : e.key = key => e = Entry(key, Find(cache, key))
<1> DEFINE p == Place(cache, key)
<1>0. cache \in Seq([key : K, data : D])
  BY DEF Table
<1>1. p \in 1..Len(cache) /\ cache[p].key = key
  BY <1>0, PlaceFacts
<1>2. cache[p] \in [key : K, data : D] /\ cache[p] \in Entries(cache)
  BY <1>0, <1>1, ElementOfSeq, EntryPlace
<1>3. cache[p] = Entry(key, Find(cache, key))
  BY <1>1, <1>2 DEF Entry, Find
<1>4. key \in K /\ Find(cache, key) \in D
  BY <1>1, <1>2 DEF Find
<1>5. ASSUME NEW e \in Entries(cache), e.key = key
      PROVE  e = cache[p]
  <2>1. PICK i \in 1..Len(cache) : cache[i] = e
    BY <1>0, EntryPlace
  <2>2. i \in DOMAIN cache /\ p \in DOMAIN cache
    BY <1>0, <2>1, <1>1, LenProperties
  <2> QED
    BY <2>1, <2>2, <1>1, <1>5 DEF UniqueKeys
<1> QED
  BY <1>2, <1>3, <1>4, <1>5

\* cache_lookup changes the order and nothing else.
LEMMA RefreshedFacts ==
  ASSUME NEW K, NEW D, NEW cache \in Table(K, D),
         NEW key, UniqueKeys(cache)
  PROVE  /\ Refreshed(cache, key) \in Table(K, D)
         /\ Len(Refreshed(cache, key)) = Len(cache)
         /\ UniqueKeys(Refreshed(cache, key))
         /\ Entries(Refreshed(cache, key)) = Entries(cache)
<1>0. cache \in Seq([key : K, data : D])
  BY DEF Table
<1>1. CASE ~Has(cache, key)
  BY <1>1 DEF Refreshed
<1>2. CASE Has(cache, key)
  <2> DEFINE w == Without(cache, key)
             e == Entry(key, Find(cache, key))
  <2>1. /\ w \in Seq([key : K, data : D])
        /\ Len(w) = Len(cache) - 1
        /\ UniqueKeys(w)
        /\ Entries(w) = {x \in Entries(cache) : x.key # key}
    BY <1>0, <1>2, WithoutFacts
  <2>2. /\ e \in [key : K, data : D] /\ e.key = key
        /\ e \in Entries(cache)
        /\ \A x \in Entries(cache) : x.key = key => x = e
    BY <1>2, FindFacts DEF Entry
  <2>3. Refreshed(cache, key) = Append(w, e)
    BY <1>2 DEF Refreshed
  <2> HIDE DEF w, e
  <2>4. e.key \notin KeysOf(w)
    BY <2>1, <2>2 DEF KeysOf, Entries
  <2>5. /\ Append(w, e) \in Seq([key : K, data : D])
        /\ Len(Append(w, e)) = Len(w) + 1
        /\ UniqueKeys(Append(w, e))
        /\ Entries(Append(w, e)) = Entries(w) \cup {e}
    <3> DEFINE E == [key : K, data : D]
    <3>1. w \in Seq(E) /\ UniqueKeys(w) /\ e \in E
      BY <2>1, <2>2
    <3> HIDE DEF E
    <3>2. /\ Append(w, e) \in Seq(E)
          /\ Len(Append(w, e)) = Len(w) + 1
          /\ UniqueKeys(Append(w, e))
          /\ Entries(Append(w, e)) = Entries(w) \cup {e}
      BY <3>1, <2>4, AppendFacts
    <3> QED
      BY <3>2 DEF E
  <2>6. Entries(w) \cup {e} = Entries(cache)
    BY <2>1, <2>2
  <2>7. Len(cache) \in Nat
    BY <1>0, LenProperties
  <2> QED
    BY <2>1, <2>3, <2>5, <2>6, <2>7 DEF Table
<1> QED
  BY <1>1, <1>2

\* cache_remove takes out the entry with the key, if there is one.
LEMMA RemovedFacts ==
  ASSUME NEW K, NEW D, NEW cache \in Table(K, D),
         NEW key, UniqueKeys(cache)
  PROVE  /\ Removed(cache, key) \in Table(K, D)
         /\ Len(Removed(cache, key)) <= Len(cache)
         /\ UniqueKeys(Removed(cache, key))
         /\ Entries(Removed(cache, key)) = {e \in Entries(cache) : e.key # key}
         /\ RemovedData(cache, key) = {e.data : e \in {x \in Entries(cache) : x.key = key}}
<1>0. cache \in Seq([key : K, data : D])
  BY DEF Table
<1>1. Len(cache) \in Nat
  BY <1>0, LenProperties
<1>2. CASE Has(cache, key)
  <2>1. /\ Entry(key, Find(cache, key)) \in Entries(cache)
        /\ \A e \in Entries(cache) : e.key = key => e = Entry(key, Find(cache, key))
        /\ Entry(key, Find(cache, key)).key = key
        /\ Entry(key, Find(cache, key)).data = Find(cache, key)
    BY <1>2, FindFacts DEF Entry
  <2>2. {x \in Entries(cache) : x.key = key} = {Entry(key, Find(cache, key))}
    BY <2>1
  <2>3. RemovedData(cache, key) = {e.data : e \in {x \in Entries(cache) : x.key = key}}
    BY <1>2, <2>1, <2>2 DEF RemovedData
  <2> QED
    BY <1>0, <1>1, <1>2, <2>3, WithoutFacts DEF Removed, Table
<1>3. CASE ~Has(cache, key)
  <2>1. \A e \in Entries(cache) : e.key # key
    BY <1>3 DEF Has, KeysOf, Entries
  <2>2. {x \in Entries(cache) : x.key = key} = {}
    BY <2>1
  <2>3. {x \in Entries(cache) : x.key # key} = Entries(cache)
    BY <2>1
  <2>4. RemovedData(cache, key) = {e.data : e \in {x \in Entries(cache) : x.key = key}}
    BY <1>3, <2>2 DEF RemovedData
  <2> QED
    BY <1>1, <1>3, <2>3, <2>4 DEF Removed
<1> QED
  BY <1>2, <1>3

\* cache_insert adds the entry and evicts at most one: the cache never holds
\* max_entries entries, and exactly the data of the evicted entry is freed.
LEMMA InsertedFacts ==
  ASSUME NEW K, NEW D, NEW cache \in Table(K, D),
         NEW key \in K, NEW data \in D, NEW max \in Nat,
         key \notin KeysOf(cache), UniqueKeys(cache), Len(cache) < max
  PROVE  LET all == Entries(cache) \cup {Entry(key, data)}
         IN  /\ Inserted(cache, key, data, max) \in Table(K, D)
             /\ Len(Inserted(cache, key, data, max)) < max
             /\ UniqueKeys(Inserted(cache, key, data, max))
             /\ \/ /\ ~(Len(Append(cache, Entry(key, data))) >= max)
                   /\ Entries(Inserted(cache, key, data, max)) = all
                   /\ EvictedData(cache, key, data, max) = {}
                \/ /\ Len(Append(cache, Entry(key, data))) >= max
                   /\ \E e \in all :
                        /\ Entries(Inserted(cache, key, data, max)) = all \ {e}
                        /\ EvictedData(cache, key, data, max) = {e.data}
                        /\ e = Head(Append(cache, Entry(key, data)))
<1> DEFINE new == Entry(key, data)
           a == Append(cache, new)
           n == Len(cache)
<1>0. cache \in Seq([key : K, data : D])
  BY DEF Table
<1>1. n \in Nat
  BY <1>0, LenProperties
<1>2. /\ new \in [key : K, data : D] /\ new.key = key
      /\ new.key \notin KeysOf(cache)
  BY DEF Entry
<1> HIDE DEF new
<1>3. /\ a \in Seq([key : K, data : D])
      /\ Len(a) = n + 1
      /\ UniqueKeys(a)
      /\ Entries(a) = Entries(cache) \cup {new}
  <2> DEFINE E == [key : K, data : D]
  <2>1. cache \in Seq(E) /\ new \in E /\ new.key \notin KeysOf(cache)
    BY <1>0, <1>2
  <2> HIDE DEF E
  <2>2. /\ Append(cache, new) \in Seq(E)
        /\ Len(Append(cache, new)) = Len(cache) + 1
        /\ UniqueKeys(Append(cache, new))
        /\ Entries(Append(cache, new)) = Entries(cache) \cup {new}
    BY <2>1, AppendFacts
  <2> QED
    BY <2>2 DEF E
<1>4. CASE ~(Len(a) >= max)
  <2>1. Inserted(cache, key, data, max) = a /\ EvictedData(cache, key, data, max) = {}
    BY <1>4 DEF Inserted, EvictedData, new
  <2> HIDE DEF a, n
  <2>2. Len(a) < max
    BY <1>1, <1>3, <1>4
  <2> QED
    BY <1>3, <1>4, <2>1, <2>2 DEF new, Table, a
<1>5. CASE Len(a) >= max
  <2>1. /\ Inserted(cache, key, data, max) = Tail(a)
        /\ EvictedData(cache, key, data, max) = {Head(a).data}
    BY <1>5 DEF Inserted, EvictedData, new
  <2> HIDE DEF a, n
  <2>2. a # <<>>
    BY <1>1, <1>3
  <2>3. /\ Tail(a) \in Seq([key : K, data : D])
        /\ Len(Tail(a)) = Len(a) - 1
        /\ \A i \in 1..Len(Tail(a)) : Tail(a)[i] = a[i + 1]
        /\ Head(a) = a[1]
    BY <2>2, <1>3, HeadTailProperties
  <2>4. Len(Tail(a)) = n /\ n < max
    BY <1>1, <1>3, <2>3 DEF n
  <2>5. DOMAIN a = 1..(n + 1) /\ DOMAIN Tail(a) = 1..n
    BY <1>3, <2>3, <2>4, LenProperties
  <2>9. 1 \in DOMAIN a /\ \A i \in 1..n : i + 1 \in DOMAIN a /\ i + 1 # 1
    BY <1>1, <2>5
  <2>10. \A i \in 1..n : Tail(a)[i] = a[i + 1]
    BY <2>3, <2>4
  <2>6. UniqueKeys(Tail(a))
    <3> SUFFICES ASSUME NEW i \in 1..n, NEW j \in 1..n, Tail(a)[i].key = Tail(a)[j].key
                 PROVE  i = j
      BY <2>5 DEF UniqueKeys
    <3>1. i + 1 \in DOMAIN a /\ j + 1 \in DOMAIN a /\ a[i + 1].key = a[j + 1].key
      BY <2>9, <2>10
    <3>2. i + 1 = j + 1
      BY <3>1, <1>3 DEF UniqueKeys
    <3> QED
      BY <3>2, <1>1
  <2>7. a[1] \in Entries(a)
    BY <2>9 DEF Entries
  <2>8. Entries(Tail(a)) = Entries(a) \ {a[1]}
    <3>1. ASSUME NEW e \in Entries(Tail(a))
          PROVE  e \in Entries(a) /\ e # a[1]
      <4>1. PICK i \in 1..n : Tail(a)[i] = e
        BY <2>5 DEF Entries
      <4>2. i + 1 \in DOMAIN a /\ 1 \in DOMAIN a /\ i + 1 # 1 /\ a[i + 1] = e
        BY <4>1, <2>9, <2>10
      <4>3. e # a[1]
        BY <4>2, <1>3 DEF UniqueKeys
      <4> QED
        BY <4>2, <4>3 DEF Entries
    <3>2. ASSUME NEW e \in Entries(a), e # a[1]
          PROVE  e \in Entries(Tail(a))
      <4>1. PICK i \in 1..(n + 1) : a[i] = e
        BY <2>5 DEF Entries
      <4>2. i # 1
        BY <4>1, <3>2
      <4>3. i - 1 \in 1..n
        BY <4>2, <1>1
      <4>4. Tail(a)[i - 1] = a[(i - 1) + 1] /\ (i - 1) + 1 = i
        BY <4>3, <2>3, <2>4, <1>1
      <4>5. Tail(a)[i - 1] = e
        BY <4>1, <4>4
      <4> QED
        BY <4>3, <4>5, <2>5 DEF Entries
    <3> QED
      BY <3>1, <3>2
  <2> QED
    BY <1>3, <1>5, <2>1, <2>3, <2>4, <2>6, <2>7, <2>8 DEF new, Table, a
<1> QED
  BY <1>4, <1>5
=============================================================================
