--------------------------- MODULE UdpRelayProofs ---------------------------
(***************************************************************************)
(* Theorems about UdpRelay, for any clients, addresses, names, memory and  *)
(* capacity of the table.                                                  *)
(***************************************************************************)
EXTENDS UdpRelay, LruCacheProofs

Contexts == [Ctxs -> Context \cup {Free}]
Conns    == Table(Afs \X Clients, Ctxs)

\* The rows of a table and the live contexts are the same associations.
Owned(contexts, table) ==
  /\ \A e \in Entries(table) :
       /\ e.data \in Ctxs /\ contexts[e.data] # Free
       /\ e.key = Key(contexts[e.data].af, contexts[e.data].src)
  /\ \A c \in Ctxs :
       contexts[c] # Free => \E e \in Entries(table) : e.data = c

\* TableSound in these terms.
LEMMA TableSoundIsOwned ==
  TableSound <=> UniqueKeys(cache) /\ Owned(ctx, cache) /\ Len(cache) < MaxConns
BY DEF TableSound, Owned, Live

\* A context has the fields its type says, and is never taken for free memory.
LEMMA ContextFields ==
  ASSUME NEW r \in Context
  PROVE  /\ r.af \in Afs /\ r.src \in Clients /\ r.header \in Dests
         /\ r.dst \in Ips
         /\ r # Free
         /\ Key(r.af, r.src) \in Afs \X Clients
BY FreeAssumption DEF Context, Key

LEMMA OpenedContext ==
  ASSUME NEW af \in Afs, NEW s \in Clients, NEW d \in Dests, NEW a \in Ips
  PROVE  /\ Opened(af, s, d, a) \in Context
         /\ Opened(af, s, d, a).af = af
         /\ Opened(af, s, d, a).src = s
         /\ Opened(af, s, d, a).header = d
         /\ Opened(af, s, d, a).dst = a
BY DEF Opened, Context

LEMMA RedirectedContext ==
  ASSUME NEW r \in Context, NEW a \in Ips
  PROVE  /\ Redirected(r, a) \in Context
         /\ Redirected(r, a).af = r.af
         /\ Redirected(r, a).src = r.src
         /\ Redirected(r, a).header = r.header
         /\ Redirected(r, a).dst = a
BY ContextFields DEF Redirected, Context

\* Two tables of contexts that agree on what is free and on whose each is.
SameOwners(f, g) ==
  \A c \in Ctxs : /\ f[c] = Free <=> g[c] = Free
                  /\ f[c] # Free => g[c].af = f[c].af /\ g[c].src = f[c].src

\* Reordering the table or changing dst_addr disturbs nothing.
LEMMA OwnedSame ==
  ASSUME NEW f, NEW g, NEW t, NEW u, Owned(f, t),
         Entries(u) = Entries(t), SameOwners(f, g)
  PROVE  Owned(g, u)
BY DEF Owned, SameOwners

\* A new association: one row more, and perhaps the oldest one less, whose
\* context is freed.
LEMMA OwnedInsert ==
  ASSUME NEW f \in Contexts, NEW t \in Conns, UniqueKeys(t), Owned(f, t),
         Len(t) < MaxConns, NEW c \in Ctxs, f[c] = Free, NEW r \in Context,
         Key(r.af, r.src) \notin KeysOf(t),
         NEW u, u = Inserted(t, Key(r.af, r.src), c, MaxConns),
         NEW h, h = Freed([f EXCEPT ![c] = r],
                          EvictedData(t, Key(r.af, r.src), c, MaxConns))
  PROVE  /\ u \in Conns /\ UniqueKeys(u) /\ Len(u) < MaxConns
         /\ h \in Contexts /\ Owned(h, u)
<1> DEFINE k == Key(r.af, r.src)
           g == [f EXCEPT ![c] = r]
           gone == EvictedData(t, k, c, MaxConns)
           all == Entries(t) \cup {Entry(k, c)}
<1>1. k \in Afs \X Clients /\ r # Free
  BY ContextFields
<1>2. MaxConns \in Nat
  BY UdpAssumption
<1> HIDE DEF k
<1>3. /\ u \in Conns /\ UniqueKeys(u) /\ Len(u) < MaxConns
      /\ \/ Entries(u) = all /\ gone = {}
         \/ \E e \in all : Entries(u) = all \ {e} /\ gone = {e.data}
  <2>1. k \notin KeysOf(t)
    BY DEF k
  <2>2. u = Inserted(t, k, c, MaxConns)
    BY DEF k
  <2>3. t \in Table(Afs \X Clients, Ctxs)
    BY DEF Conns
  <2> HIDE DEF gone, all
  <2>4. /\ Inserted(t, k, c, MaxConns) \in Table(Afs \X Clients, Ctxs)
        /\ Len(Inserted(t, k, c, MaxConns)) < MaxConns
        /\ UniqueKeys(Inserted(t, k, c, MaxConns))
        /\ \/ /\ Entries(Inserted(t, k, c, MaxConns)) = all
              /\ gone = {}
           \/ \E e \in all :
                /\ Entries(Inserted(t, k, c, MaxConns)) = all \ {e}
                /\ gone = {e.data}
    BY <1>1, <1>2, <2>1, <2>3, InsertedFacts DEF gone, all
  <2> QED
    BY <2>2, <2>4 DEF Conns
<1>4. /\ g \in Contexts /\ g[c] = r
      /\ \A x \in Ctxs : x # c => g[x] = f[x]
  BY DEF Contexts
<1>5. h = [x \in Ctxs |-> IF x \in gone THEN Free ELSE g[x]]
  BY DEF Freed, k
<1>6. Entry(k, c).key = k /\ Entry(k, c).data = c
  BY DEF Entry
<1> HIDE DEF g, gone
<1>7. h \in Contexts
  BY <1>4, <1>5 DEF Contexts
<1>8. \A e \in Entries(t) : e.data # c
  BY DEF Owned
<1>9. \A e \in all : /\ e.data \in Ctxs /\ g[e.data] # Free
                     /\ e.key = Key(g[e.data].af, g[e.data].src)
  <2> SUFFICES ASSUME NEW e \in all
               PROVE  /\ e.data \in Ctxs /\ g[e.data] # Free
                      /\ e.key = Key(g[e.data].af, g[e.data].src)
    OBVIOUS
  <2>1. CASE e \in Entries(t)
    BY <2>1, <1>4, <1>8 DEF Owned
  <2>2. CASE e = Entry(k, c)
    BY <2>2, <1>1, <1>4, <1>6 DEF k
  <2> QED
    BY <2>1, <2>2
<1>10. \A x \in Ctxs : g[x] # Free => \E e \in all : e.data = x
  BY <1>4, <1>6 DEF Owned
\* One context has one row.
<1>11. \A e, d \in all : e.data = d.data => e = d
  <2> DEFINE Row == [key : Afs \X Clients, data : Ctxs]
  <2>1. \A e \in Entries(t) : e \in Row
    <3> SUFFICES ASSUME NEW e \in Entries(t) PROVE e \in Row
      OBVIOUS
    <3> t \in Seq(Row)
      BY DEF Conns, Table
    <3>1. PICK i \in 1..Len(t) : t[i] = e
      BY EntryPlace
    <3> QED
      BY <3>1, ElementOfSeq
  <2>2. Entry(k, c) \in Row
    BY <1>1 DEF Entry
  <2>3. \A e \in all : e = Entry(e.key, e.data)
    BY <2>1, <2>2 DEF Entry
  <2> QED
    BY <2>3, <1>9
<1>12. Owned(h, u)
  <2>1. CASE Entries(u) = all /\ gone = {}
    <3>1. h = g
      BY <2>1, <1>4, <1>5 DEF Contexts
    <3> QED
      BY <2>1, <3>1, <1>9, <1>10 DEF Owned
  <2>2. CASE \E e \in all : Entries(u) = all \ {e} /\ gone = {e.data}
    <3>1. PICK old \in all : Entries(u) = all \ {old} /\ gone = {old.data}
      BY <2>2
    <3>2. \A e \in Entries(u) : e.data # old.data
      BY <3>1, <1>11
    <3>3. \A x \in Ctxs : x # old.data => h[x] = g[x]
      BY <3>1, <1>5
    <3>4. h[old.data] = Free
      BY <3>1, <1>5, <1>9
    <3>5. \A e \in Entries(u) : /\ e.data \in Ctxs /\ h[e.data] # Free
                                /\ e.key = Key(h[e.data].af, h[e.data].src)
      BY <3>1, <3>2, <3>3, <1>9
    <3>6. \A x \in Ctxs : h[x] # Free => \E e \in Entries(u) : e.data = x
      BY <3>1, <3>3, <3>4, <1>10
    <3> QED
      BY <3>5, <3>6 DEF Owned
  <2> QED
    BY <1>3, <2>1, <2>2
<1> QED
  BY <1>3, <1>7, <1>12

\* The timer of a context: its row is the one removed, and it is the one freed.
LEMMA OwnedRemove ==
  ASSUME NEW f \in Contexts, NEW t \in Conns, UniqueKeys(t), Owned(f, t),
         Len(t) < MaxConns, NEW k,
         NEW u, u = Removed(t, k),
         NEW h, h = Freed(f, RemovedData(t, k))
  PROVE  /\ u \in Conns /\ UniqueKeys(u) /\ Len(u) < MaxConns
         /\ h \in Contexts /\ Owned(h, u)
<1> DEFINE gone == RemovedData(t, k)
<1>1. /\ u \in Conns /\ UniqueKeys(u) /\ Len(u) <= Len(t)
      /\ Entries(u) = {e \in Entries(t) : e.key # k}
      /\ gone = {e.data : e \in {x \in Entries(t) : x.key = k}}
  <2>1. t \in Table(Afs \X Clients, Ctxs)
    BY DEF Conns
  <2>2. /\ Removed(t, k) \in Table(Afs \X Clients, Ctxs)
        /\ Len(Removed(t, k)) <= Len(t)
        /\ UniqueKeys(Removed(t, k))
        /\ Entries(Removed(t, k)) = {e \in Entries(t) : e.key # k}
        /\ RemovedData(t, k) = {e.data : e \in {x \in Entries(t) : x.key = k}}
    BY <2>1, RemovedFacts
  <2> QED
    BY <2>2 DEF Conns
<1>2. h = [x \in Ctxs |-> IF x \in gone THEN Free ELSE f[x]]
  BY DEF Freed
<1> HIDE DEF gone
<1>3. h \in Contexts
  BY <1>2 DEF Contexts
<1>4. Len(u) < MaxConns
  BY <1>1, LenProperties, UdpAssumption
<1>5. \A e \in Entries(u) : e.data \notin gone
  BY <1>1 DEF Owned
<1>6. \A e \in Entries(u) : /\ e.data \in Ctxs /\ h[e.data] # Free
                            /\ e.key = Key(h[e.data].af, h[e.data].src)
  BY <1>1, <1>2, <1>5 DEF Owned
<1>7. \A x \in Ctxs : h[x] # Free => \E e \in Entries(u) : e.data = x
  <2> SUFFICES ASSUME NEW x \in Ctxs, h[x] # Free
               PROVE  \E e \in Entries(u) : e.data = x
    OBVIOUS
  <2>1. x \notin gone /\ f[x] # Free
    BY <1>2
  <2>2. PICK e \in Entries(t) : e.data = x
    BY <2>1 DEF Owned
  <2> QED
    BY <2>1, <2>2, <1>1
<1> QED
  BY <1>1, <1>3, <1>4, <1>6, <1>7 DEF Owned

-----------------------------------------------------------------------------
(***************************************************************************)
(* The inductive invariant: every variable has its type and the table and  *)
(* the contexts agree.  Neither is inductive alone: what a timer removes   *)
(* keeps the agreement only because keys are unique, and they stay unique  *)
(* only because a key is inserted on a miss.                               *)
(***************************************************************************)
Core ==
  /\ ctx \in Contexts
  /\ cache \in Conns /\ UniqueKeys(cache) /\ Len(cache) < MaxConns
  /\ Owned(ctx, cache)

Rest ==
  /\ query \in [Queries -> Request \cup {Free}]
  /\ traffic \in 0..MaxTraffic
  /\ sent \subseteq [src : Clients, dest : Dests, to : Ips]
  /\ replied \subseteq [client : Clients, label : Dests, from : Ips]

IInv == TypeOK /\ TableSound

LEMMA IInvParts == IInv <=> Core /\ Rest
BY TableSoundIsOwned DEF IInv, TypeOK, Core, Rest, Contexts, Conns

\* A context that serves client s, or a request of it, is what its type says.
LEMMA RequestFields ==
  ASSUME NEW q \in Queries, Rest, query[q] # Free
  PROVE  /\ query[q].src \in Clients /\ query[q].host \in Hosts
         /\ query[q].ctx \in Ctxs \cup {None}
BY DEF Rest, Request

\* A lookup finds a context in use, and one that has the key.
LEMMA Found ==
  ASSUME Core, NEW key, Has(cache, key)
  PROVE  /\ Find(cache, key) \in Ctxs
         /\ ctx[Find(cache, key)] \in Context
         /\ ctx[Find(cache, key)] # Free
         /\ key = Key(ctx[Find(cache, key)].af, ctx[Find(cache, key)].src)
<1> DEFINE c == Find(cache, key)
<1>1. cache \in Table(Afs \X Clients, Ctxs)
  BY DEF Core, Conns
<1>2. c \in Ctxs /\ Entry(key, c) \in Entries(cache)
  BY <1>1, FindFacts DEF Core
<1>3. Entry(key, c).key = key /\ Entry(key, c).data = c
  BY DEF Entry
<1>4. ctx[c] # Free /\ key = Key(ctx[c].af, ctx[c].src)
  BY <1>2, <1>3 DEF Core, Owned
<1>5. ctx[c] \in Context
  BY <1>2, <1>4 DEF Core, Contexts
<1> QED
  BY <1>2, <1>4, <1>5

\* Looking up and keeping or changing contexts without changing their owners.
LEMMA CoreSame ==
  ASSUME Core, NEW key, NEW g \in Contexts, SameOwners(ctx, g),
         ctx' = g, cache' = cache \/ cache' = Refreshed(cache, key)
  PROVE  Core'
<1>1. cache \in Table(Afs \X Clients, Ctxs)
  BY DEF Core, Conns
<1>2. /\ Refreshed(cache, key) \in Table(Afs \X Clients, Ctxs)
      /\ Len(Refreshed(cache, key)) = Len(cache)
      /\ UniqueKeys(Refreshed(cache, key))
      /\ Entries(Refreshed(cache, key)) = Entries(cache)
  BY <1>1, RefreshedFacts DEF Core
<1>3. /\ cache' \in Conns /\ UniqueKeys(cache') /\ Len(cache') < MaxConns
      /\ Entries(cache') = Entries(cache)
  BY <1>2 DEF Core, Conns
<1>4. Owned(g, cache')
  BY <1>3, OwnedSame DEF Core
<1> QED
  BY <1>3, <1>4 DEF Core

\* A send changes no context.
LEMMA SendToStep ==
  ASSUME NEW f \in Contexts, NEW c \in Ctxs, f[c] # Free,
         NEW d \in Dests, NEW a \in Ips, SendTo(f, c, d, a),
         sent \subseteq [src : Clients, dest : Dests, to : Ips]
  PROVE  /\ ctx' = f
         /\ sent' \subseteq [src : Clients, dest : Dests, to : Ips]
<1>1. f[c] \in Context
  BY DEF Contexts
<1>2. Datagram(f[c].src, d, a) \in [src : Clients, dest : Dests, to : Ips]
  BY <1>1, ContextFields DEF Datagram
<1> QED
  BY <1>2 DEF SendTo

\* A new association after a miss keeps the agreement.
LEMMA AssociateStep ==
  ASSUME Core, sent \subseteq [src : Clients, dest : Dests, to : Ips],
         NEW af \in Afs, NEW s \in Clients, NEW d \in Dests, NEW a \in Ips,
         ~Has(cache, Key(af, s)), Associate(af, s, d, a)
  PROVE  Core' /\ sent' \subseteq [src : Clients, dest : Dests, to : Ips]
<1>1. CASE UNCHANGED <<ctx, cache, sent>>
  BY <1>1 DEF Core
<1>2. CASE \E c \in Ctxs \ Live :
             /\ ctx' = Freed([ctx EXCEPT ![c] = Opened(af, s, d, a)],
                             EvictedData(cache, Key(af, s), c, MaxConns))
             /\ cache' = Inserted(cache, Key(af, s), c, MaxConns)
             /\ sent' = sent \cup {Datagram(s, d, a)}
  <2>1. PICK c \in Ctxs \ Live :
             /\ ctx' = Freed([ctx EXCEPT ![c] = Opened(af, s, d, a)],
                             EvictedData(cache, Key(af, s), c, MaxConns))
             /\ cache' = Inserted(cache, Key(af, s), c, MaxConns)
             /\ sent' = sent \cup {Datagram(s, d, a)}
    BY <1>2
  <2> DEFINE r == Opened(af, s, d, a)
  <2>2. r \in Context /\ r.af = af /\ r.src = s
    BY OpenedContext
  <2>3. c \in Ctxs /\ ctx[c] = Free
    BY DEF Live
  <2>4. Key(r.af, r.src) \notin KeysOf(cache)
    BY <2>2 DEF Has
  <2>5. /\ ctx' = Freed([ctx EXCEPT ![c] = r],
                        EvictedData(cache, Key(r.af, r.src), c, MaxConns))
        /\ cache' = Inserted(cache, Key(r.af, r.src), c, MaxConns)
    BY <2>1, <2>2
  <2> HIDE DEF r
  <2>6. /\ cache' \in Conns /\ UniqueKeys(cache') /\ Len(cache') < MaxConns
        /\ ctx' \in Contexts /\ Owned(ctx', cache')
    BY <2>2, <2>3, <2>4, <2>5, OwnedInsert DEF Core
  <2>7. Datagram(s, d, a) \in [src : Clients, dest : Dests, to : Ips]
    BY DEF Datagram
  <2> QED
    BY <2>1, <2>6, <2>7 DEF Core
<1> QED
  BY <1>1, <1>2 DEF Associate

\* A query is made for a client and a host name.
LEMMA AskStep ==
  ASSUME Rest, NEW s \in Clients, NEW h \in Hosts, NEW c \in Ctxs \cup {None},
         Ask(s, h, c)
  PROVE  query' \in [Queries -> Request \cup {Free}] /\ UNCHANGED <<ctx, sent>>
<1>1. \A asked \in {FALSE, h \notin LongHosts} :
        [src |-> s, host |-> h, ctx |-> c, asked |-> asked] \in Request
  BY DEF Request
<1> QED
  BY <1>1 DEF Ask, Rest

\* The family of a destination is one a key can have.
LEMMA AfFacts == \A d \in Dests : Af(d) \in Afs
BY UdpAssumption DEF Dests, Af, Afs

LEMMA ServerRecvPreserves ==
  ASSUME Core, Rest, NEW s \in Clients, NEW d \in Dests, ServerRecvCb(s, d)
  PROVE  Core' /\ Rest'
<1> DEFINE key == Key(Af(d), s)
           c == Find(cache, key)
<1>1. traffic' \in 0..MaxTraffic /\ replied' = replied
  BY UdpAssumption DEF ServerRecvCb, Rest
<1>2. CASE ServerRecvHit(s, d)
  <2>1. Has(cache, key) /\ cache' = Refreshed(cache, key)
    BY <1>2 DEF ServerRecvHit
  <2>2. c \in Ctxs /\ ctx[c] \in Context /\ ctx[c] # Free
    BY <2>1, Found
  <2>3. ctx \in Contexts /\ sent \subseteq [src : Clients, dest : Dests, to : Ips]
    BY DEF Core, Rest
  <2>4. CASE \E a \in Ips : SendTo(ctx, c, d, a) /\ UNCHANGED query
    <3>1. PICK a \in Ips : SendTo(ctx, c, d, a) /\ UNCHANGED query
      BY <2>4
    <3>2. /\ ctx' \in Contexts /\ SameOwners(ctx, ctx') /\ ctx' = ctx
          /\ sent' \subseteq [src : Clients, dest : Dests, to : Ips]
      BY <3>1, <2>2, <2>3, SendToStep DEF SameOwners
    <3>3. Core'
      BY <2>1, <3>2, CoreSame
    <3> QED
      BY <1>1, <3>1, <3>2, <3>3 DEF Rest
  <2>5. CASE d \in Hosts /\ Ask(s, d, c)
    <3>1. query' \in [Queries -> Request \cup {Free}] /\ UNCHANGED <<ctx, sent>>
      BY <2>2, <2>5, AskStep
    <3>2. SameOwners(ctx, ctx)
      BY DEF SameOwners
    <3>3. Core'
      BY <2>1, <2>3, <3>1, <3>2, CoreSame
    <3> QED
      BY <1>1, <3>1, <3>3 DEF Rest
  <2>6. ctx[c].dst \in Ips
    BY <2>2, ContextFields
  <2> QED
    BY <1>2, <2>4, <2>5, <2>6 DEF ServerRecvHit
<1>3. CASE ServerRecvMiss(s, d)
  <2>1. ~Has(cache, key)
    BY <1>3 DEF ServerRecvMiss
  <2>2. CASE d \in Ips /\ Associate(Af(d), s, d, d) /\ UNCHANGED query
    <3>1. Core' /\ sent' \subseteq [src : Clients, dest : Dests, to : Ips]
      BY <2>1, <2>2, AssociateStep, AfFacts DEF Rest
    <3> QED
      BY <1>1, <2>2, <3>1 DEF Rest
  <2>3. CASE d \in Hosts /\ Ask(s, d, None) /\ UNCHANGED cache
    <3>1. query' \in [Queries -> Request \cup {Free}] /\ UNCHANGED <<ctx, sent>>
      BY <2>3, AskStep
    <3> QED
      BY <1>1, <2>3, <3>1 DEF Core, Rest
  <2> QED
    BY <1>3, <2>2, <2>3 DEF ServerRecvMiss
<1> QED
  BY <1>2, <1>3 DEF ServerRecvCb

\* The answer may meet any table; it inserts only after its own lookup missed.
LEMMA QueryResolvePreserves ==
  ASSUME Core, Rest, NEW q \in Queries, QueryResolveCb(q)
  PROVE  Core' /\ Rest'
<1> DEFINE s == query[q].src
           h == query[q].host
           key == Key("unspec", s)
           c == QueryContext(q)
<1>1. s \in Clients /\ h \in Hosts /\ query[q].ctx \in Ctxs \cup {None}
  BY RequestFields DEF QueryResolveCb
<1>2. /\ query' \in [Queries -> Request \cup {Free}]
      /\ traffic' = traffic /\ replied' = replied
  BY DEF QueryResolveCb, Rest
<1>3. CASE UNCHANGED <<ctx, cache, sent>>
  BY <1>2, <1>3 DEF Core, Rest
<1>4. CASE \E a \in Answers[h] : QueryResolved(q, a)
  <2>1. PICK a \in Answers[h] : QueryResolved(q, a)
    BY <1>4
  <2>2. a \in Ips /\ h \in Dests /\ "unspec" \in Afs /\ None \notin Ctxs
    BY <1>1, UdpAssumption DEF Dests, Afs
  <2>3. CASE c = None
    <3>1. ~Has(cache, key)
      <4>1. query[q].ctx = None
        BY <2>3 DEF QueryContext
      <4> SUFFICES ASSUME Has(cache, key) PROVE FALSE
        OBVIOUS
      <4>2. Find(cache, key) \in Ctxs
        BY Found
      <4>3. c = Find(cache, key)
        BY <4>1 DEF QueryContext
      <4> QED
        BY <2>2, <2>3, <4>2, <4>3
    <3>2. Associate("unspec", s, h, a)
      BY <2>1, <2>3 DEF QueryResolved
    <3>3. Core' /\ sent' \subseteq [src : Clients, dest : Dests, to : Ips]
      BY <1>1, <2>2, <3>1, <3>2, AssociateStep DEF Rest
    <3> QED
      BY <1>2, <3>3 DEF Rest
  <2>4. CASE c # None
    <3>1. c \in Ctxs
      BY <1>1, <2>4, Found DEF QueryContext
    <3>2. cache' = cache \/ cache' = Refreshed(cache, key)
      BY <2>1, <2>4 DEF QueryResolved, QueryCache
    <3>3. CASE c \notin Live
      <4>1. UNCHANGED <<ctx, sent>>
        BY <2>1, <2>4, <3>3 DEF QueryResolved
      <4>2. ctx \in Contexts /\ SameOwners(ctx, ctx)
        BY DEF Core, SameOwners
      <4>3. Core'
        BY <3>2, <4>1, <4>2, CoreSame
      <4> QED
        BY <1>2, <4>1, <4>3 DEF Rest
    <3>4. CASE c \in Live
      <4> DEFINE r == Redirected(ctx[c], a)
                 f == [ctx EXCEPT ![c] = r]
      <4>1. ctx \in Contexts /\ ctx[c] \in Context /\ ctx[c] # Free
        BY <3>1, <3>4 DEF Core, Contexts, Live
      <4>2. r \in Context /\ r # Free /\ r.af = ctx[c].af /\ r.src = ctx[c].src
        BY <4>1, <2>2, RedirectedContext, ContextFields
      <4>3. SendTo(f, c, h, a)
        BY <2>1, <2>4, <3>4 DEF QueryResolved
      <4> HIDE DEF r
      <4>4. f \in Contexts /\ f[c] # Free /\ SameOwners(ctx, f)
        BY <3>1, <4>1, <4>2 DEF Contexts, SameOwners
      <4> HIDE DEF f
      <4>5. /\ ctx' = f
            /\ sent' \subseteq [src : Clients, dest : Dests, to : Ips]
        BY <2>2, <3>1, <4>3, <4>4, SendToStep DEF Rest
      <4>6. Core'
        BY <3>2, <4>4, <4>5, CoreSame
      <4> QED
        BY <1>2, <4>5, <4>6 DEF Rest
    <3> QED
      BY <3>3, <3>4
  <2> QED
    BY <2>3, <2>4
<1> QED
  BY <1>3, <1>4 DEF QueryResolveCb

LEMMA RemoteRecvPreserves ==
  ASSUME Core, Rest, NEW c \in Ctxs, RemoteRecvCb(c)
  PROVE  Core' /\ Rest'
<1>1. ctx[c] \in Context
  BY DEF RemoteRecvCb, Live, Core, Contexts
<1>2. PICK a \in Ips :
        replied' = replied \cup {Reply(ctx[c].src, Label(c, a), a)}
  BY DEF RemoteRecvCb
<1>3. Label(c, a) \in Dests /\ ctx[c].src \in Clients
  BY <1>1, ContextFields DEF Label, Dests
<1>4. Reply(ctx[c].src, Label(c, a), a) \in [client : Clients, label : Dests, from : Ips]
  BY <1>3 DEF Reply
<1>5. traffic' \in 0..MaxTraffic
  BY UdpAssumption DEF RemoteRecvCb, Rest
<1> QED
  BY <1>2, <1>4, <1>5 DEF RemoteRecvCb, Core, Rest

LEMMA RemoteTimeoutPreserves ==
  ASSUME Core, Rest, NEW c \in Ctxs, RemoteTimeoutCb(c)
  PROVE  Core' /\ Rest'
<1> DEFINE key == Key(ctx[c].af, ctx[c].src)
<1>1. /\ cache' = Removed(cache, key)
      /\ ctx' = Freed(ctx, RemovedData(cache, key))
      /\ UNCHANGED <<query, traffic, sent, replied>>
  BY DEF RemoteTimeoutCb
<1> HIDE DEF key
<1>2. /\ cache' \in Conns /\ UniqueKeys(cache') /\ Len(cache') < MaxConns
      /\ ctx' \in Contexts /\ Owned(ctx', cache')
  BY <1>1, OwnedRemove DEF Core
<1> QED
  BY <1>1, <1>2 DEF Core, Rest

LEMMA InitEstablishes == Init => Core /\ Rest
<1> SUFFICES ASSUME Init PROVE Core /\ Rest
  OBVIOUS
<1>1. cache \in Conns /\ Len(cache) = 0 /\ DOMAIN cache = {}
  BY EmptySeq, LenProperties DEF Init, Conns, Table
<1>2. UniqueKeys(cache) /\ Entries(cache) = {}
  BY <1>1 DEF UniqueKeys, Entries
<1>3. Owned(ctx, cache)
  BY <1>2 DEF Owned, Init
<1>4. 0 < MaxConns /\ 0 \in 0..MaxTraffic
  BY UdpAssumption
<1> QED
  BY <1>1, <1>2, <1>3, <1>4 DEF Init, Core, Rest, Contexts

LEMMA NextPreserves == Core /\ Rest /\ [Next]_vars => Core' /\ Rest'
<1> SUFFICES ASSUME Core, Rest, [Next]_vars PROVE Core' /\ Rest'
  OBVIOUS
<1>1. ASSUME NEW s \in Clients, NEW d \in Ips \cup Names[s], ServerRecvCb(s, d)
      PROVE  Core' /\ Rest'
  <2>1. d \in Dests
    BY UdpAssumption DEF Dests
  <2> QED
    BY <1>1, <2>1, ServerRecvPreserves
<1>2. ASSUME NEW q \in Queries, QueryResolveCb(q)
      PROVE  Core' /\ Rest'
  BY <1>2, QueryResolvePreserves
<1>3. ASSUME NEW c \in Ctxs, RemoteRecvCb(c)
      PROVE  Core' /\ Rest'
  BY <1>3, RemoteRecvPreserves
<1>4. ASSUME NEW c \in Ctxs, RemoteTimeoutCb(c)
      PROVE  Core' /\ Rest'
  BY <1>4, RemoteTimeoutPreserves
<1>5. CASE UNCHANGED vars
  BY <1>5 DEF vars, Core, Rest
<1> QED
  BY <1>1, <1>2, <1>3, <1>4, <1>5 DEF Next

-----------------------------------------------------------------------------
\* What the relay does preserves the invariant.
THEOREM UdpInductive == Spec => []IInv
<1>1. Init => IInv
  BY InitEstablishes, IInvParts
<1>2. IInv /\ [Next]_vars => IInv'
  <2>1. IInv' <=> Core' /\ Rest'
    BY IInvParts, PTL
  <2> QED
    BY <2>1, NextPreserves, IInvParts
<1> QED
  BY <1>1, <1>2, PTL DEF Spec

\* Every variable of the UDP relay stays within its type: no context is used
\* as free memory, nothing but a context is in the table (udprelay.c 360-1320).
THEOREM UdpTypeCorrect == Spec => []TypeOK
<1>1. IInv => TypeOK
  BY DEF IInv
<1> QED
  BY <1>1, UdpInductive, PTL

\* The connection table and the contexts always agree, whatever the number of
\* clients and the capacity of the table: keys are unique although cache_insert
\* does not look, no entry points to a freed context and no context is lost.
THEOREM TableAgreement == Spec => []TableSound
<1>1. IInv => TableSound
  BY DEF IInv
<1> QED
  BY <1>1, UdpInductive, PTL

-----------------------------------------------------------------------------
(***************************************************************************)
(* Labels.  For any names, however many a client uses.                     *)
(***************************************************************************)

\* The client of a context with content r has had a datagram sent: under the
\* name the context repeats or, if it repeats none, to an address.
Spoken(r, datagrams) ==
  \E m \in datagrams :
    /\ m.src = r.src
    /\ r.af = "unspec" => m.dest = r.header /\ m.dest \in Hosts
    /\ r.af # "unspec" => m.dest \in Ips

AllSpoken(contexts, datagrams) ==
  \A c \in Ctxs : contexts[c] # Free => Spoken(contexts[c], datagrams)

Candid == AllSpoken(ctx, sent) /\ Labelled

\* Contexts that are freed or redirected, and more datagrams, disturb nothing.
LEMMA SpokenStill ==
  ASSUME NEW f, NEW g, NEW D, NEW E, AllSpoken(f, D), D \subseteq E,
         \A c \in Ctxs : g[c] # Free =>
           /\ f[c] # Free /\ g[c].src = f[c].src
           /\ g[c].af = f[c].af /\ g[c].header = f[c].header
  PROVE  AllSpoken(g, E)
BY DEF AllSpoken, Spoken

LEMMA LabelledStill ==
  ASSUME Labelled, sent \subseteq sent', replied' = replied
  PROVE  Labelled'
BY DEF Labelled

\* A send on an existing context.
LEMMA SendToCandid ==
  ASSUME NEW f, NEW c, NEW d, NEW a, AllSpoken(f, sent), Labelled,
         SendTo(f, c, d, a), replied' = replied
  PROVE  Candid'
<1>1. ctx' = f /\ sent \subseteq sent'
  BY DEF SendTo
<1>2. AllSpoken(ctx', sent')
  BY <1>1, SpokenStill
<1> QED
  BY <1>1, <1>2, LabelledStill DEF Candid

\* A new context enters with the datagram its client has had sent.
LEMMA AssociateCandid ==
  ASSUME Core, Candid, replied' = replied,
         NEW af \in Afs, NEW s \in Clients, NEW d \in Dests, NEW a \in Ips,
         af = "unspec" => d \in Hosts, af # "unspec" => d \in Ips,
         Associate(af, s, d, a)
  PROVE  Candid'
<1>1. CASE UNCHANGED <<ctx, cache, sent>>
  BY <1>1, LabelledStill DEF Candid
<1>2. CASE \E c \in Ctxs \ Live :
             /\ ctx' = Freed([ctx EXCEPT ![c] = Opened(af, s, d, a)],
                             EvictedData(cache, Key(af, s), c, MaxConns))
             /\ sent' = sent \cup {Datagram(s, d, a)}
  <2>1. PICK c \in Ctxs \ Live :
             /\ ctx' = Freed([ctx EXCEPT ![c] = Opened(af, s, d, a)],
                             EvictedData(cache, Key(af, s), c, MaxConns))
             /\ sent' = sent \cup {Datagram(s, d, a)}
    BY <1>2
  <2> DEFINE r == Opened(af, s, d, a)
             gone == EvictedData(cache, Key(af, s), c, MaxConns)
             g == [ctx EXCEPT ![c] = r]
  <2>2. r.af = af /\ r.src = s /\ r.header = d
    BY OpenedContext
  <2>3. Spoken(r, sent')
    <3>1. Datagram(s, d, a) \in sent' /\ Datagram(s, d, a).src = s /\ Datagram(s, d, a).dest = d
      BY <2>1 DEF Datagram
    <3> QED
      BY <2>2, <3>1 DEF Spoken
  <2>4. ctx' = [x \in Ctxs |-> IF x \in gone THEN Free ELSE g[x]]
    BY <2>1 DEF Freed
  <2> HIDE DEF r, gone
  <2>5. AllSpoken(ctx, sent')
    BY <2>1, SpokenStill DEF Candid
  <2>6. \A x \in Ctxs : g[x] # Free => Spoken(g[x], sent')
    BY <2>3, <2>5 DEF AllSpoken, Core, Contexts
  <2>7. AllSpoken(ctx', sent')
    BY <2>4, <2>6 DEF AllSpoken
  <2> QED
    BY <2>1, <2>7, LabelledStill DEF Candid
<1> QED
  BY <1>1, <1>2 DEF Associate

LEMMA ServerRecvCandid ==
  ASSUME Core, Rest, Candid, NEW s \in Clients, NEW d \in Dests, ServerRecvCb(s, d)
  PROVE  Candid'
<1>1. replied' = replied
  BY DEF ServerRecvCb
<1>2. CASE ServerRecvHit(s, d)
  <2>1. CASE \E c, a : SendTo(ctx, c, d, a)
    BY <1>1, <2>1, SendToCandid DEF Candid
  <2>2. CASE UNCHANGED <<ctx, sent>>
    BY <1>1, <2>2, LabelledStill DEF Candid
  <2> QED
    BY <1>2, <2>1, <2>2 DEF ServerRecvHit, Ask
<1>3. CASE ServerRecvMiss(s, d)
  <2>1. CASE d \in Ips /\ Associate(Af(d), s, d, d)
    <3>1. Af(d) \in Afs /\ Af(d) # "unspec"
      BY <2>1, UdpAssumption DEF Af, Afs
    <3> QED
      BY <1>1, <2>1, <3>1, AssociateCandid
  <2>2. CASE UNCHANGED <<ctx, sent>>
    BY <1>1, <2>2, LabelledStill DEF Candid
  <2> QED
    BY <1>3, <2>1, <2>2 DEF ServerRecvMiss, Ask
<1> QED
  BY <1>2, <1>3 DEF ServerRecvCb

\* A redirected context keeps its client and its header.
LEMMA QueryResolveCandid ==
  ASSUME Core, Rest, Candid, NEW q \in Queries, QueryResolveCb(q)
  PROVE  Candid'
<1> DEFINE s == query[q].src
           h == query[q].host
           c == QueryContext(q)
<1>1. s \in Clients /\ h \in Hosts /\ replied' = replied
  BY RequestFields DEF QueryResolveCb
<1>2. CASE UNCHANGED <<ctx, sent>>
  BY <1>1, <1>2, LabelledStill DEF Candid
<1>3. CASE \E a \in Answers[h] : QueryResolved(q, a)
  <2>1. PICK a \in Answers[h] : QueryResolved(q, a)
    BY <1>3
  <2>2. a \in Ips /\ h \in Dests /\ "unspec" \in Afs
    BY <1>1, UdpAssumption DEF Dests, Afs
  <2>3. CASE c = None
    <3>1. Associate("unspec", s, h, a)
      BY <2>1, <2>3 DEF QueryResolved
    <3> QED
      BY <1>1, <2>2, <3>1, AssociateCandid
  <2>4. CASE c # None /\ c \in Live
    <3> DEFINE r == Redirected(ctx[c], a)
               f == [ctx EXCEPT ![c] = r]
    <3>1. c \in Ctxs /\ ctx[c] # Free /\ ctx[c] \in Context
      BY <2>4 DEF Live, Core, Contexts
    <3>2. /\ r.src = ctx[c].src /\ r.af = ctx[c].af /\ r.header = ctx[c].header
      BY <2>2, <3>1, RedirectedContext
    <3>3. SendTo(f, c, h, a)
      BY <2>1, <2>4 DEF QueryResolved
    <3> HIDE DEF r
    <3>4. f[c] = r /\ \A x \in Ctxs : x # c => f[x] = ctx[x]
      BY <3>1 DEF Core, Contexts
    <3> HIDE DEF f
    <3>5. AllSpoken(f, sent)
      BY <3>1, <3>2, <3>4, SpokenStill DEF Candid
    <3> QED
      BY <1>1, <3>3, <3>5, SendToCandid DEF Candid
  <2>5. CASE c # None /\ c \notin Live
    <3>1. UNCHANGED <<ctx, sent>>
      BY <2>1, <2>5 DEF QueryResolved
    <3> QED
      BY <1>2, <3>1
  <2> QED
    BY <2>3, <2>4, <2>5
<1> QED
  BY <1>2, <1>3 DEF QueryResolveCb

LEMMA RemoteRecvCandid ==
  ASSUME Core, Rest, Candid, NEW c \in Ctxs, RemoteRecvCb(c)
  PROVE  Candid'
<1>1. ctx[c] # Free /\ UNCHANGED <<ctx, sent>>
  BY DEF RemoteRecvCb, Live
<1>2. PICK a \in Ips :
        replied' = replied \cup {Reply(ctx[c].src, Label(c, a), a)}
  BY DEF RemoteRecvCb
<1>3. PICK m \in sent : /\ m.src = ctx[c].src
                        /\ ctx[c].af = "unspec" => m.dest = ctx[c].header /\ m.dest \in Hosts
                        /\ ctx[c].af # "unspec" => m.dest \in Ips
  BY <1>1 DEF Candid, AllSpoken, Spoken
<1> DEFINE r == Reply(ctx[c].src, Label(c, a), a)
<1>4. /\ r.client = ctx[c].src /\ r.from = a
      /\ ctx[c].af = "unspec" => r.label = ctx[c].header
      /\ ctx[c].af # "unspec" => r.label = a
  BY DEF Reply, Label
<1> HIDE DEF r
<1>5. /\ m.src = r.client
      /\ (m.dest \in Hosts /\ r.label = m.dest) \/ (m.dest \in Ips /\ r.label = r.from)
  BY <1>3, <1>4
<1>6. Labelled'
  <2>1. replied' = replied \cup {r} /\ sent' = sent
    BY <1>1, <1>2 DEF r
  <2> QED
    BY <1>5, <2>1 DEF Candid, Labelled
<1> QED
  BY <1>1, <1>6 DEF Candid

LEMMA RemoteTimeoutCandid ==
  ASSUME Core, Rest, Candid, NEW c \in Ctxs, RemoteTimeoutCb(c)
  PROVE  Candid'
<1>1. UNCHANGED <<sent, replied>>
  BY DEF RemoteTimeoutCb
<1>2. \A x \in Ctxs : ctx'[x] # Free => ctx'[x] = ctx[x]
  BY DEF RemoteTimeoutCb, Freed
<1>3. AllSpoken(ctx', sent')
  BY <1>1, <1>2, SpokenStill DEF Candid
<1> QED
  BY <1>1, <1>3, LabelledStill DEF Candid

\* What a client is told of a reply's origin is its sender's address or a host
\* name the client has had a datagram sent under, for any number of names and
\* of senders, whatever was evicted, timed out or answered late in between
\* (server_recv_cb, query_resolve_cb and remote_recv_cb, udprelay.c).
THEOREM RepliesLabelled == Spec => []Labelled
<1>1. Init => Candid
  BY DEF Init, Candid, AllSpoken, Labelled
<1>2. IInv /\ Candid /\ [Next]_vars => Candid'
  <2> SUFFICES ASSUME Core, Rest, Candid, [Next]_vars PROVE Candid'
    BY IInvParts
  <2>1. ASSUME NEW s \in Clients, NEW d \in Ips \cup Names[s], ServerRecvCb(s, d)
        PROVE  Candid'
    <3>1. d \in Dests
      BY UdpAssumption DEF Dests
    <3> QED
      BY <2>1, <3>1, ServerRecvCandid
  <2>2. ASSUME NEW q \in Queries, QueryResolveCb(q) PROVE Candid'
    BY <2>2, QueryResolveCandid
  <2>3. ASSUME NEW c \in Ctxs, RemoteRecvCb(c) PROVE Candid'
    BY <2>3, RemoteRecvCandid
  <2>4. ASSUME NEW c \in Ctxs, RemoteTimeoutCb(c) PROVE Candid'
    BY <2>4, RemoteTimeoutCandid
  <2>5. CASE UNCHANGED vars
    BY <2>5, LabelledStill DEF vars, Candid
  <2> QED
    BY <2>1, <2>2, <2>3, <2>4, <2>5 DEF Next
<1>3. Candid => Labelled
  BY DEF Candid
<1> QED
  BY <1>1, <1>2, <1>3, UdpInductive, PTL DEF Spec

-----------------------------------------------------------------------------
(***************************************************************************)
(* Routing.  Datagrams go where they should when no client uses two host   *)
(* names that resolve, for any clients, addresses, memory and capacity of  *)
(* the table, and any names no DNS query can carry.  The assumption cannot *)
(* be dropped: with two names a datagram goes to the other one's address   *)
(* (UdpRelayTwoNames).                                                     *)
(***************************************************************************)

OneName == \A s \in Clients : \A g, h \in Names[s] \ LongHosts : g = h

\* The context writes to an address of its header.
Fit(r) ==
  /\ r.header \in Ips => r.af = Family[r.header] /\ r.dst = r.header
  /\ r.header \in Hosts =>
       /\ r.af = "unspec"
       /\ r.header \in Names[r.src] \ LongHosts
       /\ r.dst \in Answers[r.header]

Fits(contexts) ==
  \A c \in Ctxs : contexts[c] # Free => Fit(contexts[c])

\* A query saves a context only for another name than the one the context was
\* made for, and the only other names are those that are never resolved.
QueriesFit ==
  \A q \in Queries : query[q] # Free /\ query[q].asked =>
    query[q].host \in Names[query[q].src] \ LongHosts /\ query[q].ctx = None

Direct == Fits(ctx) /\ QueriesFit /\ Routed

-----------------------------------------------------------------------------
\* The family tells an address from a name.
LEMMA Families ==
  /\ \A i \in Ips : Af(i) = Family[i] /\ Family[i] # "unspec" /\ i \notin Hosts
  /\ \A h \in Hosts : Af(h) = "unspec" /\ h \notin Ips
BY UdpAssumption DEF Af

LEMMA DirectSent ==
  ASSUME Routed, NEW m, sent' = sent \cup {m}, m.to \in Reaches(m.dest)
  PROVE  Routed'
<1>1. \A n \in sent' : n \in sent \/ n = m
  OBVIOUS
<1> QED
  BY <1>1 DEF Routed, Reaches

\* A send to an address of d.
LEMMA SendToFits ==
  ASSUME NEW f, NEW c, Fits(f), NEW d, NEW a, SendTo(f, c, d, a),
         a \in Reaches(d), Routed
  PROVE  Fits(ctx') /\ Routed'
<1>1. CASE UNCHANGED sent
  BY <1>1 DEF SendTo, Routed, Reaches
<1>2. CASE sent' = sent \cup {Datagram(f[c].src, d, a)}
  <2>1. Datagram(f[c].src, d, a).to \in Reaches(Datagram(f[c].src, d, a).dest)
    BY DEF Datagram
  <2> QED
    BY <1>2, <2>1, DirectSent DEF SendTo
<1> QED
  BY <1>1, <1>2 DEF SendTo

\* A new association for d with an address of d.
LEMMA AssociateFits ==
  ASSUME Core, Fits(ctx), Routed,
         NEW s \in Clients, NEW d \in Dests, NEW a \in Reaches(d), a \in Ips,
         d \in Hosts => d \in Names[s] \ LongHosts,
         Associate(Af(d), s, d, a)
  PROVE  Fits(ctx') /\ Routed'
<1>1. CASE UNCHANGED <<ctx, cache, sent>>
  BY <1>1 DEF Routed, Reaches
<1>2. CASE \E c \in Ctxs \ Live :
             /\ ctx' = Freed([ctx EXCEPT ![c] = Opened(Af(d), s, d, a)],
                             EvictedData(cache, Key(Af(d), s), c, MaxConns))
             /\ sent' = sent \cup {Datagram(s, d, a)}
  <2>1. PICK c \in Ctxs \ Live :
             /\ ctx' = Freed([ctx EXCEPT ![c] = Opened(Af(d), s, d, a)],
                             EvictedData(cache, Key(Af(d), s), c, MaxConns))
             /\ sent' = sent \cup {Datagram(s, d, a)}
    BY <1>2
  <2> DEFINE r == Opened(Af(d), s, d, a)
             m == Datagram(s, d, a)
             gone == EvictedData(cache, Key(Af(d), s), c, MaxConns)
             g == [ctx EXCEPT ![c] = r]
  <2>2. /\ r.af = Af(d) /\ r.src = s /\ r.header = d /\ r.dst = a
    BY AfFacts, OpenedContext
  <2>3. m.to \in Reaches(m.dest)
    BY DEF Datagram
  <2>4. ctx' = [x \in Ctxs |-> IF x \in gone THEN Free ELSE g[x]]
    BY <2>1 DEF Freed
  <2>5. Routed'
    BY <2>1, <2>3, DirectSent
  <2> HIDE DEF r, gone
  <2>6. Fit(r)
    <3>1. d \in Ips => r.af = Family[d] /\ r.dst = d
      BY <2>2, Families DEF Reaches
    <3>2. d \in Hosts => r.af = "unspec" /\ r.dst \in Answers[d]
      BY <2>2, Families DEF Reaches
    <3> QED
      BY <2>2, <3>1, <3>2 DEF Fit
  <2>7. \A x \in Ctxs : g[x] # Free => Fit(g[x])
    BY <2>6 DEF Fits, Core, Contexts
  <2>8. Fits(ctx')
    BY <2>4, <2>7 DEF Fits
  <2> QED
    BY <2>5, <2>8
<1> QED
  BY <1>1, <1>2 DEF Associate

LEMMA AskFits ==
  ASSUME Rest, QueriesFit, NEW s \in Clients, NEW h \in Names[s],
         NEW c \in Ctxs \cup {None}, c # None => h \in LongHosts, Ask(s, h, c)
  PROVE  QueriesFit'
<1>1. PICK q \in Queries, asked \in {FALSE, h \notin LongHosts} :
        query' = [query EXCEPT ![q] = [src |-> s, host |-> h, ctx |-> c, asked |-> asked]]
  BY DEF Ask
<1> DEFINE r == [src |-> s, host |-> h, ctx |-> c, asked |-> asked]
<1>2. r.src = s /\ r.host = h /\ r.ctx = c
  OBVIOUS
<1>3. r.asked => h \notin LongHosts
  OBVIOUS
<1>4. query' = [query EXCEPT ![q] = r]
  BY <1>1
<1> HIDE DEF r
<1>5. query'[q] = r /\ \A x \in Queries : x # q => query'[x] = query[x]
  BY <1>4 DEF Rest
<1> QED
  BY <1>2, <1>3, <1>5 DEF QueriesFit

-----------------------------------------------------------------------------
LEMMA ServerRecvDirect ==
  ASSUME OneName, Core, Rest, Direct,
         NEW s \in Clients, NEW d \in Ips \cup Names[s], ServerRecvCb(s, d)
  PROVE  Direct'
<1> DEFINE key == Key(Af(d), s)
           c == Find(cache, key)
           r == ctx[c]
<1>1. d \in Dests /\ (d \in Hosts => d \in Names[s])
  BY UdpAssumption DEF Dests
<1>2. CASE ServerRecvHit(s, d)
  <2>1. Has(cache, key)
    BY <1>2 DEF ServerRecvHit
  <2>2. /\ c \in Ctxs /\ r \in Context /\ r # Free
        /\ key = Key(r.af, r.src)
    BY <2>1, Found
  <2>3. r.af = Af(d) /\ r.src = s
    BY <2>2 DEF Key
  <2>4. Fit(r)
    BY <2>2 DEF Direct, Fits
  <2>5. r.dst \in Ips /\ r.header \in Dests
    BY <2>2, ContextFields
  <2>6. CASE r.header = d /\ SendTo(ctx, c, d, r.dst) /\ UNCHANGED query
    <3>1. r.dst \in Reaches(d)
      BY <2>4, <2>5, <2>6, Families DEF Fit, Reaches, Dests
    <3>2. Fits(ctx') /\ Routed'
      BY <2>6, <3>1, SendToFits DEF Direct
    <3> QED
      BY <2>6, <3>2 DEF Direct, QueriesFit
  <2>7. CASE d \in Ips /\ SendTo(ctx, c, d, d) /\ UNCHANGED query
    <3>1. d \in Reaches(d)
      BY <2>7 DEF Reaches
    <3>2. Fits(ctx') /\ Routed'
      BY <2>7, <3>1, SendToFits DEF Direct
    <3> QED
      BY <2>7, <3>2 DEF Direct, QueriesFit
  <2>8. CASE r.header # d /\ d \in Hosts /\ Ask(s, d, c)
    <3>1. r.header \in Hosts
      BY <2>3, <2>4, <2>5, <2>8, Families DEF Fit, Dests
    <3>2. d \in LongHosts
      BY <1>1, <2>3, <2>4, <2>8, <3>1 DEF Fit, OneName
    <3>3. QueriesFit' /\ UNCHANGED <<ctx, sent>>
      BY <1>1, <2>2, <2>8, <3>2, AskFits DEF Direct, Ask
    <3> QED
      BY <3>3 DEF Direct, Routed, Reaches
  <2> QED
    BY <1>2, <2>6, <2>7, <2>8 DEF ServerRecvHit
<1>3. CASE ServerRecvMiss(s, d)
  <2>1. CASE d \in Ips /\ Associate(Af(d), s, d, d) /\ UNCHANGED query
    <3>1. d \in Reaches(d) /\ d \notin Hosts
      BY <2>1, Families DEF Reaches
    <3>2. Fits(ctx') /\ Routed'
      BY <1>1, <2>1, <3>1, AssociateFits DEF Direct
    <3> QED
      BY <2>1, <3>2 DEF Direct, QueriesFit
  <2>2. CASE d \in Hosts /\ Ask(s, d, None) /\ UNCHANGED cache
    <3>1. QueriesFit' /\ UNCHANGED <<ctx, sent>>
      BY <1>1, <2>2, AskFits DEF Direct, Ask
    <3> QED
      BY <3>1 DEF Direct, Routed, Reaches
  <2> QED
    BY <1>3, <2>1, <2>2 DEF ServerRecvMiss
<1> QED
  BY <1>2, <1>3 DEF ServerRecvCb

\* The query that is answered saved no context, so the one it uses was made
\* for the same client and, the client having one name, for the same name.
LEMMA QueryResolveDirect ==
  ASSUME OneName, Core, Rest, Direct, NEW q \in Queries, QueryResolveCb(q)
  PROVE  Direct'
<1> DEFINE s == query[q].src
           h == query[q].host
           key == Key("unspec", s)
           c == Find(cache, key)
<1>1. /\ query[q] # Free /\ s \in Clients /\ h \in Hosts
      /\ h \in Names[s] \ LongHosts
      /\ query[q].ctx = None
  BY RequestFields DEF QueryResolveCb, Direct, QueriesFit
<1>2. QueriesFit'
  <2>1. \A x \in Queries : query'[x] # Free => query'[x] = query[x]
    BY DEF QueryResolveCb, Rest
  <2> QED
    BY <2>1 DEF Direct, QueriesFit
<1>3. CASE UNCHANGED <<ctx, cache, sent>>
  BY <1>2, <1>3 DEF Direct, Routed, Reaches
<1>4. CASE \E a \in Answers[h] : QueryResolved(q, a)
  <2>1. PICK a \in Answers[h] : QueryResolved(q, a)
    BY <1>4
  <2>2. /\ a \in Ips /\ h \in Dests /\ None \notin Ctxs
        /\ a \in Reaches(h) /\ Af(h) = "unspec"
    BY <1>1, UdpAssumption, Families DEF Dests, Reaches
  <2>3. CASE ~Has(cache, key)
    <3>1. QueryContext(q) = None
      BY <1>1, <2>3 DEF QueryContext
    <3>2. Associate(Af(h), s, h, a)
      BY <2>1, <2>2, <3>1 DEF QueryResolved
    <3>3. Fits(ctx') /\ Routed'
      BY <1>1, <2>2, <3>2, AssociateFits DEF Direct
    <3> QED
      BY <1>2, <3>3 DEF Direct
  <2>4. CASE Has(cache, key)
    <3>1. QueryContext(q) = c
      BY <1>1, <2>4 DEF QueryContext
    <3>2. /\ c \in Ctxs /\ ctx[c] \in Context /\ ctx[c] # Free
          /\ key = Key(ctx[c].af, ctx[c].src)
      BY <2>4, Found
    <3>3. ctx[c].af = "unspec" /\ ctx[c].src = s
      BY <3>2 DEF Key
    <3>4. Fit(ctx[c])
      BY <3>2 DEF Direct, Fits
    <3>5. ctx[c].header \in Dests
      BY <3>2, ContextFields
    <3>6. ctx[c].header \in Hosts /\ ctx[c].header \notin Ips
      BY <3>3, <3>4, <3>5, Families DEF Fit, Dests
    <3>7. ctx[c].header = h
      BY <1>1, <3>3, <3>4, <3>6 DEF Fit, OneName
    <3> DEFINE r == Redirected(ctx[c], a)
               f == [ctx EXCEPT ![c] = r]
    <3>8. r.af = "unspec" /\ r.src = s /\ r.header = h /\ r.dst = a
      BY <2>2, <3>2, <3>3, <3>7, RedirectedContext
    <3>9. SendTo(f, c, h, a)
      BY <2>1, <2>2, <3>1, <3>2 DEF QueryResolved, Live
    <3> HIDE DEF r
    <3>10. Fit(r)
      BY <1>1, <3>6, <3>7, <3>8 DEF Fit
    <3>11. Fits(f)
      BY <3>2, <3>10 DEF Core, Contexts, Direct, Fits
    <3> HIDE DEF f
    <3>12. Fits(ctx') /\ Routed'
      BY <2>2, <3>9, <3>11, SendToFits DEF Direct
    <3> QED
      BY <1>2, <3>12 DEF Direct
  <2> QED
    BY <2>3, <2>4
<1> QED
  BY <1>3, <1>4 DEF QueryResolveCb

LEMMA RemoteTimeoutDirect ==
  ASSUME Core, Rest, Direct, NEW c \in Ctxs, RemoteTimeoutCb(c)
  PROVE  Direct'
<1>1. UNCHANGED <<query, sent>>
  BY DEF RemoteTimeoutCb
<1>2. \A x \in Ctxs : ctx'[x] # Free => ctx'[x] = ctx[x]
  BY DEF RemoteTimeoutCb, Freed
<1>3. Fits(ctx')
  BY <1>2 DEF Direct, Fits
<1> QED
  BY <1>1, <1>3 DEF Direct, QueriesFit, Routed, Reaches

-----------------------------------------------------------------------------
\* A client with one name that resolves never has a datagram sent to an address
\* its header does not name (server_recv_cb and query_resolve_cb, udprelay.c).
THEOREM RoutedWithOneName ==
  ASSUME OneName
  PROVE  Spec => []Routed
<1>1. Init => Direct
  BY DEF Init, Direct, Fits, QueriesFit, Routed
<1>2. IInv /\ Direct /\ [Next]_vars => Direct'
  <2> SUFFICES ASSUME Core, Rest, Direct, [Next]_vars PROVE Direct'
    BY IInvParts
  <2>1. ASSUME NEW s \in Clients, NEW d \in Ips \cup Names[s], ServerRecvCb(s, d)
        PROVE  Direct'
    BY <2>1, ServerRecvDirect
  <2>2. ASSUME NEW q \in Queries, QueryResolveCb(q) PROVE Direct'
    BY <2>2, QueryResolveDirect
  <2>3. ASSUME NEW c \in Ctxs, RemoteRecvCb(c) PROVE Direct'
    BY <2>3 DEF RemoteRecvCb, Direct, QueriesFit, Routed, Reaches
  <2>4. ASSUME NEW c \in Ctxs, RemoteTimeoutCb(c) PROVE Direct'
    BY <2>4, RemoteTimeoutDirect
  <2>5. CASE UNCHANGED vars
    BY <2>5 DEF vars, Direct, QueriesFit, Routed, Reaches
  <2> QED
    BY <2>1, <2>2, <2>3, <2>4, <2>5 DEF Next
<1>3. Direct => Routed
  BY DEF Direct
<1> QED
  BY <1>1, <1>2, <1>3, UdpInductive, PTL DEF Spec
=============================================================================
