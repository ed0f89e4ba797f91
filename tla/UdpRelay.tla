------------------------------ MODULE UdpRelay ------------------------------
(***************************************************************************)
(* server/udprelay.c as ssr-server builds it (MODULE_REMOTE): the table of *)
(* UDP associations between clients and remote hosts, with the resolver    *)
(* and the timers that work on it.                                         *)
(*                                                                         *)
(* One remote_ctx_t, with its socket, serves the datagrams of one client.  *)
(* It is found under hash_key(af, src_addr), where af is the family of the *)
(* destination the client names: AF_INET, AF_INET6, or AF_UNSPEC for every *)
(* host name.  Host names are resolved asynchronously, so the answer meets *)
(* a table that may have changed.                                          *)
(***************************************************************************)
EXTENDS LruCache

CONSTANTS Clients,    \* source addresses of clients
          Ips,        \* addresses of remote hosts
          Family,     \* the address family of each of them
          Hosts,      \* host names
          LongHosts,  \* those no DNS query can carry
          Names,      \* the host names each client uses
          Answers,    \* the addresses a host name may resolve to
          Ctxs,       \* memory a remote_ctx_t may be allocated at
          Queries,    \* likewise a query_ctx_t, and the bound on their number
          Free,       \* what such memory holds when it is not allocated
          None,       \* NULL
          MaxConns,   \* MAX_UDP_CONN_NUM
          MaxTraffic  \* bound: datagrams and replies in a behaviour

ASSUME UdpAssumption ==
  /\ Family \in [Ips -> {"inet", "inet6"}]
  /\ LongHosts \subseteq Hosts
  /\ Names \in [Clients -> SUBSET Hosts]
  /\ Answers \in [Hosts -> SUBSET Ips]
  /\ Ips \cap Hosts = {} /\ None \notin Ctxs
  /\ MaxConns \in Nat \ {0, 1}
  /\ MaxTraffic \in Nat

VARIABLES ctx,      \* what each remote_ctx_t holds
          cache,    \* conn_cache: <<af, client>> to remote_ctx_t
          query,    \* what each query_ctx_t holds
          traffic,  \* how much traffic there has been
          sent,     \* the datagrams handed to the sockets of remotes
          replied   \* the datagrams handed to clients

vars == <<ctx, cache, query, traffic, sent, replied>>

-----------------------------------------------------------------------------
Dests   == Ips \cup Hosts
Afs     == {"inet", "inet6", "unspec"}
Context == [af : Afs, src : Clients, header : Dests, dst : Ips]
Request == [src : Clients, host : Hosts, ctx : Ctxs \cup {None}, asked : BOOLEAN]

ASSUME FreeAssumption == Free \notin Context /\ Free \notin Request

\* dst_addr.ss_family after parse_udprealy_header.
Af(d) == IF d \in Ips THEN Family[d] ELSE "unspec"

\* hash_key.
Key(af, client) == <<af, client>>

Live == {c \in Ctxs : ctx[c] # Free}

\* The addresses a datagram for d may go to.
Reaches(d) == IF d \in Ips THEN {d} ELSE Answers[d]

Datagram(s, d, to)     == [src |-> s, dest |-> d, to |-> to]
Reply(s, label, from)  == [client |-> s, label |-> label, from |-> from]

\* close_and_free_remote, for the contexts in dead.
Freed(contexts, dead) ==
  [c \in Ctxs |-> IF c \in dead THEN Free ELSE contexts[c]]

\* A remote_ctx_t for client s, and its dst_addr assigned later.
Opened(af, s, d, a) == [af |-> af, src |-> s, header |-> d, dst |-> a]
Redirected(r, a)    == [af |-> r.af, src |-> r.src, header |-> r.header, dst |-> a]

-----------------------------------------------------------------------------
\* sendto on the socket of context c does nothing (an error), or a datagram for d
\* goes to address a.
SendTo(contexts, c, d, a) ==
  /\ ctx' = contexts
  /\ UNCHANGED sent \/ sent' = sent \cup {Datagram(contexts[c].src, d, a)}

\* A defect for comparison: the new context keeps the destination of the
\* request, not the address it was resolved to.
AssociateUnresolved(af, s, d, a) ==
  \/ UNCHANGED <<ctx, cache, sent>>
  \/ \E c \in Ctxs \ Live :
       /\ ctx' = Freed([ctx EXCEPT ![c] = Opened(af, s, d, d)],
                       EvictedData(cache, Key(af, s), c, MaxConns))
       /\ cache' = Inserted(cache, Key(af, s), c, MaxConns)
       /\ sent' = sent \cup {Datagram(s, d, a)}

(***************************************************************************)
(* A cache miss with a known address: a socket is opened (or not), the     *)
(* datagram is sent (or the new context is dropped again), and only then   *)
(* the context enters the cache, which may evict the oldest one.           *)
(***************************************************************************)
Associate(af, s, d, a) ==
  \/ UNCHANGED <<ctx, cache, sent>>
  \/ \E c \in Ctxs \ Live :
       /\ ctx' = Freed([ctx EXCEPT ![c] = Opened(af, s, d, a)],
                       EvictedData(cache, Key(af, s), c, MaxConns))
       /\ cache' = Inserted(cache, Key(af, s), c, MaxConns)
       /\ sent' = sent \cup {Datagram(s, d, a)}

\* resolv_query with a new query_ctx_t.  When the query goes out for neither
\* family, and for a name no DNS query can carry it never does, a pointer is
\* returned like for any other, but the callback will never run.
Ask(s, h, c) ==
  /\ \E q \in Queries, asked \in {FALSE, h \notin LongHosts} :
       /\ query[q] = Free
       /\ query' = [query EXCEPT ![q] = [src |-> s, host |-> h, ctx |-> c, asked |-> asked]]
  /\ UNCHANGED <<ctx, sent>>

\* A defect for comparison: a hit always uses the address in the context.
ServerRecvHitNoMismatch(s, d) ==
  LET key == Key(Af(d), s)
      c   == Find(cache, key)
  IN  /\ Has(cache, key)
      /\ cache' = Refreshed(cache, key)
      /\ SendTo(ctx, c, d, ctx[c].dst)
      /\ UNCHANGED query

(***************************************************************************)
(* server_recv_cb: client s sends a datagram for d.  The cache is looked   *)
(* up by client and family; the header stored in the context tells whether *)
(* dst_addr of the context is the address of d ("detect destination        *)
(* mismatch").                                                             *)
(***************************************************************************)
ServerRecvHit(s, d) ==
  LET key == Key(Af(d), s)
      c   == Find(cache, key)
  IN  /\ Has(cache, key)
      /\ cache' = Refreshed(cache, key)
      /\ \/ /\ ctx[c].header = d
            /\ SendTo(ctx, c, d, ctx[c].dst)
            /\ UNCHANGED query
         \/ /\ ctx[c].header # d /\ d \in Ips
            /\ SendTo(ctx, c, d, d)
            /\ UNCHANGED query
         \/ /\ ctx[c].header # d /\ d \in Hosts
            /\ Ask(s, d, c)

ServerRecvMiss(s, d) ==
  /\ ~Has(cache, Key(Af(d), s))
  /\ \/ /\ d \in Ips
        /\ Associate(Af(d), s, d, d)
        /\ UNCHANGED query
     \/ /\ d \in Hosts
        /\ Ask(s, d, None)
        /\ UNCHANGED cache

ServerRecvCb(s, d) ==
  /\ traffic < MaxTraffic
  /\ traffic' = traffic + 1
  /\ ServerRecvHit(s, d) \/ ServerRecvMiss(s, d)
  /\ UNCHANGED replied

-----------------------------------------------------------------------------
(***************************************************************************)
(* query_resolve_cb, with a an address or, on failure, None.  The context  *)
(* that was hit when the query was made is used as it was saved; only a    *)
(* query made on a miss looks the cache up again.  If the saved context    *)
(* is gone the write goes to freed memory: nothing is said of its effect   *)
(* but that the query ends.                                                *)
(***************************************************************************)
QueryContext(q) ==
  LET key == Key("unspec", query[q].src)
  IN  IF query[q].ctx # None THEN query[q].ctx
      ELSE IF Has(cache, key) THEN Find(cache, key) ELSE None

QueryCache(q) ==
  IF query[q].ctx # None THEN cache
  ELSE Refreshed(cache, Key("unspec", query[q].src))

QueryResolved(q, a) ==
  LET c == QueryContext(q)
  IN  IF c = None
        THEN Associate("unspec", query[q].src, query[q].host, a)
        ELSE /\ cache' = QueryCache(q)
             /\ IF c \in Live
                  THEN SendTo([ctx EXCEPT ![c] = Redirected(ctx[c], a)], c, query[q].host, a)
                  ELSE UNCHANGED <<ctx, sent>>

QueryResolveCb(q) ==
  /\ query[q] # Free /\ query[q].asked
  /\ query' = [query EXCEPT ![q] = Free]
  /\ \/ UNCHANGED <<ctx, cache, sent>>
     \/ \E a \in Answers[query[q].host] : QueryResolved(q, a)
  /\ UNCHANGED <<traffic, replied>>

\* A defect for comparison: every reply repeats the header of the context.
LabelAsSaved(c, a) == ctx[c].header

(***************************************************************************)
(* remote_recv_cb: the socket of c is never connected, so it takes a       *)
(* datagram of anybody and hands it to the client.  A context of a known   *)
(* family names the sender to the client, one that was made for a host     *)
(* name repeats the header it was made with.                               *)
(***************************************************************************)
Label(c, a) == IF ctx[c].af = "unspec" THEN ctx[c].header ELSE a

RemoteRecvCb(c) ==
  /\ c \in Live
  /\ traffic < MaxTraffic
  /\ traffic' = traffic + 1
  /\ \E a \in Ips :
       replied' = replied \cup {Reply(ctx[c].src, Label(c, a), a)}
  /\ UNCHANGED <<ctx, cache, query, sent>>

\* A defect for comparison: the key is made with the family of the address the
\* context writes to, not with the family it was inserted under.
RemoteTimeoutCbPeerFamily(c) ==
  LET key == Key(Family[ctx[c].dst], ctx[c].src)
  IN  /\ c \in Live
      /\ cache' = Removed(cache, key)
      /\ ctx' = Freed(ctx, RemovedData(cache, key))
      /\ UNCHANGED <<query, traffic, sent, replied>>

\* remote_timeout_cb: cache_remove, whose free_cb frees the context it finds.
RemoteTimeoutCb(c) ==
  LET key == Key(ctx[c].af, ctx[c].src)
  IN  /\ c \in Live
      /\ cache' = Removed(cache, key)
      /\ ctx' = Freed(ctx, RemovedData(cache, key))
      /\ UNCHANGED <<query, traffic, sent, replied>>

-----------------------------------------------------------------------------
Init ==
  /\ ctx = [c \in Ctxs |-> Free]
  /\ cache = <<>>
  /\ query = [q \in Queries |-> Free]
  /\ traffic = 0
  /\ sent = {} /\ replied = {}

Next ==
  \/ \E s \in Clients : \E d \in Ips \cup Names[s] : ServerRecvCb(s, d)
  \/ \E q \in Queries : QueryResolveCb(q)
  \/ \E c \in Ctxs : RemoteRecvCb(c) \/ RemoteTimeoutCb(c)

(***************************************************************************)
(* The resolver answers or times out each query.  The timer of a context   *)
(* fires when traffic stops, and MaxTraffic makes it stop.                 *)
(***************************************************************************)
Fairness ==
  /\ \A q \in Queries : WF_vars(QueryResolveCb(q))
  /\ \A c \in Ctxs : WF_vars(RemoteTimeoutCb(c))

Spec     == Init /\ [][Next]_vars
FairSpec == Spec /\ Fairness

-----------------------------------------------------------------------------
(***************************************************************************)
(* Properties.                                                             *)
(***************************************************************************)

\* Every variable stays within its type.
TypeOK ==
  /\ ctx \in [Ctxs -> Context \cup {Free}]
  /\ cache \in Table(Afs \X Clients, Ctxs)
  /\ query \in [Queries -> Request \cup {Free}]
  /\ traffic \in 0..MaxTraffic
  /\ sent \subseteq [src : Clients, dest : Dests, to : Ips]
  /\ replied \subseteq [client : Clients, label : Dests, from : Ips]

(***************************************************************************)
(* The table and the contexts agree.  No key is inserted twice although    *)
(* cache_insert does not look, an entry never points to a freed context,   *)
(* and every context is in the table under the key its timer will use: one *)
(* that is not can never be freed.                                         *)
(***************************************************************************)
TableSound ==
  /\ UniqueKeys(cache)
  /\ \A e \in Entries(cache) :
       e.data \in Live /\ e.key = Key(ctx[e.data].af, ctx[e.data].src)
  /\ \A c \in Live : \E e \in Entries(cache) : e.data = c
  /\ Len(cache) < MaxConns

\* A datagram goes to the address its header names, or to one the host name
\* in the header resolves to, whichever query was answered in between.
Routed == \A m \in sent : m.to \in Reaches(m.dest)

(***************************************************************************)
(* What a client is told of a reply's origin is true or its own word.  The *)
(* reply comes under its sender's address to a client that has written to  *)
(* an address, or under a host name to a client that has had a datagram    *)
(* sent under this name; whichever contexts were evicted, timed out or     *)
(* hit by late answers before.  The sender need not be one the client has  *)
(* written to: the socket takes datagrams of anybody.                      *)
(***************************************************************************)
Labelled ==
  \A r \in replied : \E m \in sent :
    /\ m.src = r.client
    /\ \/ m.dest \in Hosts /\ r.label = m.dest
       \/ m.dest \in Ips /\ r.label = r.from

\* A query that waits for its answer refers to no context, or to one that
\* still serves its client.
SavedContextValid ==
  \A q \in Queries :
    query[q] # Free /\ query[q].asked /\ query[q].ctx # None =>
      /\ query[q].ctx \in Live
      /\ ctx[query[q].ctx].src = query[q].src

\* When traffic stops, everything is released in the end: no context is left,
\* not even one that was evicted, hit again or raced by a second query for the
\* same client, and no query but those that were never asked: nobody frees their
\* query_ctx_t.
Drains ==
  <>[](/\ Live = {} /\ cache = <<>>
       /\ \A q \in Queries : query[q] # Free => ~query[q].asked)
=============================================================================
