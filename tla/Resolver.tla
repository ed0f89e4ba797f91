------------------------------ MODULE Resolver ------------------------------
(***************************************************************************)
(* server/resolv.c: one question for a name is two DNS queries, A and      *)
(* AAAA, that udns holds at the same time and answers or times out in any  *)
(* order.  The answers are collected in one array, and when both queries   *)
(* are over the client is called with the best of them.                    *)
(*                                                                         *)
(* A ResolvQuery exists exactly as long as one of its two queries is in    *)
(* flight: resolv_query frees it again if neither could be submitted, and  *)
(* returns the pointer all the same.                                       *)
(* udns is external: it calls back once for every query it holds that was  *)
(* not cancelled.                                                          *)
(***************************************************************************)
EXTENDS Integers, Sequences

CONSTANTS Queries,    \* where a ResolvQuery may be allocated
          Addresses,
          Family,     \* the family of each address
          Zone,       \* the addresses each name has
          Preferring, \* resolv_mode: the family that is preferred
          MaxRecords, \* the most addresses one DNS answer carries
          None,       \* NULL
          Nothing     \* no callback, no name

Families == {"inet", "inet6"}

ASSUME ResolverAssumption ==
  /\ Family \in [Addresses -> Families]
  /\ \A n \in DOMAIN Zone : Zone[n] \subseteq Addresses
  /\ Preferring \in Families
  /\ MaxRecords \in Nat
  /\ None \notin Addresses
  /\ Nothing \notin DOMAIN Zone

VARIABLES left,       \* cb_data->queries: the families still in flight
          name,       \* the hostname asked for
          responses,  \* cb_data->responses
          told        \* the call of client_cb made by the last step, if any:
              \* the ResolvQuery, the address, and (history) the responses

resolverVars == <<left, name, responses, told>>

Live(q) == left[q] # {}

AddressesIn(rs) == {rs[i] : i \in DOMAIN rs}
HeardOf(q) == AddressesIn(responses[q])

-----------------------------------------------------------------------------
ResolverInit ==
  /\ left = [q \in Queries |-> {}]
  /\ name = [q \in Queries |-> Nothing]
  /\ responses = [q \in Queries |-> <<>>]
  /\ told = Nothing

\* resolv_query, which returns q: each of the two queries is submitted or not,
\* and if neither is the ResolvQuery is freed before its place is returned.
ResolvQuery(q, n) ==
  /\ ~Live(q)
  /\ \E sent \in SUBSET Families :
       /\ left' = [left EXCEPT ![q] = sent]
       /\ name' = [name EXCEPT ![q] = IF sent = {} THEN Nothing ELSE n]
  /\ told' = Nothing
  /\ UNCHANGED responses

\* The ResolvQuery is freed.
FreeQuery(q) ==
  /\ left' = [left EXCEPT ![q] = {}]
  /\ name' = [name EXCEPT ![q] = Nothing]
  /\ responses' = [responses EXCEPT ![q] = <<>>]

ResolvCancel(q) == Live(q) /\ FreeQuery(q) /\ told' = Nothing

\* Every query that is left is cancelled when its connection is closed at exit.
CancelAll ==
  /\ left' = [q \in Queries |-> {}]
  /\ name' = [q \in Queries |-> Nothing]
  /\ responses' = [q \in Queries |-> <<>>]
  /\ told' = Nothing

\* A defect for comparison: whatever came first.
BestAddressFirst(rs) == IF rs = <<>> THEN None ELSE rs[1]

\* choose_ipv4_first and choose_ipv6_first, with choose_any behind them.
BestAddress(rs) ==
  LET fits == {i \in DOMAIN rs : Family[rs[i]] = Preferring}
  IN  IF rs = <<>> THEN None
      ELSE IF fits = {} THEN rs[1]
      ELSE rs[CHOOSE i \in fits : \A j \in fits : i <= j]

\* What udns may bring for one query: some addresses of that family, in any
\* order, or none when the query failed or timed out.
Records(n, f) ==
  UNION {[1..k -> {a \in Zone[n] : Family[a] = f}] : k \in 0..MaxRecords}

\* A defect for comparison: the query is not marked as completed.
FirstAnswerUnmarked(q, f) ==
  /\ f \in left[q] /\ left[q] # {f}
  /\ \E rs \in Records(name[q], f) :
       responses' = [responses EXCEPT ![q] = rs]
  /\ told' = Nothing
  /\ UNCHANGED <<name, left>>

\* dns_query_v4_cb and dns_query_v6_cb while the other query is in flight.
FirstAnswer(q, f) ==
  /\ f \in left[q] /\ left[q] # {f}
  /\ \E rs \in Records(name[q], f) :
       responses' = [responses EXCEPT ![q] = @ \o rs]
  /\ left' = [left EXCEPT ![q] = @ \ {f}]
  /\ told' = Nothing
  /\ UNCHANGED name

\* The same when this query is the last one: process_client_callback.
LastAnswer(q, f) ==
  /\ left[q] = {f}
  /\ \E rs \in Records(name[q], f) :
       LET all == responses[q] \o rs
       IN  told' = <<q, BestAddress(all), AddressesIn(all)>>
  /\ FreeQuery(q)

\* The resolver is not concerned.
ResolverQuiet == UNCHANGED <<left, name, responses>> /\ told' = Nothing

ResolverNext ==
  \/ \E q \in Queries :
       \/ \E n \in DOMAIN Zone : ResolvQuery(q, n)
       \/ ResolvCancel(q)
       \/ \E f \in Families : FirstAnswer(q, f) \/ LastAnswer(q, f)
  \/ CancelAll
  \/ ResolverQuiet

ResolverSpec == ResolverInit /\ [][ResolverNext]_resolverVars

-----------------------------------------------------------------------------
ResolverTypeOK ==
  /\ left \in [Queries -> SUBSET Families]
  /\ name \in [Queries -> DOMAIN Zone \cup {Nothing}]
  /\ responses \in [Queries -> Seq(Addresses)]
  /\ told \in {Nothing} \cup
       (Queries \X (Addresses \cup {None}) \X SUBSET Addresses)

\* A freed ResolvQuery keeps nothing, and what a live one has collected are
\* addresses of its name, of the family that is over.
Collected ==
  \A q \in Queries :
    /\ ~Live(q) <=> name[q] = Nothing
    /\ ~Live(q) => responses[q] = <<>>
    /\ Live(q) => HeardOf(q) \subseteq Zone[name[q]]

Service ==
  INSTANCE NameService WITH
    Preferred <- {a \in Addresses : Family[a] = Preferring},
    asked <- name, heard <- [q \in Queries |-> HeardOf(q)], told <- told

(***************************************************************************)
(* resolv.c implements NameService: one question, one call of client_cb,   *)
(* none after resolv_cancel, and the choice between A and AAAA does not    *)
(* depend on which answer came first.                                      *)
(***************************************************************************)
OneAnswer == Service!ServiceSpec
=============================================================================
