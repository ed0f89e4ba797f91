---------------------------- MODULE ServerProofs ----------------------------
(***************************************************************************)
(* Proofs about Server and its parts, for any number of connections,       *)
(* clients, queries and names.  First Resolver by itself implements        *)
(* NameService; then BlockList by itself mirrors the firewall and refuses  *)
(* those who deserve it; then the composition keeps both, queries belong   *)
(* to the connections that wait for them, and a blocked client stays       *)
(* blocked but for four reasons.                                           *)
(***************************************************************************)
EXTENDS Server, LruCacheProofs, FiniteSetTheorems, FunctionTheorems,
        WellFoundedInduction

-----------------------------------------------------------------------------
(***************************************************************************)
(* Resolver.                                                               *)
(***************************************************************************)
\* What udns brings is a sequence of addresses of the name that was asked for.
LEMMA RecordsAreOfTheName ==
  ASSUME NEW n \in DOMAIN Zone, NEW f, NEW rs \in Records(n, f)
  PROVE  /\ rs \in Seq(Addresses)
         /\ AddressesIn(rs) \subseteq Zone[n]
<1> DEFINE S == {a \in Zone[n] : Family[a] = f}
<1>1. PICK k \in 0..MaxRecords : rs \in [1..k -> S]
  BY DEF Records
<1>2. k \in Nat
  BY ResolverAssumption
<1>3. S \subseteq Addresses
  BY ResolverAssumption
<1>4. rs \in [1..k -> Addresses]
  BY <1>1, <1>3
<1>5. rs \in Seq(Addresses)
  BY <1>2, <1>4
<1>6. AddressesIn(rs) \subseteq Zone[n]
  BY <1>1 DEF AddressesIn
<1> QED BY <1>5, <1>6

LEMMA AddressesInConcat ==
  ASSUME NEW S, NEW s \in Seq(S), NEW t \in Seq(S)
  PROVE  /\ s \o t \in Seq(S)
         /\ AddressesIn(s \o t) = AddressesIn(s) \cup AddressesIn(t)
<1>1. /\ s \o t \in Seq(S)
      /\ Len(s \o t) = Len(s) + Len(t)
      /\ \A i \in 1..(Len(s) + Len(t)) :
           (s \o t)[i] = IF i <= Len(s) THEN s[i] ELSE t[i - Len(s)]
  BY ConcatProperties
<1>2. DOMAIN s = 1..Len(s) /\ DOMAIN t = 1..Len(t)
      /\ DOMAIN (s \o t) = 1..(Len(s) + Len(t)) /\ Len(s) \in Nat /\ Len(t) \in Nat
  BY <1>1
<1>3. ASSUME NEW i \in DOMAIN (s \o t)
      PROVE  (s \o t)[i] \in AddressesIn(s) \cup AddressesIn(t)
  <2>1. CASE i <= Len(s)
    <3>1. i \in DOMAIN s /\ (s \o t)[i] = s[i]
      BY <1>1, <1>2, <2>1
    <3> QED BY <3>1 DEF AddressesIn
  <2>2. CASE ~(i <= Len(s))
    <3>1. i - Len(s) \in DOMAIN t /\ (s \o t)[i] = t[i - Len(s)]
      BY <1>1, <1>2, <2>2
    <3> QED BY <3>1 DEF AddressesIn
  <2> QED BY <2>1, <2>2
<1>4. ASSUME NEW i \in DOMAIN s
      PROVE  s[i] \in AddressesIn(s \o t)
  <2>1. i \in DOMAIN (s \o t) /\ (s \o t)[i] = s[i]
    BY <1>1, <1>2
  <2> QED BY <2>1 DEF AddressesIn
<1>5. ASSUME NEW i \in DOMAIN t
      PROVE  t[i] \in AddressesIn(s \o t)
  <2>1. i + Len(s) \in DOMAIN (s \o t) /\ (s \o t)[i + Len(s)] = t[i]
    <3>1. i + Len(s) \in 1..(Len(s) + Len(t)) /\ ~(i + Len(s) <= Len(s))
          /\ (i + Len(s)) - Len(s) = i
      BY <1>2
    <3>2. (s \o t)[i + Len(s)] = t[(i + Len(s)) - Len(s)]
      BY <1>1, <3>1
    <3> QED BY <1>2, <3>1, <3>2
  <2> QED BY <2>1 DEF AddressesIn
<1>6. AddressesIn(s \o t) \subseteq AddressesIn(s) \cup AddressesIn(t)
  BY <1>3 DEF AddressesIn
<1>7. AddressesIn(s) \subseteq AddressesIn(s \o t)
  BY <1>4 DEF AddressesIn
<1>8. AddressesIn(t) \subseteq AddressesIn(s \o t)
  BY <1>5 DEF AddressesIn
<1> QED BY <1>1, <1>6, <1>7, <1>8

(***************************************************************************)
(* A set of positions has a least element: of the initial segments they    *)
(* end, one is minimal under inclusion.                                    *)
(***************************************************************************)
LEMMA LeastOf ==
  ASSUME NEW n \in Nat, NEW T \in SUBSET (1..n), T # {}
  PROVE  \E i \in T : \A j \in T : i <= j
<1> DEFINE Upto(i) == {k \in 1..n : k <= i}
           R == StrictSubsetOrdering(1..n)
           F == {Upto(i) : i \in T}
<1>1. IsFiniteSet(1..n)
  BY FS_Interval
<1>2. FiniteSubsetsOf(1..n) = SUBSET (1..n)
  BY <1>1, FS_FiniteSubsetsOfFinite
<1>3. IsWellFoundedOn(R, SUBSET (1..n))
  BY <1>2, FS_StrictSubsetOrderingWellFounded
<1>4. F \subseteq SUBSET (1..n) /\ F # {}
  OBVIOUS
<1>5. PICK X \in F : \A Y \in F : ~(<<Y, X>> \in R)
  <2> HIDE DEF F, R
  <2> QED BY <1>3, <1>4, WFMin
<1>6. PICK i \in T : X = Upto(i)
  BY <1>5
<1>7. ASSUME NEW j \in T, j < i
      PROVE  FALSE
  <2>1. Upto(j) \subseteq Upto(i)
    BY <1>7
  <2>2. i \in Upto(i) /\ i \notin Upto(j)
    BY <1>7
  <2>3. <<Upto(j), X>> \in R
    BY <1>6, <2>1, <2>2 DEF StrictSubsetOrdering
  <2>4. Upto(j) \in F
    OBVIOUS
  <2> QED BY <1>5, <2>3, <2>4
<1> QED BY <1>7

Preferred == {a \in Addresses : Family[a] = Preferring}

(***************************************************************************)
(* choose_ipv4_first and choose_ipv6_first find an address of the          *)
(* preferred family if there is one, any other if not, and none if there   *)
(* is none.                                                                *)
(***************************************************************************)
LEMMA BestAddressIsBest ==
  ASSUME NEW rs \in Seq(Addresses)
  PROVE  BestAddress(rs) \in Service!BestOf(AddressesIn(rs))
<1> DEFINE fits == {i \in DOMAIN rs : Family[rs[i]] = Preferring}
<1>0. /\ DOMAIN rs = 1..Len(rs) /\ Len(rs) \in Nat
      /\ \A i \in DOMAIN rs : rs[i] \in Addresses
  OBVIOUS
<1>1. CASE rs = <<>>
  <2>1. AddressesIn(rs) = {}
    BY <1>1 DEF AddressesIn
  <2> QED BY <1>1, <2>1 DEF BestAddress, Service!BestOf
<1>2. CASE rs # <<>> /\ fits = {}
  <2>1. BestAddress(rs) = rs[1]
    BY <1>2 DEF BestAddress
  <2>2. 1 \in DOMAIN rs
    BY <1>0, <1>2
  <2>3. rs[1] \in AddressesIn(rs)
    BY <2>2 DEF AddressesIn
  <2>4. AddressesIn(rs) \cap Preferred = {}
    BY <1>2 DEF AddressesIn, Preferred
  <2> QED BY <2>1, <2>3, <2>4 DEF Service!BestOf, Preferred
<1>3. CASE rs # <<>> /\ fits # {}
  <2> DEFINE i == CHOOSE i \in fits : \A j \in fits : i <= j
  <2>1. fits \in SUBSET (1..Len(rs))
    BY <1>0
  <2>2. \E k \in fits : \A j \in fits : k <= j
    BY <1>0, <1>3, <2>1, LeastOf
  <2>3. i \in fits
    BY <2>2
  <2>4. BestAddress(rs) = rs[i]
    BY <1>3 DEF BestAddress
  <2>5. rs[i] \in AddressesIn(rs) \cap Preferred
    BY <1>0, <2>3 DEF AddressesIn, Preferred
  <2> QED BY <2>4, <2>5 DEF Service!BestOf, Preferred
<1> QED BY <1>1, <1>2, <1>3

-----------------------------------------------------------------------------
\* The invariant, in the parts the steps preserve.
ResolverInv ==
  /\ left \in [Queries -> SUBSET Families]
  /\ name \in [Queries -> DOMAIN Zone \cup {Nothing}]
  /\ responses \in [Queries -> Seq(Addresses)]
  /\ Collected

\* The address a client is called with is None or an address of a record.
LEMMA BestAddressType ==
  ASSUME NEW rs \in Seq(Addresses)
  PROVE  /\ BestAddress(rs) \in Addresses \cup {None}
         /\ AddressesIn(rs) \in SUBSET Addresses
<1>1. AddressesIn(rs) \in SUBSET Addresses
  BY DEF AddressesIn
<1>2. BestAddress(rs) \in Service!BestOf(AddressesIn(rs))
  BY BestAddressIsBest
<1> QED BY <1>1, <1>2 DEF Service!BestOf

LEMMA FreeQueryKeepsInv ==
  ASSUME ResolverInv, NEW q \in Queries, FreeQuery(q)
  PROVE  ResolverInv'
<1> USE DEF ResolverInv, FreeQuery
<1>1. left' \in [Queries -> SUBSET Families]
  OBVIOUS
<1>2. name' \in [Queries -> DOMAIN Zone \cup {Nothing}]
  OBVIOUS
<1>3. responses' \in [Queries -> Seq(Addresses)]
  OBVIOUS
<1>4. Collected'
  <2> SUFFICES ASSUME NEW r \in Queries
               PROVE  /\ (~Live(r) <=> name[r] = Nothing)'
                      /\ (~Live(r) => responses[r] = <<>>)'
                      /\ (Live(r) => HeardOf(r) \subseteq Zone[name[r]])'
    BY DEF Collected
  <2>1. CASE r = q
    BY <2>1 DEF Live
  <2>2. CASE r # q
    BY <2>2 DEF Live, HeardOf, Collected
  <2> QED BY <2>1, <2>2
<1> QED BY <1>1, <1>2, <1>3, <1>4

\* Everything is freed at exit.
LEMMA CancelAllKeepsInv ==
  ASSUME ResolverInv, CancelAll
  PROVE  ResolverInv'
<1>1. /\ left' \in [Queries -> SUBSET Families]
      /\ name' \in [Queries -> DOMAIN Zone \cup {Nothing}]
      /\ responses' \in [Queries -> Seq(Addresses)]
  BY DEF CancelAll
<1>2. Collected'
  BY DEF CancelAll, Collected, Live
<1> QED BY <1>1, <1>2 DEF ResolverInv

LEMMA ResolvQueryKeepsInv ==
  ASSUME ResolverInv, NEW q \in Queries, NEW n \in DOMAIN Zone, ResolvQuery(q, n)
  PROVE  ResolverInv'
<1>0. PICK sent \in SUBSET Families :
        /\ left' = [left EXCEPT ![q] = sent]
        /\ name' = [name EXCEPT ![q] = IF sent = {} THEN Nothing ELSE n]
  BY DEF ResolvQuery
<1>1. /\ left' \in [Queries -> SUBSET Families]
      /\ name' \in [Queries -> DOMAIN Zone \cup {Nothing}]
      /\ responses' \in [Queries -> Seq(Addresses)]
  BY <1>0 DEF ResolvQuery, ResolverInv
<1>2. Collected'
  <2> SUFFICES ASSUME NEW r \in Queries
               PROVE  /\ (~Live(r) <=> name[r] = Nothing)'
                      /\ (~Live(r) => responses[r] = <<>>)'
                      /\ (Live(r) => HeardOf(r) \subseteq Zone[name[r]])'
    BY DEF Collected
  <2>1. CASE r = q
    <3>1. /\ left'[r] = sent /\ responses'[r] = <<>> /\ n # Nothing
          /\ name'[r] = IF sent = {} THEN Nothing ELSE n
      BY <1>0, <2>1, ResolverAssumption DEF ResolvQuery, ResolverInv, Collected
    <3>2. HeardOf(r)' = {}
      BY <3>1 DEF HeardOf, AddressesIn
    <3> QED BY <3>1, <3>2 DEF Live
  <2>2. CASE r # q
    <3>1. left'[r] = left[r] /\ name'[r] = name[r] /\ responses'[r] = responses[r]
      BY <1>0, <2>2 DEF ResolvQuery, ResolverInv
    <3> QED BY <3>1 DEF Live, HeardOf, Collected, ResolverInv
  <2> QED BY <2>1, <2>2
<1> QED BY <1>1, <1>2 DEF ResolverInv

\* What the first answer adds.
LEMMA FirstAnswerAdds ==
  ASSUME ResolverInv, NEW q \in Queries, NEW f \in Families, FirstAnswer(q, f)
  PROVE  /\ name[q] \in DOMAIN Zone
         /\ \E more \in SUBSET Zone[name[q]] :
              /\ HeardOf(q)' = HeardOf(q) \cup more
              /\ responses'[q] \in Seq(Addresses)
<1>1. Live(q)
  BY DEF FirstAnswer, Live
<1>2. name[q] \in DOMAIN Zone
  BY <1>1 DEF ResolverInv, Collected
<1>3. PICK rs \in Records(name[q], f) :
        responses' = [responses EXCEPT ![q] = @ \o rs]
  BY DEF FirstAnswer
<1>4. rs \in Seq(Addresses) /\ AddressesIn(rs) \subseteq Zone[name[q]]
  BY <1>2, <1>3, RecordsAreOfTheName
<1>5. responses[q] \in Seq(Addresses) /\ responses'[q] = responses[q] \o rs
  BY <1>3 DEF ResolverInv
<1>6. /\ responses[q] \o rs \in Seq(Addresses)
      /\ AddressesIn(responses[q] \o rs) = AddressesIn(responses[q]) \cup AddressesIn(rs)
  BY <1>4, <1>5, AddressesInConcat
<1>7. HeardOf(q)' = HeardOf(q) \cup AddressesIn(rs)
  BY <1>5, <1>6 DEF HeardOf
<1> QED BY <1>2, <1>4, <1>5, <1>6, <1>7

LEMMA FirstAnswerKeepsInv ==
  ASSUME ResolverInv, NEW q \in Queries, NEW f \in Families, FirstAnswer(q, f)
  PROVE  ResolverInv'
<1>0. PICK rs \in Records(name[q], f) :
        responses' = [responses EXCEPT ![q] = @ \o rs]
  BY DEF FirstAnswer
<1>1. PICK more \in SUBSET Zone[name[q]] :
        /\ HeardOf(q)' = HeardOf(q) \cup more
        /\ responses'[q] \in Seq(Addresses)
  BY FirstAnswerAdds
<1>2. /\ left' \in [Queries -> SUBSET Families]
      /\ name' \in [Queries -> DOMAIN Zone \cup {Nothing}]
  BY DEF FirstAnswer, ResolverInv
<1>3. responses' \in [Queries -> Seq(Addresses)]
  <2>1. \A r \in Queries : r # q => responses'[r] \in Seq(Addresses)
    BY <1>0 DEF ResolverInv
  <2>2. responses' = [r \in Queries |-> responses'[r]]
    BY <1>0 DEF ResolverInv
  <2> QED BY <1>1, <2>1, <2>2
<1>4. Collected'
  <2> SUFFICES ASSUME NEW r \in Queries
               PROVE  /\ (~Live(r) <=> name[r] = Nothing)'
                      /\ (~Live(r) => responses[r] = <<>>)'
                      /\ (Live(r) => HeardOf(r) \subseteq Zone[name[r]])'
    BY DEF Collected
  <2>1. CASE r = q
    <3>1. left[q] # {} /\ left'[q] # {} /\ name'[q] = name[q]
      BY DEF FirstAnswer, ResolverInv
    <3>2. name[q] # Nothing /\ HeardOf(q) \subseteq Zone[name[q]]
      BY <3>1 DEF ResolverInv, Collected, Live
    <3> QED BY <1>1, <2>1, <3>1, <3>2 DEF Live
  <2>2. CASE r # q
    <3>1. left'[r] = left[r] /\ name'[r] = name[r] /\ responses'[r] = responses[r]
      BY <1>0, <2>2 DEF FirstAnswer, ResolverInv
    <3> QED BY <3>1 DEF Live, HeardOf, Collected, ResolverInv
  <2> QED BY <2>1, <2>2
<1> QED BY <1>2, <1>3, <1>4 DEF ResolverInv

\* What the client is called with at last.
LEMMA LastAnswerTells ==
  ASSUME ResolverInv, NEW q \in Queries, NEW f \in Families, LastAnswer(q, f)
  PROVE  /\ name[q] \in DOMAIN Zone
         /\ \E more \in SUBSET Zone[name[q]] :
              \E a \in Service!BestOf(HeardOf(q) \cup more) :
                told' = <<q, a, HeardOf(q) \cup more>>
         /\ told' \in Queries \X (Addresses \cup {None}) \X SUBSET Addresses
<1>1. Live(q)
  BY DEF LastAnswer, Live
<1>2. name[q] \in DOMAIN Zone
  BY <1>1 DEF ResolverInv, Collected
<1>3. PICK rs \in Records(name[q], f) :
        told' = <<q, BestAddress(responses[q] \o rs), AddressesIn(responses[q] \o rs)>>
  BY DEF LastAnswer
<1>4. rs \in Seq(Addresses) /\ AddressesIn(rs) \subseteq Zone[name[q]]
  BY <1>2, <1>3, RecordsAreOfTheName
<1>5. responses[q] \in Seq(Addresses)
  BY DEF ResolverInv
<1>6. /\ responses[q] \o rs \in Seq(Addresses)
      /\ AddressesIn(responses[q] \o rs) = HeardOf(q) \cup AddressesIn(rs)
  BY <1>4, <1>5, AddressesInConcat DEF HeardOf
<1>7. BestAddress(responses[q] \o rs) \in Service!BestOf(HeardOf(q) \cup AddressesIn(rs))
  BY <1>6, BestAddressIsBest
<1>8. /\ BestAddress(responses[q] \o rs) \in Addresses \cup {None}
      /\ AddressesIn(responses[q] \o rs) \in SUBSET Addresses
  BY <1>6, BestAddressType
<1> QED BY <1>2, <1>3, <1>4, <1>6, <1>7, <1>8

-----------------------------------------------------------------------------
LEMMA ResolverInvInit == ResolverInit => ResolverInv
<1> SUFFICES ASSUME ResolverInit PROVE ResolverInv
  OBVIOUS
<1>1. /\ left \in [Queries -> SUBSET Families]
      /\ name \in [Queries -> DOMAIN Zone \cup {Nothing}]
      /\ responses \in [Queries -> Seq(Addresses)]
  BY DEF ResolverInit
<1>2. Collected
  BY DEF ResolverInit, Collected, Live
<1> QED BY <1>1, <1>2 DEF ResolverInv

LEMMA ResolverInvStep ==
  ASSUME ResolverInv, [ResolverNext]_resolverVars
  PROVE  ResolverInv'
<1>1. CASE \E q \in Queries, n \in DOMAIN Zone : ResolvQuery(q, n)
  BY <1>1, ResolvQueryKeepsInv
<1>2. CASE \E q \in Queries : ResolvCancel(q)
  BY <1>2, FreeQueryKeepsInv DEF ResolvCancel
<1>3. CASE \E q \in Queries, f \in Families : FirstAnswer(q, f)
  BY <1>3, FirstAnswerKeepsInv
<1>4. CASE \E q \in Queries, f \in Families : LastAnswer(q, f)
  BY <1>4, FreeQueryKeepsInv DEF LastAnswer
<1>5. CASE CancelAll
  BY <1>5, CancelAllKeepsInv
<1>6. CASE ResolverQuiet \/ UNCHANGED resolverVars
  <2>1. left' = left /\ name' = name /\ responses' = responses
    BY <1>6 DEF ResolverQuiet, resolverVars
  <2> QED BY <2>1 DEF ResolverInv, Collected, Live, HeardOf
<1> QED BY <1>1, <1>2, <1>3, <1>4, <1>5, <1>6 DEF ResolverNext

LEMMA ResolverInvariant == ResolverSpec => []ResolverInv
<1>1. ResolverInit => ResolverInv
  BY ResolverInvInit
<1>2. ResolverInv /\ [ResolverNext]_resolverVars => ResolverInv'
  BY ResolverInvStep
<1> QED BY <1>1, <1>2, PTL DEF ResolverSpec

(***************************************************************************)
(* A freed ResolvQuery keeps nothing, and what a live one has collected    *)
(* are addresses of the name it was made for (dns_query_v4_cb and          *)
(* dns_query_v6_cb share cb_data->responses).                              *)
(***************************************************************************)
THEOREM ResolverCollects == ResolverSpec => []Collected
<1>1. ResolverInv => Collected
  BY DEF ResolverInv
<1> QED BY <1>1, ResolverInvariant, PTL

-----------------------------------------------------------------------------
\* The two functions of the refinement, and how a step changes the second.
LEMMA HeardExcept ==
  ASSUME ResolverInv, NEW q \in Queries,
         \A r \in Queries \ {q} : responses'[r] = responses[r]
  PROVE  [r \in Queries |-> HeardOf(r)]'
           = [[r \in Queries |-> HeardOf(r)] EXCEPT ![q] = HeardOf(q)']
<1>1. \A r \in Queries \ {q} : HeardOf(r)' = HeardOf(r)
  BY DEF HeardOf
<1> QED BY <1>1

LEMMA FreeQuerySettles ==
  ASSUME ResolverInv, NEW q \in Queries, FreeQuery(q)
  PROVE  Service!Settle({q})
<1>1. name' = [r \in Queries |-> IF r \in {q} THEN Nothing ELSE name[r]]
  BY DEF FreeQuery, ResolverInv
<1>2. ASSUME NEW r \in Queries
      PROVE  HeardOf(r)' = IF r \in {q} THEN {} ELSE HeardOf(r)
  <2>1. CASE r = q
    BY <2>1 DEF FreeQuery, ResolverInv, HeardOf, AddressesIn
  <2>2. CASE r # q
    BY <2>2 DEF FreeQuery, ResolverInv, HeardOf
  <2> QED BY <2>1, <2>2
<1>3. [r \in Queries |-> HeardOf(r)]'
        = [r \in Queries |-> IF r \in {q} THEN {}
                             ELSE [x \in Queries |-> HeardOf(x)][r]]
  BY <1>2
<1> QED BY <1>1, <1>3 DEF Service!Settle

\* A ResolvQuery that was freed at once was never asked: a stutter.
LEMMA ResolvQueryAsks ==
  ASSUME ResolverInv, NEW q \in Queries, NEW n \in DOMAIN Zone, ResolvQuery(q, n)
  PROVE  Service!Ask(q) \/ ResolverQuiet
<1>1. PICK sent \in SUBSET Families :
        /\ left' = [left EXCEPT ![q] = sent]
        /\ name' = [name EXCEPT ![q] = IF sent = {} THEN Nothing ELSE n]
  BY DEF ResolvQuery
<1>2. name[q] = Nothing /\ left[q] = {} /\ told' = Nothing /\ responses' = responses
  BY DEF ResolvQuery, ResolverInv, Collected, Live
<1>3. CASE sent = {}
  BY <1>1, <1>2, <1>3 DEF ResolverInv, ResolverQuiet
<1>4. CASE sent # {}
  <2>1. name' = [name EXCEPT ![q] = n]
    BY <1>1, <1>4
  <2>2. [r \in Queries |-> HeardOf(r)]' = [r \in Queries |-> HeardOf(r)]
    BY <1>2 DEF HeardOf
  <2> QED BY <1>2, <2>1, <2>2 DEF Service!Ask
<1> QED BY <1>3, <1>4

LEMMA FirstAnswerHears ==
  ASSUME ResolverInv, NEW q \in Queries, NEW f \in Families, FirstAnswer(q, f)
  PROVE  Service!Hear(q)
<1>1. PICK more \in SUBSET Zone[name[q]] : HeardOf(q)' = HeardOf(q) \cup more
  BY FirstAnswerAdds
<1>2. name[q] # Nothing /\ name' = name /\ told' = Nothing
  BY DEF FirstAnswer, ResolverInv, Collected, Live
<1>3. \A r \in Queries \ {q} : responses'[r] = responses[r]
  BY DEF FirstAnswer, ResolverInv
<1>4. [r \in Queries |-> HeardOf(r)]'
        = [[r \in Queries |-> HeardOf(r)] EXCEPT ![q] = HeardOf(q) \cup more]
  BY <1>1, <1>3, HeardExcept
<1>5. [r \in Queries |-> HeardOf(r)]'
        = [[r \in Queries |-> HeardOf(r)] EXCEPT ![q] = @ \cup more]
  BY <1>4
<1> QED BY <1>2, <1>5 DEF Service!Hear

LEMMA LastAnswerAnswers ==
  ASSUME ResolverInv, NEW q \in Queries, NEW f \in Families, LastAnswer(q, f)
  PROVE  Service!Answer(q)
<1>1. PICK more \in SUBSET Zone[name[q]] :
        \E a \in Service!BestOf(HeardOf(q) \cup more) :
          told' = <<q, a, HeardOf(q) \cup more>>
  BY LastAnswerTells
<1>2. Service!Settle({q})
  BY FreeQuerySettles DEF LastAnswer
<1>3. name[q] # Nothing
  BY DEF LastAnswer, ResolverInv, Collected, Live
<1>4. [r \in Queries |-> HeardOf(r)][q] = HeardOf(q)
  OBVIOUS
<1> QED BY <1>1, <1>2, <1>3, <1>4 DEF Service!Answer

\* Nobody is called, and these queries, or none, are over.
LEMMA Withdraws ==
  ASSUME NEW over \in SUBSET Queries, Service!Settle(over), told' = Nothing
  PROVE  Service!Withdraw
BY DEF Service!Withdraw

LEMMA CancelAllWithdraws ==
  ASSUME ResolverInv, CancelAll
  PROVE  Service!Withdraw
<1>1. name' = [r \in Queries |-> IF r \in Queries THEN Nothing ELSE name[r]]
  BY DEF CancelAll
<1>2. \A r \in Queries : HeardOf(r)' = {}
  BY DEF CancelAll, HeardOf, AddressesIn
<1>3. [r \in Queries |-> HeardOf(r)]'
        = [r \in Queries |-> IF r \in Queries THEN {}
                             ELSE [x \in Queries |-> HeardOf(x)][r]]
  BY <1>2
<1>4. Service!Settle(Queries)
  BY <1>1, <1>3 DEF Service!Settle
<1> QED BY <1>4, Withdraws DEF CancelAll

LEMMA QuietWithdraws ==
  ASSUME ResolverInv, ResolverQuiet
  PROVE  Service!Withdraw
<1>1. name' = name /\ responses' = responses
  BY DEF ResolverQuiet
<1>2. name' = [r \in Queries |-> IF r \in {} THEN Nothing ELSE name[r]]
  BY <1>1 DEF ResolverInv
<1>3. \A r \in Queries : HeardOf(r)' = HeardOf(r)
  BY <1>1 DEF HeardOf
<1>4. [r \in Queries |-> HeardOf(r)]'
        = [r \in Queries |-> IF r \in {} THEN {}
                             ELSE [x \in Queries |-> HeardOf(x)][r]]
  BY <1>3
<1>5. Service!Settle({})
  BY <1>2, <1>4 DEF Service!Settle
<1> QED BY <1>5, Withdraws DEF ResolverQuiet

LEMMA ServiceInitially == ResolverInit => Service!ServiceInit
<1> SUFFICES ASSUME ResolverInit PROVE Service!ServiceInit
  OBVIOUS
<1>1. \A r \in Queries : HeardOf(r) = {}
  BY DEF ResolverInit, HeardOf, AddressesIn
<1>2. [r \in Queries |-> HeardOf(r)] = [r \in Queries |-> {}]
  BY <1>1
<1> QED BY <1>2 DEF ResolverInit, Service!ServiceInit

LEMMA ServiceStep ==
  ASSUME ResolverInv, [ResolverNext]_resolverVars
  PROVE  [Service!ServiceNext]_(Service!serviceVars)
<1>1. CASE \E q \in Queries, n \in DOMAIN Zone : ResolvQuery(q, n)
  BY <1>1, ResolvQueryAsks, QuietWithdraws DEF Service!ServiceNext
<1>2. CASE \E q \in Queries : ResolvCancel(q)
  <2>1. PICK q \in Queries : ResolvCancel(q)
    BY <1>2
  <2>2. Service!Settle({q})
    BY <2>1, FreeQuerySettles DEF ResolvCancel
  <2>3. Service!Withdraw
    BY <2>1, <2>2, Withdraws DEF ResolvCancel
  <2> QED BY <2>3 DEF Service!ServiceNext
<1>3. CASE \E q \in Queries, f \in Families : FirstAnswer(q, f)
  BY <1>3, FirstAnswerHears DEF Service!ServiceNext
<1>4. CASE \E q \in Queries, f \in Families : LastAnswer(q, f)
  BY <1>4, LastAnswerAnswers DEF Service!ServiceNext
<1>5. CASE CancelAll
  BY <1>5, CancelAllWithdraws DEF Service!ServiceNext
<1>6. CASE ResolverQuiet
  BY <1>6, QuietWithdraws DEF Service!ServiceNext
<1>7. CASE UNCHANGED resolverVars
  <2>1. name' = name /\ responses' = responses /\ told' = told
    BY <1>7 DEF resolverVars
  <2>2. [r \in Queries |-> HeardOf(r)]' = [r \in Queries |-> HeardOf(r)]
    BY <2>1 DEF HeardOf
  <2> QED BY <2>1, <2>2 DEF Service!serviceVars
<1> QED BY <1>1, <1>2, <1>3, <1>4, <1>5, <1>6, <1>7 DEF ResolverNext

(***************************************************************************)
(* resolv.c implements NameService: one question, one call of the client,  *)
(* none after resolv_cancel, and the choice between A and AAAA is the same *)
(* whichever answer came first.                                            *)
(***************************************************************************)
THEOREM ResolverAnswersOnce == ResolverSpec => OneAnswer
<1>1. ResolverInit => Service!ServiceInit
  BY ServiceInitially
<1>2. ResolverInv /\ [ResolverNext]_resolverVars => [Service!ServiceNext]_(Service!serviceVars)
  BY ServiceStep
<1> QED
  BY <1>1, <1>2, ResolverInvariant, PTL DEF ResolverSpec, OneAnswer, Service!ServiceSpec

-----------------------------------------------------------------------------
(***************************************************************************)
(* BlockList.                                                              *)
(***************************************************************************)
\* The positions of what stays, and the rank of each among them.
Stays(cache, gone) == {i \in DOMAIN cache : cache[i].key \notin gone}
Before(S, i) == {j \in S : j <= i}
Rank(S, i) == Cardinality(Before(S, i))
Nth(S, k) == CHOOSE i \in S : Rank(S, i) = k

\* Ranks number a set of positions from one on.
LEMMA RankNumbers ==
  ASSUME NEW n \in Nat, NEW S \in SUBSET (1..n)
  PROVE  /\ Cardinality(S) \in Nat /\ Cardinality(S) <= n
         /\ \A k \in 1..Cardinality(S) : Nth(S, k) \in S /\ Rank(S, Nth(S, k)) = k
         /\ \A i \in S : Rank(S, i) \in 1..Cardinality(S) /\ Nth(S, Rank(S, i)) = i
<1> DEFINE c == Cardinality(S)
           f == [i \in S |-> Rank(S, i)]
<1>1. IsFiniteSet(1..n) /\ Cardinality(1..n) = n
  BY FS_Interval
<1>2. IsFiniteSet(S) /\ c <= n /\ c \in Nat
  BY <1>1, FS_Subset, FS_CardinalityType
<1>3. ASSUME NEW i \in S
      PROVE  /\ IsFiniteSet(Before(S, i))
             /\ Rank(S, i) \in 1..c
  <2>1. Before(S, i) \in SUBSET S /\ i \in Before(S, i)
    BY DEF Before
  <2>2. IsFiniteSet(Before(S, i)) /\ Rank(S, i) <= c /\ Rank(S, i) \in Nat
    BY <1>2, <2>1, FS_Subset, FS_CardinalityType DEF Rank
  <2>3. Rank(S, i) # 0
    BY <2>1, <2>2, FS_EmptySet DEF Rank
  <2> QED BY <1>2, <2>2, <2>3
<1>4. ASSUME NEW i \in S, NEW j \in S, i < j
      PROVE  Rank(S, i) # Rank(S, j)
  <2>0. \A x \in S : x \in Int
    OBVIOUS
  <2>1. Before(S, i) \subseteq Before(S, j)
    <3> SUFFICES ASSUME NEW x \in S, x <= i PROVE x <= j
      BY DEF Before
    <3>1. x \in Int /\ i \in Int /\ j \in Int
      BY <2>0
    <3> QED BY <1>4, <3>1
  <2>2. j \in Before(S, j) /\ j \notin Before(S, i)
    BY <1>4 DEF Before
  <2>3. IsFiniteSet(Before(S, j))
    BY <1>3
  <2>4. Cardinality(Before(S, j)) = Cardinality(Before(S, i))
          => Before(S, j) = Before(S, i)
    BY <2>1, <2>3, FS_Subset
  <2> QED BY <2>2, <2>4 DEF Rank
<1>5. ASSUME NEW i \in S, NEW j \in S, Rank(S, i) = Rank(S, j)
      PROVE  i = j
  <2>1. i \in Int /\ j \in Int
    OBVIOUS
  <2> QED BY <1>4, <1>5, <2>1
<1>6. f \in Injection(S, 1..c)
  <2>1. f \in [S -> 1..c]
    BY <1>3
  <2>2. \A i, j \in S : f[i] = f[j] => i = j
    BY <1>5
  <2> QED BY <2>1, <2>2 DEF Injection, IsInjective
<1>7. IsFiniteSet(1..c) /\ Cardinality(1..c) = c
  BY <1>2, FS_Interval
<1>8. f \in Surjection(S, 1..c)
  <2> HIDE DEF f
  <2> QED BY <1>6, <1>7, FS_Injection
<1>9. ASSUME NEW k \in 1..c
      PROVE  Nth(S, k) \in S /\ Rank(S, Nth(S, k)) = k
  <2>1. \E i \in S : Rank(S, i) = k
    BY <1>8 DEF Surjection
  <2> QED BY <2>1 DEF Nth
<1>10. ASSUME NEW i \in S
       PROVE  Nth(S, Rank(S, i)) = i
  <2>1. Rank(S, i) \in 1..c
    BY <1>3
  <2>2. Nth(S, Rank(S, i)) \in S /\ Rank(S, Nth(S, Rank(S, i))) = Rank(S, i)
    BY <1>9, <2>1
  <2> QED BY <1>5, <2>2
<1> QED BY <1>2, <1>3, <1>9, <1>10

\* cache_clear takes out these entries and no other.
LEMMA KeptFacts ==
  ASSUME NEW K, NEW D, NEW cache \in Table(K, D), NEW gone, UniqueKeys(cache)
  PROVE  /\ Kept(cache, gone) \in Table(K, D)
         /\ Len(Kept(cache, gone)) <= Len(cache)
         /\ UniqueKeys(Kept(cache, gone))
         /\ Entries(Kept(cache, gone)) = {e \in Entries(cache) : e.key \notin gone}
<1> DEFINE E == [key : K, data : D]
           n == Len(cache)
           S == Stays(cache, gone)
           c == Cardinality(S)
           kept == Kept(cache, gone)
<1>1. cache \in Seq(E) /\ n \in Nat /\ DOMAIN cache = 1..n
  BY DEF Table
<1>2. S \in SUBSET (1..n)
  BY <1>1 DEF Stays
<1>3. /\ c \in Nat /\ c <= n
      /\ \A k \in 1..c : Nth(S, k) \in S /\ Rank(S, Nth(S, k)) = k
      /\ \A i \in S : Rank(S, i) \in 1..c /\ Nth(S, Rank(S, i)) = i
  <2> HIDE DEF n, S
  <2> QED BY <1>1, <1>2, RankNumbers
<1>4. kept = [k \in 1..c |-> cache[Nth(S, k)]]
  BY DEF Kept, Stays, Nth, Rank, Before
<1> HIDE DEF c, S, kept, E
<1>5. \A k \in 1..c : Nth(S, k) \in 1..n /\ cache[Nth(S, k)].key \notin gone
  BY <1>1, <1>2, <1>3 DEF S, Stays
<1>6. \A k \in 1..c : cache[Nth(S, k)] \in E
  BY <1>1, <1>5
<1>7. kept \in Seq(E) /\ Len(kept) = c /\ DOMAIN kept = 1..c
  BY <1>3, <1>4, <1>6
<1>8. UniqueKeys(kept)
  <2> SUFFICES ASSUME NEW k \in 1..c, NEW l \in 1..c, kept[k].key = kept[l].key
               PROVE  k = l
    BY <1>7 DEF UniqueKeys
  <2>1. cache[Nth(S, k)].key = cache[Nth(S, l)].key
    BY <1>4
  <2>2. Nth(S, k) = Nth(S, l)
    BY <1>1, <1>5, <2>1 DEF UniqueKeys
  <2> QED BY <1>3, <2>2
<1>9. ASSUME NEW e \in Entries(kept)
      PROVE  e \in Entries(cache) /\ e.key \notin gone
  <2>1. PICK k \in 1..c : e = cache[Nth(S, k)]
    BY <1>4, <1>7 DEF Entries
  <2> QED BY <1>1, <1>5, <2>1 DEF Entries
<1>10. ASSUME NEW e \in Entries(cache), e.key \notin gone
       PROVE  e \in Entries(kept)
  <2>1. PICK i \in 1..n : e = cache[i]
    BY <1>1 DEF Entries
  <2>2. i \in S
    BY <1>1, <1>10, <2>1 DEF S, Stays
  <2>3. Rank(S, i) \in 1..c /\ kept[Rank(S, i)] = cache[i]
    BY <1>3, <1>4, <2>2
  <2> QED BY <1>7, <2>1, <2>3 DEF Entries
<1> QED BY <1>3, <1>7, <1>8, <1>9, <1>10 DEF Table, E, kept

-----------------------------------------------------------------------------
\* The entries of a table have a key and data.
LEMMA EntryType ==
  ASSUME NEW K, NEW D, NEW cache \in Table(K, D), NEW e \in Entries(cache)
  PROVE  e.key \in K /\ e.data \in D
<1> DEFINE E == [key : K, data : D]
<1>1. cache \in Seq(E)
  BY DEF Table
<1>2. e \in E
  <2> HIDE DEF E
  <2> QED BY <1>1, EntryPlace
<1> QED BY <1>2

\* The score of whoever is listed is the one in its entry.
LEMMA ScoreOfEntry ==
  ASSUME list \in Table(Peers, Items), UniqueKeys(list)
  PROVE  /\ \A e \in Entries(list) : e.key \in Listed /\ Score(e.key) = e.data.score
         /\ \A a \in Listed : \E e \in Entries(list) : e.key = a
         /\ Listed \subseteq Peers
<1>1. ASSUME NEW e \in Entries(list)
      PROVE  e.key \in Listed /\ Score(e.key) = e.data.score
  <2>1. e.key \in Listed
    BY DEF Entries, KeysOf, Listed
  <2>2. Has(list, e.key)
    BY <2>1 DEF Has, Listed
  <2>3. e = Entry(e.key, Find(list, e.key))
    <3> DEFINE D == Items
    <3> HIDE DEF D
    <3>1. list \in Table(Peers, D)
      BY DEF D
    <3> QED BY <2>2, <3>1, FindFacts
  <2>4. e.data = Find(list, e.key)
    BY <2>3 DEF Entry
  <2> QED BY <2>1, <2>2, <2>4 DEF Score
<1>2. \A a \in Listed : \E e \in Entries(list) : e.key = a
  BY DEF Entries, KeysOf, Listed
<1>3. Listed \subseteq Peers
  <2>1. \A e \in Entries(list) : e.key \in Peers
    BY EntryType
  <2> QED BY <2>1 DEF KeysOf, Listed, Entries
<1> QED BY <1>1, <1>2, <1>3

LEMMA KeysAreOfEntries ==
  ASSUME NEW cache
  PROVE  KeysOf(cache) = {e.key : e \in Entries(cache)}
BY DEF KeysOf, Entries

\* A touched entry moves to the end with its new score.
LEMMA TouchedFacts ==
  ASSUME list \in Table(Peers, Items), UniqueKeys(list),
         NEW a \in Peers, a \in Listed, NEW score \in 0..MustBlock
  PROVE  /\ Touched(a, score) \in Table(Peers, Items)
         /\ Len(Touched(a, score)) = Len(list)
         /\ UniqueKeys(Touched(a, score))
         /\ Entries(Touched(a, score))
              = {e \in Entries(list) : e.key # a} \cup {Entry(a, Item(score, 0))}
<1> DEFINE E == [key : Peers, data : Items]
           new == Entry(a, Item(score, 0))
           rest == Without(list, a)
<1>0. MaxAge \in Nat
  BY BlockListAssumption
<1>1. Item(score, 0) \in Items
  BY <1>0 DEF Item, Items
<1>2. new \in E /\ new.key = a
  BY <1>1 DEF Entry
<1>3. list \in Seq(E) /\ Len(list) \in Nat
  BY DEF Table
<1>4. Has(list, a)
  BY DEF Has, Listed
<1> HIDE DEF E, new
<1>5. /\ rest \in Seq(E) /\ Len(rest) = Len(list) - 1 /\ UniqueKeys(rest)
      /\ Entries(rest) = {e \in Entries(list) : e.key # a}
  BY <1>3, <1>4, WithoutFacts
<1>6. a \notin KeysOf(rest)
  BY <1>5, KeysAreOfEntries
<1> HIDE DEF rest
<1>7. /\ Append(rest, new) \in Seq(E) /\ Len(Append(rest, new)) = Len(rest) + 1
      /\ UniqueKeys(Append(rest, new))
      /\ Entries(Append(rest, new)) = Entries(rest) \cup {new}
  BY <1>2, <1>5, <1>6, AppendFacts
<1>8. Touched(a, score) = Append(rest, new)
  BY DEF Touched, rest, new
<1>9. Len(Append(rest, new)) = Len(list)
  BY <1>3, <1>5, <1>7
<1>10. Touched(a, score) \in Table(Peers, Items)
  BY <1>7, <1>8 DEF Table, E
<1>11. Entries(Touched(a, score)) = {e \in Entries(list) : e.key # a} \cup {new}
  BY <1>5, <1>7, <1>8
<1> QED BY <1>7, <1>8, <1>9, <1>10, <1>11 DEF new

-----------------------------------------------------------------------------
(***************************************************************************)
(* What a score and the levels reported have to do with each other.  The   *)
(* first offence counts one, so that the score may be less by all but one  *)
(* of its level; later ones count in full until the limit is exceeded.     *)
(***************************************************************************)
Fair(score, reported) ==
  IF score <= MaxTries
    THEN score <= reported /\ reported <= score + MaxLevel - 1
    ELSE reported > MaxTries

BlockListInv ==
  /\ list \in Table(Peers, Items)
  /\ UniqueKeys(list)
  /\ Len(list) < MaxEntries
  /\ rules \in [Peers -> Nat]
  /\ shell \in {"open", "closed"}
  /\ offences \in [Peers -> 0..MustBlock]
  /\ shell = "open" =>
       \A a \in Peers : rules[a] = IF a \in Listed THEN 1 ELSE 0
  /\ \A a \in Peers : a \notin Listed => offences[a] = 0
  /\ \A e \in Entries(list) : Fair(e.data.score, offences[e.key])

\* The invariant says what is to be shown.
LEMMA InvMeansJudged == BlockListInv => RulesMirror /\ Judged
<1> SUFFICES ASSUME BlockListInv PROVE RulesMirror /\ Judged
  OBVIOUS
<1>1. RulesMirror
  BY DEF BlockListInv, RulesMirror
<1>2. Judged
  <2> SUFFICES ASSUME NEW a \in Peers
               PROVE  /\ Blocked(a) => offences[a] > MaxTries
                      /\ offences[a] = MustBlock => Blocked(a)
                      /\ a \notin Listed => offences[a] = 0
    BY DEF Judged
  <2>0. MaxTries \in Nat /\ MaxLevel \in Nat \ {0} /\ MustBlock = MaxTries + MaxLevel
    BY BlockListAssumption DEF MustBlock
  <2>1. CASE a \notin Listed
    <3>1. Score(a) = 0 /\ offences[a] = 0
      BY <2>1 DEF Score, Has, Listed, BlockListInv
    <3> QED BY <2>0, <2>1, <3>1 DEF Blocked
  <2>2. CASE a \in Listed
    <3>1. PICK e \in Entries(list) : e.key = a /\ Score(a) = e.data.score
      BY <2>2, ScoreOfEntry DEF BlockListInv
    <3>2. Fair(Score(a), offences[a])
      BY <3>1 DEF BlockListInv
    <3>3. e.data.score \in 0..MustBlock
      <4>1. e.data \in Items
        BY EntryType DEF BlockListInv
      <4> QED BY <4>1 DEF Items
    <3>4. Score(a) \in Nat /\ offences[a] \in Nat
      BY <2>0, <3>1, <3>3 DEF BlockListInv
    <3> QED BY <2>0, <2>2, <3>2, <3>4 DEF Fair, Blocked
  <2> QED BY <2>1, <2>2
<1> QED BY <1>1, <1>2

LEMMA BlockListInvInit == BlockListInit => BlockListInv
<1> SUFFICES ASSUME BlockListInit PROVE BlockListInv
  OBVIOUS
<1>1. /\ list \in Table(Peers, Items) /\ UniqueKeys(list) /\ Len(list) = 0
      /\ Entries(list) = {} /\ Listed = {}
  BY DEF BlockListInit, Table, UniqueKeys, Entries, Listed, KeysOf
<1>2. 0 < MaxEntries /\ 0 \in 0..MustBlock
  BY BlockListAssumption DEF MustBlock
<1> QED BY <1>1, <1>2 DEF BlockListInit, BlockListInv

-----------------------------------------------------------------------------
\* A further offence is counted in full, or not any more.
LEMMA FairAfterOffence ==
  ASSUME NEW s \in Nat, NEW o \in 0..MustBlock, NEW level \in 1..MaxLevel, Fair(s, o)
  PROVE  /\ Fair(IF s > MaxTries THEN s ELSE s + level, AtMost(o + level, MustBlock))
         /\ AtMost(o + level, MustBlock) \in 0..MustBlock
BY BlockListAssumption DEF Fair, AtMost, MustBlock

LEMMA FairAfterFirst ==
  ASSUME NEW level \in 1..MaxLevel
  PROVE  /\ Fair(1, AtMost(level, MustBlock))
         /\ AtMost(level, MustBlock) \in 0..MustBlock
BY BlockListAssumption DEF Fair, AtMost, MustBlock

\* The score of a listed address, and that it is fair.
LEMMA ScoreIsFair ==
  ASSUME BlockListInv, NEW a \in Listed
  PROVE  Score(a) \in 0..MustBlock /\ Fair(Score(a), offences[a])
<1>1. PICK e \in Entries(list) : e.key = a /\ Score(a) = e.data.score
  BY ScoreOfEntry DEF BlockListInv
<1>2. e.data \in Items
  BY EntryType DEF BlockListInv
<1> QED BY <1>1, <1>2 DEF Items, BlockListInv

\* The parts of the invariant about the list, when an entry is touched.
LEMMA TouchedKeeps ==
  ASSUME BlockListInv, NEW a \in Listed, NEW score \in 0..MustBlock,
         list' = Touched(a, score)
  PROVE  /\ list' \in Table(Peers, Items)
         /\ UniqueKeys(list')
         /\ Len(list') < MaxEntries
         /\ Listed' = Listed
         /\ \A e \in Entries(list') :
              \/ e \in Entries(list) /\ e.key # a
              \/ e.key = a /\ e.data.score = score
<1>0. a \in Peers
  BY ScoreOfEntry DEF BlockListInv
<1>1. /\ Touched(a, score) \in Table(Peers, Items)
      /\ Len(Touched(a, score)) = Len(list)
      /\ UniqueKeys(Touched(a, score))
      /\ Entries(Touched(a, score))
           = {e \in Entries(list) : e.key # a} \cup {Entry(a, Item(score, 0))}
  BY <1>0, TouchedFacts DEF BlockListInv
<1>2. Entry(a, Item(score, 0)).key = a /\ Entry(a, Item(score, 0)).data.score = score
  BY DEF Entry, Item
<1>3. Listed' = {e.key : e \in Entries(list')} /\ Listed = {e.key : e \in Entries(list)}
  BY KeysAreOfEntries DEF Listed
<1>4. Entries(list') = {e \in Entries(list) : e.key # a} \cup {Entry(a, Item(score, 0))}
  BY <1>1
<1>5. Listed' = Listed
  BY <1>2, <1>3, <1>4
<1> QED BY <1>1, <1>2, <1>4, <1>5 DEF BlockListInv

LEMMA CheckKeepsInv ==
  ASSUME BlockListInv, NEW a \in Peers, CheckBlockList(a)
  PROVE  BlockListInv'
<1>1. rules' = rules /\ shell' = shell /\ offences' = offences
  BY DEF CheckBlockList
<1>2. CASE ~Has(list, a)
  <2>1. list' = list
    BY <1>2 DEF CheckBlockList
  <2> QED BY <1>1, <2>1 DEF BlockListInv, Listed
<1>3. CASE Has(list, a)
  <2>1. a \in Listed
    BY <1>3 DEF Has, Listed
  <2>2. Score(a) \in 0..MustBlock /\ Fair(Score(a), offences[a])
    BY <2>1, ScoreIsFair
  <2>3. list' = Touched(a, Score(a))
    BY <1>3 DEF CheckBlockList
  <2>4. /\ list' \in Table(Peers, Items) /\ UniqueKeys(list')
        /\ Len(list') < MaxEntries /\ Listed' = Listed
        /\ \A e \in Entries(list') :
             \/ e \in Entries(list) /\ e.key # a
             \/ e.key = a /\ e.data.score = Score(a)
    BY <2>1, <2>2, <2>3, TouchedKeeps
  <2>5. \A e \in Entries(list') : Fair(e.data.score, offences[e.key])
    BY <2>2, <2>4 DEF BlockListInv
  <2> QED BY <1>1, <2>4, <2>5 DEF BlockListInv
<1> QED BY <1>2, <1>3

LEMMA FurtherOffenceKeepsInv ==
  ASSUME BlockListInv, NEW a \in Peers, NEW level \in 1..MaxLevel,
         UpdateBlockList(a, level), Has(list, a)
  PROVE  BlockListInv'
<1>1. /\ list' = Touched(a, Worse(a, level))
      /\ offences' = [offences EXCEPT ![a] = AtMost(@ + level, MustBlock)]
      /\ rules' = rules /\ shell' = shell
  BY DEF UpdateBlockList
<1>2. a \in Listed
  BY DEF Has, Listed
<1>3. Score(a) \in 0..MustBlock /\ Fair(Score(a), offences[a])
  BY <1>2, ScoreIsFair
<1>4. Worse(a, level) = IF Score(a) > MaxTries THEN Score(a) ELSE Score(a) + level
  BY DEF Worse, Blocked
<1>5. Worse(a, level) \in 0..MustBlock
  BY <1>3, <1>4, BlockListAssumption DEF MustBlock
<1>6. offences[a] \in 0..MustBlock
  BY DEF BlockListInv
<1>7. /\ Fair(Worse(a, level), AtMost(offences[a] + level, MustBlock))
      /\ AtMost(offences[a] + level, MustBlock) \in 0..MustBlock
  BY <1>3, <1>4, <1>6, FairAfterOffence
<1>8. /\ offences' \in [Peers -> 0..MustBlock]
      /\ offences'[a] = AtMost(offences[a] + level, MustBlock)
      /\ \A b \in Peers : b # a => offences'[b] = offences[b]
  BY <1>1, <1>7 DEF BlockListInv
<1>9. /\ list' \in Table(Peers, Items) /\ UniqueKeys(list')
      /\ Len(list') < MaxEntries /\ Listed' = Listed
      /\ \A e \in Entries(list') :
           \/ e \in Entries(list) /\ e.key # a
           \/ e.key = a /\ e.data.score = Worse(a, level)
  BY <1>1, <1>2, <1>5, TouchedKeeps
<1>10. ASSUME NEW e \in Entries(list')
       PROVE  Fair(e.data.score, offences'[e.key])
  <2>1. e.key \in Peers
    BY <1>9, EntryType
  <2>2. CASE e \in Entries(list) /\ e.key # a
    BY <1>8, <2>1, <2>2 DEF BlockListInv
  <2>3. CASE e.key = a /\ e.data.score = Worse(a, level)
    BY <1>7, <1>8, <2>3
  <2> QED BY <1>9, <2>2, <2>3
<1>11. \A b \in Peers : b \notin Listed' => offences'[b] = 0
  BY <1>2, <1>8, <1>9 DEF BlockListInv
<1> QED BY <1>1, <1>8, <1>9, <1>10, <1>11 DEF BlockListInv

LEMMA FirstOffenceKeepsInv ==
  ASSUME BlockListInv, NEW a \in Peers, NEW level \in 1..MaxLevel,
         UpdateBlockList(a, level), ~Has(list, a)
  PROVE  BlockListInv'
<1> DEFINE new   == Entry(a, Item(FirstScore, 0))
           added == Append(list, new)
           gone  == IF Len(added) >= MaxEntries THEN {Head(added).key} ELSE {}
           all   == Entries(list) \cup {new}
<1>1. /\ list' = Inserted(list, a, Item(FirstScore, 0), MaxEntries)
      /\ rules' = [x \in Peers |-> IF x = a THEN rules[x] + 1
                     ELSE IF x \in gone /\ rules[x] > 0 THEN rules[x] - 1
                     ELSE rules[x]]
      /\ offences' = [x \in Peers |-> IF x = a THEN AtMost(level, MustBlock)
                        ELSE IF x \in gone THEN 0 ELSE offences[x]]
      /\ shell' = shell
  BY DEF UpdateBlockList
<1>2. a \notin KeysOf(list) /\ a \notin Listed
  BY DEF Has, Listed
<1>3. MaxEntries \in Nat /\ MaxAge \in Nat /\ MustBlock \in Nat /\ 1 <= MustBlock
      /\ MaxEntries > 1
  BY BlockListAssumption DEF MustBlock
<1>4. Item(FirstScore, 0) \in Items
  BY <1>3 DEF Item, Items, FirstScore
<1>5. new.key = a /\ new.data.score = 1
  BY DEF Entry, Item, FirstScore
<1>6. /\ list' \in Table(Peers, Items)
      /\ Len(list') < MaxEntries
      /\ UniqueKeys(list')
      /\ \/ ~(Len(added) >= MaxEntries) /\ Entries(list') = all
         \/ /\ Len(added) >= MaxEntries
            /\ \E e \in all : Entries(list') = all \ {e} /\ e = Head(added)
  <2> DEFINE D == Items
             d == Item(FirstScore, 0)
  <2>1. list \in Table(Peers, D) /\ UniqueKeys(list) /\ Len(list) < MaxEntries /\ d \in D
    BY <1>4 DEF BlockListInv
  <2> HIDE DEF D, d
  <2>2. LET every == Entries(list) \cup {Entry(a, d)}
        IN  /\ Inserted(list, a, d, MaxEntries) \in Table(Peers, D)
            /\ Len(Inserted(list, a, d, MaxEntries)) < MaxEntries
            /\ UniqueKeys(Inserted(list, a, d, MaxEntries))
            /\ \/ /\ ~(Len(Append(list, Entry(a, d))) >= MaxEntries)
                  /\ Entries(Inserted(list, a, d, MaxEntries)) = every
                  /\ EvictedData(list, a, d, MaxEntries) = {}
               \/ /\ Len(Append(list, Entry(a, d))) >= MaxEntries
                  /\ \E e \in every :
                       /\ Entries(Inserted(list, a, d, MaxEntries)) = every \ {e}
                       /\ EvictedData(list, a, d, MaxEntries) = {e.data}
                       /\ e = Head(Append(list, Entry(a, d)))
    BY <1>2, <1>3, <2>1, InsertedFacts
  <2> QED BY <1>1, <2>2 DEF D, d
\* The first of a list of two or more is not the one that was just added.
<1>7. Len(added) >= MaxEntries => Head(added).key # a
  <2> SUFFICES ASSUME Len(added) >= MaxEntries PROVE Head(added).key # a
    OBVIOUS
  <2> DEFINE E == [key : Peers, data : Items]
  <2>1. list \in Seq(E)
    BY DEF BlockListInv, Table
  <2>2. new \in E
    BY <1>4 DEF Entry
  <2> HIDE DEF E, new
  <2>3. Len(added) = Len(list) + 1 /\ Len(list) \in Nat
    BY <2>1
  <2>4. Len(list) >= 1 /\ 1 \in DOMAIN list
    BY <1>3, <2>1, <2>3
  <2>5. Head(added) = list[1]
    BY <2>1, <2>2, <2>4
  <2>6. list[1].key \in KeysOf(list)
    BY <2>4 DEF KeysOf
  <2> QED BY <1>2, <2>5, <2>6
\* Who is on the list now: whoever was, without who is gone, and the new one.
<1>8. Listed' = (Listed \cup {a}) \ gone
  <2>1. Listed' = {e.key : e \in Entries(list')} /\ Listed = {e.key : e \in Entries(list)}
    BY KeysAreOfEntries DEF Listed
  <2>2. {e.key : e \in all} = Listed \cup {a}
    BY <1>5, <2>1
  <2>3. CASE ~(Len(added) >= MaxEntries)
    <3>1. Entries(list') = all /\ gone = {}
      BY <1>6, <2>3
    <3> QED BY <2>1, <2>2, <3>1
  <2>4. CASE Len(added) >= MaxEntries
    <3>1. PICK e \in all : Entries(list') = all \ {e} /\ e = Head(added)
      BY <1>6, <2>4
    <3>2. gone = {e.key}
      BY <2>4, <3>1
    <3>3. e \in Entries(list)
      BY <1>5, <1>7, <2>4, <3>1
    <3>4. \A x \in all : x.key = e.key => x = e
      <4>1. \A x \in Entries(list) : x.key = e.key => x = e
        BY <3>3 DEF BlockListInv, UniqueKeys, Entries
      <4>2. new.key # e.key
        BY <1>5, <1>7, <2>4, <3>1
      <4> QED BY <4>1, <4>2
    <3> HIDE DEF all, new
    <3>5. \A x \in all : x \in Entries(list') <=> x.key \notin gone
      BY <3>1, <3>2, <3>4
    <3>6. Entries(list') \subseteq all
      BY <3>1
    <3> QED BY <2>1, <2>2, <3>5, <3>6
  <2> QED BY <2>3, <2>4
<1>9. a \notin gone
  BY <1>7
<1>10. Listed \subseteq Peers
  BY ScoreOfEntry DEF BlockListInv
<1>11. rules' \in [Peers -> Nat]
  BY <1>1 DEF BlockListInv
<1>12. shell' = "open" =>
         \A x \in Peers : rules'[x] = IF x \in Listed' THEN 1 ELSE 0
  <2> SUFFICES ASSUME shell = "open", NEW x \in Peers
               PROVE  rules'[x] = IF x \in Listed' THEN 1 ELSE 0
    BY <1>1
  <2>1. rules[x] = IF x \in Listed THEN 1 ELSE 0
    BY DEF BlockListInv
  <2> HIDE DEF gone
  <2>2. CASE x = a
    BY <1>1, <1>2, <1>8, <1>9, <2>1, <2>2
  <2>3. CASE x # a /\ x \in gone
    <3>1. rules'[x] = IF rules[x] > 0 THEN rules[x] - 1 ELSE rules[x]
      BY <1>1, <2>3
    <3>2. x \notin Listed'
      BY <1>8, <2>3
    <3> QED BY <2>1, <3>1, <3>2
  <2>4. CASE x # a /\ x \notin gone
    BY <1>1, <1>8, <2>1, <2>4
  <2> QED BY <2>2, <2>3, <2>4
<1>13. AtMost(level, MustBlock) \in 0..MustBlock /\ Fair(1, AtMost(level, MustBlock))
  BY FairAfterFirst
<1>14. offences' \in [Peers -> 0..MustBlock]
  BY <1>1, <1>3, <1>13 DEF BlockListInv
<1>15. \A x \in Peers : x \notin Listed' => offences'[x] = 0
  <2> SUFFICES ASSUME NEW x \in Peers, x \notin Listed' PROVE offences'[x] = 0
    OBVIOUS
  <2> HIDE DEF gone
  <2>1. x # a
    BY <1>8, <1>9
  <2>2. CASE x \in gone
    BY <1>1, <2>1, <2>2
  <2>3. CASE x \notin gone
    BY <1>1, <1>8, <2>1, <2>3 DEF BlockListInv
  <2> QED BY <2>2, <2>3
<1>16. ASSUME NEW e \in Entries(list')
       PROVE  Fair(e.data.score, offences'[e.key])
  <2>1. e \in all /\ e.key \in Listed' /\ e.key \in Peers
    <3>1. e \in all
      BY <1>6
    <3>2. e.key \in Listed'
      BY KeysAreOfEntries DEF Listed
    <3>3. e.key \in Peers
      BY <1>6, EntryType
    <3> QED BY <3>1, <3>2, <3>3
  <2>2. CASE e = new
    BY <1>1, <1>5, <1>13, <2>1, <2>2
  <2>3. CASE e \in Entries(list)
    <3>1. e.key # a /\ e.key \notin gone
      <4>1. e.key \in Listed
        BY <2>3, KeysAreOfEntries DEF Listed
      <4> QED BY <1>2, <1>8, <2>1, <4>1
    <3>2. offences'[e.key] = offences[e.key]
      BY <1>1, <2>1, <3>1
    <3> QED BY <2>3, <3>2 DEF BlockListInv
  <2> QED BY <2>1, <2>2, <2>3
<1> QED BY <1>1, <1>6, <1>11, <1>12, <1>14, <1>15, <1>16 DEF BlockListInv

\* Some are taken from the list and forgotten.
LEMMA ForgettingKeepsInv ==
  ASSUME BlockListInv, NEW gone \in SUBSET Listed,
         list' \in Table(Peers, Items), UniqueKeys(list'), Len(list') <= Len(list),
         Entries(list') = {e \in Entries(list) : e.key \notin gone},
         offences' = [a \in Peers |-> IF a \in gone THEN 0 ELSE offences[a]],
         \/ shell' = shell /\ Forget(gone)
         \/ shell' = "closed" /\ rules' = [a \in Peers |-> 0]
  PROVE  BlockListInv'
<1>1. Listed' = Listed \ gone
  <2>1. Listed' = {e.key : e \in Entries(list')} /\ Listed = {e.key : e \in Entries(list)}
    BY KeysAreOfEntries DEF Listed
  <2> QED BY <2>1
<1>2. Listed \subseteq Peers
  BY ScoreOfEntry DEF BlockListInv
<1>3. Len(list') < MaxEntries
  <2>1. Len(list) \in Nat /\ Len(list') \in Nat
    BY DEF BlockListInv, Table
  <2> QED BY <2>1, BlockListAssumption DEF BlockListInv
<1>4. offences' \in [Peers -> 0..MustBlock]
  BY BlockListAssumption DEF BlockListInv, MustBlock
<1>5. \A a \in Peers : a \notin Listed' => offences'[a] = 0
  BY <1>1 DEF BlockListInv
<1>6. \A e \in Entries(list') : Fair(e.data.score, offences'[e.key])
  <2> SUFFICES ASSUME NEW e \in Entries(list')
               PROVE  Fair(e.data.score, offences'[e.key])
    OBVIOUS
  <2>1. e \in Entries(list) /\ e.key \notin gone /\ e.key \in Peers
    BY EntryType
  <2> QED BY <2>1 DEF BlockListInv
<1>7. /\ rules' \in [Peers -> Nat] /\ shell' \in {"open", "closed"}
      /\ shell' = "open" => \A a \in Peers : rules'[a] = IF a \in Listed' THEN 1 ELSE 0
  <2>1. CASE shell' = "closed" /\ rules' = [a \in Peers |-> 0]
    BY <2>1
  <2>2. CASE shell' = shell /\ Forget(gone)
    <3>1. rules' = [a \in Peers |-> IF a \in gone /\ rules[a] > 0
                                      THEN rules[a] - 1 ELSE rules[a]]
      BY <2>2 DEF Forget
    <3>2. rules' \in [Peers -> Nat]
      BY <3>1 DEF BlockListInv
    <3>3. ASSUME shell = "open", NEW a \in Peers
          PROVE  rules'[a] = IF a \in Listed' THEN 1 ELSE 0
      <4>1. rules[a] = IF a \in Listed THEN 1 ELSE 0
        BY <3>3 DEF BlockListInv
      <4>2. CASE a \in gone
        BY <1>1, <3>1, <4>1, <4>2
      <4>3. CASE a \notin gone
        BY <1>1, <3>1, <4>1, <4>3
      <4> QED BY <4>2, <4>3
    <3> QED BY <2>2, <3>2, <3>3 DEF BlockListInv
  <2> QED BY <2>1, <2>2
<1> QED BY <1>3, <1>4, <1>5, <1>6, <1>7 DEF BlockListInv

LEMMA RemoveKeepsInv ==
  ASSUME BlockListInv, NEW a \in Peers, RemoveFromBlockList(a)
  PROVE  BlockListInv'
<1> DEFINE gone == IF Has(list, a) THEN {a} ELSE {}
<1>1. gone \in SUBSET Listed
  BY DEF Has, Listed
<1>2. /\ list' \in Table(Peers, Items) /\ Len(list') <= Len(list) /\ UniqueKeys(list')
      /\ Entries(list') = {e \in Entries(list) : e.key # a}
  <2> DEFINE D == Items
  <2>1. list \in Table(Peers, D) /\ UniqueKeys(list) /\ list' = Removed(list, a)
    BY DEF BlockListInv, RemoveFromBlockList
  <2> HIDE DEF D
  <2>2. /\ Removed(list, a) \in Table(Peers, D)
        /\ Len(Removed(list, a)) <= Len(list)
        /\ UniqueKeys(Removed(list, a))
        /\ Entries(Removed(list, a)) = {e \in Entries(list) : e.key # a}
    BY <2>1, RemovedFacts
  <2> QED BY <2>1, <2>2 DEF D
<1>3. Entries(list') = {e \in Entries(list) : e.key \notin gone}
  <2>1. CASE Has(list, a)
    BY <1>2, <2>1
  <2>2. CASE ~Has(list, a)
    <3>1. \A e \in Entries(list) : e.key # a
      BY <2>2, KeysAreOfEntries DEF Has
    <3> QED BY <1>2, <2>2, <3>1
  <2> QED BY <2>1, <2>2
<1>4. shell' = shell /\ Forget(gone)
      /\ offences' = [x \in Peers |-> IF x \in gone THEN 0 ELSE offences[x]]
  BY DEF RemoveFromBlockList, Forget
<1> HIDE DEF gone
<1> QED BY <1>1, <1>2, <1>3, <1>4, ForgettingKeepsInv

\* What is kept of a list when some of the entries are taken out.
LEMMA KeptOfList ==
  ASSUME BlockListInv, NEW gone, list' = Kept(list, gone)
  PROVE  /\ list' \in Table(Peers, Items) /\ Len(list') <= Len(list) /\ UniqueKeys(list')
         /\ Entries(list') = {e \in Entries(list) : e.key \notin gone}
<1> DEFINE D == Items
<1>1. list \in Table(Peers, D) /\ UniqueKeys(list)
  BY DEF BlockListInv
<1> HIDE DEF D
<1>2. /\ Kept(list, gone) \in Table(Peers, D)
      /\ Len(Kept(list, gone)) <= Len(list)
      /\ UniqueKeys(Kept(list, gone))
      /\ Entries(Kept(list, gone)) = {e \in Entries(list) : e.key \notin gone}
  BY <1>1, KeptFacts
<1> QED BY <1>2 DEF D

LEMMA ClearKeepsInv ==
  ASSUME BlockListInv, ClearBlockList
  PROVE  BlockListInv'
<1>1. list' = Kept(list, Old) /\ Forget(Old) /\ shell' = shell
  BY DEF ClearBlockList
<1>2. Old \in SUBSET Listed
  BY DEF Old
<1>3. offences' = [x \in Peers |-> IF x \in Old THEN 0 ELSE offences[x]]
  BY <1>1 DEF Forget
<1> QED BY <1>1, <1>2, <1>3, KeptOfList, ForgettingKeepsInv

LEMMA FreeKeepsInv ==
  ASSUME BlockListInv, FreeBlockList
  PROVE  BlockListInv'
<1>1. PICK gone \in SUBSET Listed :
        /\ list' = Kept(list, gone)
        /\ offences' = [a \in Peers |-> IF a \in gone THEN 0 ELSE offences[a]]
  BY DEF FreeBlockList
<1>2. shell' = "closed" /\ rules' = [a \in Peers |-> 0]
  BY DEF FreeBlockList
<1> QED BY <1>1, <1>2, KeptOfList, ForgettingKeepsInv

LEMMA LoseKeepsInv ==
  ASSUME BlockListInv, LoseBlockList
  PROVE  BlockListInv'
BY DEF LoseBlockList, BlockListInv, Listed

LEMMA TickKeepsInv ==
  ASSUME BlockListInv, Tick
  PROVE  BlockListInv'
<1> DEFINE older(i) == Entry(list[i].key, Item(list[i].data.score,
                               AtMost(list[i].data.age + 1, MaxAge + 1)))
           E == [key : Peers, data : Items]
<1>1. list' = [i \in DOMAIN list |-> older(i)]
      /\ rules' = rules /\ shell' = shell /\ offences' = offences
  BY DEF Tick
<1>2. list \in Seq(E) /\ DOMAIN list = 1..Len(list) /\ Len(list) \in Nat
  BY DEF BlockListInv, Table
<1>3. ASSUME NEW i \in DOMAIN list
      PROVE  /\ older(i) \in E
             /\ older(i).key = list[i].key
             /\ older(i).data.score = list[i].data.score
  <2>1. list[i] \in Entries(list)
    BY DEF Entries
  <2>2. list[i].key \in Peers /\ list[i].data \in Items
    BY <2>1, EntryType DEF BlockListInv
  <2>3. list[i].data.score \in 0..MustBlock /\ list[i].data.age \in 0..(MaxAge + 1)
    BY <2>2 DEF Items
  <2>4. AtMost(list[i].data.age + 1, MaxAge + 1) \in 0..(MaxAge + 1)
    BY <2>3, BlockListAssumption DEF AtMost
  <2>5. Item(list[i].data.score, AtMost(list[i].data.age + 1, MaxAge + 1)) \in Items
    BY <2>3, <2>4 DEF Item, Items
  <2> QED BY <2>2, <2>5 DEF Entry, Item
<1> HIDE DEF older, E
<1>4. list' \in Seq(E) /\ Len(list') = Len(list) /\ DOMAIN list' = DOMAIN list
  BY <1>1, <1>2, <1>3
<1>5. UniqueKeys(list')
  BY <1>1, <1>3, <1>4 DEF UniqueKeys, BlockListInv
<1>6. Listed' = Listed
  BY <1>1, <1>3, <1>4 DEF Listed, KeysOf
<1>7. ASSUME NEW e \in Entries(list')
      PROVE  Fair(e.data.score, offences'[e.key])
  <2>1. PICK i \in DOMAIN list : e = older(i)
    BY <1>1, <1>4 DEF Entries
  <2>2. e.key = list[i].key /\ e.data.score = list[i].data.score /\ list[i] \in Entries(list)
    BY <1>3, <2>1 DEF Entries
  <2> QED BY <1>1, <2>2 DEF BlockListInv
<1>8. list' \in Table(Peers, Items)
  BY <1>4 DEF Table, E
<1> QED BY <1>1, <1>4, <1>5, <1>6, <1>7, <1>8 DEF BlockListInv

LEMMA BlockListInvStep ==
  ASSUME BlockListInv, [BlockListNext]_blockVars
  PROVE  BlockListInv'
<1>1. CASE \E a \in Peers : CheckBlockList(a)
  BY <1>1, CheckKeepsInv
<1>2. CASE \E a \in Peers, level \in 1..MaxLevel : UpdateBlockList(a, level)
  BY <1>2, FirstOffenceKeepsInv, FurtherOffenceKeepsInv
<1>3. CASE \E a \in Peers : RemoveFromBlockList(a)
  BY <1>3, RemoveKeepsInv
<1>4. CASE ClearBlockList
  BY <1>4, ClearKeepsInv
<1>5. CASE Tick
  BY <1>5, TickKeepsInv
<1>6. CASE FreeBlockList
  BY <1>6, FreeKeepsInv
<1>7. CASE UNCHANGED blockVars
  BY <1>7 DEF blockVars, BlockListInv, Listed
<1>8. CASE LoseBlockList
  BY <1>8, LoseKeepsInv
<1> QED BY <1>1, <1>2, <1>3, <1>4, <1>5, <1>6, <1>7, <1>8 DEF BlockListNext

LEMMA BlockListInvariant == BlockListSpec => []BlockListInv
<1>1. BlockListInit => BlockListInv
  BY BlockListInvInit
<1>2. BlockListInv /\ [BlockListNext]_blockVars => BlockListInv'
  BY BlockListInvStep
<1> QED BY <1>1, <1>2, PTL DEF BlockListSpec

(***************************************************************************)
(* The firewall has one DROP rule for every address on the list and none   *)
(* for any other, through eviction, ageing and pardon, and the list keeps  *)
(* within its capacity.                                                    *)
(***************************************************************************)
THEOREM FirewallMirrorsList == BlockListSpec => []RulesMirror
<1>1. BlockListInv => RulesMirror
  BY InvMeansJudged
<1> QED BY <1>1, BlockListInvariant, PTL

(***************************************************************************)
(* update_block_list refuses whom it should: nobody is blocked whose       *)
(* reported levels do not exceed the limit, and everybody is by the time   *)
(* they exceed it by the highest level.                                    *)
(***************************************************************************)
THEOREM BlockedIffDeserved == BlockListSpec => []Judged
<1>1. BlockListInv => Judged
  BY InvMeansJudged
<1> QED BY <1>1, BlockListInvariant, PTL

-----------------------------------------------------------------------------
(***************************************************************************)
(* Server.                                                                 *)
(***************************************************************************)
Phases == {"header", "error", "resolving", "connecting", "stream", "closed"}

ConnTypeOK ==
  /\ phase \in [Conns -> Phases]
  /\ blame \in [Conns -> {"none", "reset"} \cup DOMAIN Level]
  /\ peer \in [Conns -> Peers \cup {None}]
  /\ owner \in [Queries -> Conns \cup {None}]
  /\ handle \in [Conns -> Queries \cup {None}]
  /\ stray \subseteq Conns

\* What ties queries and connections together.  A connection has a handle while
\* it waits, and it is a stray if the handle is not of a query that is its own.
OfQuery(q) ==
  IF Live(q) THEN owner[q] \in Conns /\ Resolving(owner[q]) /\ handle[owner[q]] = q
             ELSE owner[q] = None

OfConn(c) ==
  /\ handle[c] # None <=> Resolving(c)
  /\ c \in stray => Resolving(c)
  /\ Resolving(c) =>
       (c \notin stray <=> (Live(handle[c]) /\ owner[handle[c]] = c))

Tied == (\A q \in Queries : OfQuery(q)) /\ (\A c \in Conns : OfConn(c))

\* An open connection has a client, and the server runs.
OpenHasClient ==
  \A c \in Conns : Open(c) => peer[c] \in Peers /\ shell = "open"

ToldOK == told \in {Nothing} \cup
            (Queries \X (Addresses \cup {None}) \X SUBSET Addresses)

ServerInv ==
  /\ ResolverInv /\ ToldOK
  /\ BlockListInv
  /\ ConnTypeOK
  /\ OpenHasClient
  /\ Tied

-----------------------------------------------------------------------------
LEMMA TiedMeansOwned == ConnTypeOK /\ Tied => QueriesOwned
<1> SUFFICES ASSUME ConnTypeOK, Tied PROVE QueriesOwned
  OBVIOUS
<1>1. ASSUME NEW q \in Queries, Live(q) PROVE \E c \in Conns : Waits(c, q)
  BY <1>1 DEF Tied, OfQuery, Waits
<1>2. ASSUME NEW c \in Conns, Resolving(c), c \notin stray
      PROVE  \E q \in Queries : Waits(c, q)
  <2>1. handle[c] \in Queries
    BY <1>2 DEF Tied, OfConn, ConnTypeOK
  <2> QED BY <1>2, <2>1 DEF Tied, OfConn, Waits
<1> QED BY <1>1, <1>2 DEF QueriesOwned

-----------------------------------------------------------------------------
(***************************************************************************)
(* The resolver.                                                           *)
(***************************************************************************)
LEMMA CancelQueryCancels ==
  ASSUME ServerInv, NEW c \in Conns, CancelQuery(c)
  PROVE  \/ ResolverQuiet
         \/ \E q \in Queries : ResolvCancel(q)
BY DEF CancelQuery, ServerInv, ConnTypeOK

LEMMA ResolverStep ==
  ASSUME ServerInv, Next
  PROVE  ResolverNext
<1>1. CASE ResolverQuiet
  BY <1>1 DEF ResolverNext
<1>2. CASE \E q \in Queries : ResolvCancel(q)
  BY <1>2 DEF ResolverNext
<1>3. CASE \E a \in Peers : Refuse(a)
  BY <1>1, <1>3 DEF Refuse, NoQuery
<1>4. CASE \E c \in Conns, a \in Peers : Accept(c, a)
  BY <1>1, <1>4 DEF Accept, NoQuery
<1>5. CASE \E c \in Conns : Malformed(c) \/ Reject(c) \/ Dial(c) \/ Connected(c)
  BY <1>1, <1>5 DEF Malformed, Reject, Dial, Connected, NoQuery
<1>6. CASE \E c \in Conns : AskName(c)
  <2>1. \E q \in Queries, n \in DOMAIN Zone : ResolvQuery(q, n)
    BY <1>6 DEF AskName
  <2> QED BY <2>1 DEF ResolverNext
<1>7. CASE \E c \in Conns : Close(c) \/ Timeout(c)
  <2>1. \E c \in Conns : CancelQuery(c)
    BY <1>7 DEF Close, Timeout
  <2> QED BY <1>1, <1>2, <2>1, CancelQueryCancels
<1>8. CASE \E q \in Queries : ResolveCb(q)
  <2>1. \E q \in Queries, f \in Families : FirstAnswer(q, f) \/ LastAnswer(q, f)
    BY <1>8 DEF ResolveCb, FirstAnswered, LastAnswered
  <2> QED BY <2>1 DEF ResolverNext
<1>9. CASE BlockListClearCb \/ Time
  BY <1>1, <1>9 DEF BlockListClearCb, Time
<1>10. CASE Exit \/ Crash
  BY <1>10 DEF Exit, Crash, Ends, ResolverNext
<1> QED BY <1>3, <1>4, <1>5, <1>6, <1>7, <1>8, <1>9, <1>10 DEF Next

LEMMA ToldTyped ==
  ASSUME ResolverInv, ResolverNext
  PROVE  ToldOK'
<1>1. CASE told' = Nothing
  BY <1>1 DEF ToldOK
<1>2. CASE \E q \in Queries : \E f \in Families : LastAnswer(q, f)
  BY <1>2, LastAnswerTells DEF ToldOK
<1> QED
  BY <1>1, <1>2 DEF ResolverNext, ResolvQuery, ResolvCancel, FirstAnswer, CancelAll,
                    ResolverQuiet

-----------------------------------------------------------------------------
(***************************************************************************)
(* The block list.                                                         *)
(***************************************************************************)
LEMMA Reporting ==
  ASSUME ServerInv, NEW c \in Conns, Open(c),
         NEW why \in {"malformed", "bad", "malicious", "suspicious"},
         ReportAddr(c, why)
  PROVE  \/ UNCHANGED blockVars
         \/ /\ shell = "open"
            /\ \E a \in Peers, level \in 1..MaxLevel : UpdateBlockList(a, level)
<1>1. peer[c] \in Peers /\ shell = "open"
  BY DEF ServerInv, OpenHasClient
<1>2. Level[why] \in 1..MaxLevel
  BY LevelAssumption
<1>3. UpdateBlockList(peer[c], Level[why]) \/ UNCHANGED blockVars
  BY DEF ReportAddr
<1> QED BY <1>1, <1>2, <1>3

\* What a step of the server is for the block list.
BlockCases ==
  \/ UNCHANGED blockVars
  \/ FreeBlockList
  \/ LoseBlockList
  \/ /\ shell = "open"
     /\ \/ \E a \in Peers : CheckBlockList(a)
        \/ \E a \in Peers, level \in 1..MaxLevel : UpdateBlockList(a, level)
        \/ \E c \in Conns : Connected(c) /\ peer[c] \in Peers /\ RemoveFromBlockList(peer[c])
        \/ ClearBlockList
        \/ Tick

LEMMA BlockStep ==
  ASSUME ServerInv, Next
  PROVE  BlockCases
<1>1. CASE \E a \in Peers : Refuse(a)
  BY <1>1 DEF Refuse, BlockCases
<1>2. CASE \E c \in Conns, a \in Peers : Accept(c, a)
  BY <1>2 DEF Accept, BlockCases
<1>3. CASE \E c \in Conns : Malformed(c) \/ Reject(c) \/ Timeout(c)
  <2>1. PICK c \in Conns : Malformed(c) \/ Reject(c) \/ Timeout(c)
    BY <1>3
  <2>2. Open(c)
    BY <2>1 DEF Malformed, Reject, Timeout, Open
  <2>3. \/ UNCHANGED blockVars
        \/ \E why \in {"malformed", "bad", "malicious", "suspicious"} : ReportAddr(c, why)
    BY <2>1 DEF Malformed, Reject, Timeout, NoReport
  <2> QED BY <2>2, <2>3, Reporting DEF BlockCases
<1>4. CASE \E c \in Conns : Dial(c) \/ AskName(c) \/ Close(c)
  BY <1>4 DEF Dial, AskName, Close, NoReport, BlockCases
<1>5. CASE \E c \in Conns : Connected(c)
  <2>1. PICK c \in Conns : Connected(c)
    BY <1>5
  <2>2. peer[c] \in Peers /\ shell = "open"
    BY <2>1 DEF Connected, Open, ServerInv, OpenHasClient
  <2>3. RemoveFromBlockList(peer[c]) \/ UNCHANGED blockVars
    BY <2>1 DEF Connected, ResetAddr
  <2> QED BY <2>1, <2>2, <2>3 DEF BlockCases
<1>6. CASE \E q \in Queries : ResolveCb(q)
  BY <1>6 DEF ResolveCb, FirstAnswered, LastAnswered, NoReport, BlockCases
<1>7. CASE shell = "open" /\ (BlockListClearCb \/ Time)
  BY <1>7 DEF BlockListClearCb, Time, BlockCases
<1>8. CASE Exit \/ Crash
  BY <1>8 DEF Exit, Crash, BlockCases
<1> QED BY <1>1, <1>2, <1>3, <1>4, <1>5, <1>6, <1>7, <1>8 DEF Next

LEMMA BlockCasesKeepInv ==
  ASSUME BlockListInv, BlockCases
  PROVE  BlockListInv'
BY BlockListInvStep DEF BlockCases, BlockListNext

-----------------------------------------------------------------------------
(***************************************************************************)
(* The connections.                                                        *)
(***************************************************************************)
LEMMA GoesFacts ==
  ASSUME ConnTypeOK, NEW c \in Conns, NEW to \in Phases, Goes(c, to)
  PROVE  /\ phase' \in [Conns -> Phases] /\ peer' \in [Conns -> Peers \cup {None}]
         /\ phase'[c] = to
         /\ \A d \in Conns \ {c} : phase'[d] = phase[d] /\ peer'[d] = peer[d]
         /\ to # "closed" => peer'[c] = peer[c]
BY DEF ConnTypeOK, Goes

\* A connection that was open has moved on.
LEMMA GoesKeepsClients ==
  ASSUME ServerInv, NEW c \in Conns, Open(c), NEW to \in Phases, Goes(c, to),
         shell' = shell
  PROVE  OpenHasClient'
<1>1. /\ phase'[c] = to
      /\ \A d \in Conns \ {c} : phase'[d] = phase[d] /\ peer'[d] = peer[d]
      /\ to # "closed" => peer'[c] = peer[c]
  BY GoesFacts DEF ServerInv
<1> QED BY <1>1 DEF ServerInv, OpenHasClient, Open

\* A connection that does not wait is no query's owner.
LEMMA NoQueryFacts ==
  ASSUME ServerInv, NEW c \in Conns, ~Resolving(c)
  PROVE  /\ handle[c] = None /\ c \notin stray
         /\ \A q \in Queries : owner[q] # c
<1>1. handle[c] = None /\ c \notin stray
  BY DEF ServerInv, Tied, OfConn
<1>2. ASSUME NEW q \in Queries, owner[q] = c PROVE FALSE
  BY <1>2, NobodyAssumption DEF ServerInv, Tied, OfQuery
<1> QED BY <1>1, <1>2

\* Nobody starts or ends waiting.
LEMMA TiedKept ==
  ASSUME ServerInv, NoQuery, \A d \in Conns : Resolving(d)' <=> Resolving(d)
  PROVE  Tied'
<1>1. UNCHANGED <<owner, handle, stray, left>>
  BY DEF NoQuery, queryVars, ResolverQuiet
<1>2. \A q \in Queries : OfQuery(q)'
  BY <1>1 DEF ServerInv, Tied, OfQuery, Live
<1>3. \A c \in Conns : OfConn(c)'
  BY <1>1 DEF ServerInv, Tied, OfConn, Live
<1> QED BY <1>2, <1>3 DEF Tied

LEMMA MovedOn ==
  ASSUME ServerInv, NEW c \in Conns, NEW to \in Phases \ {"resolving"}, Goes(c, to),
         ~Resolving(c), NoQuery
  PROVE  Tied'
<1>1. phase'[c] = to /\ \A d \in Conns \ {c} : phase'[d] = phase[d]
  BY GoesFacts DEF ServerInv
<1>2. \A d \in Conns : Resolving(d)' <=> Resolving(d)
  BY <1>1 DEF Resolving
<1> QED BY <1>2, TiedKept

\* The place of a query that was freed may be some other stray's handle too.
LEMMA AskNameTies ==
  ASSUME ServerInv, NEW c \in Conns, AskName(c)
  PROVE  /\ Tied' /\ owner' \in [Queries -> Conns \cup {None}]
         /\ handle' \in [Conns -> Queries \cup {None}] /\ stray' \subseteq Conns
<1>1. PICK q \in Queries :
        /\ \E n \in DOMAIN Zone : ResolvQuery(q, n)
        /\ handle' = [handle EXCEPT ![c] = q]
        /\ \/ Live(q)' /\ owner' = [owner EXCEPT ![q] = c] /\ UNCHANGED stray
           \/ ~Live(q)' /\ stray' = stray \cup {c} /\ UNCHANGED owner
  BY DEF AskName
<1>2. phase'[c] = "resolving" /\ \A d \in Conns \ {c} : phase'[d] = phase[d]
  BY GoesFacts DEF AskName, ServerInv, Phases
<1>3. /\ ~Resolving(c) /\ handle[c] = None /\ c \notin stray
      /\ \A r \in Queries : owner[r] # c
  BY NoQueryFacts DEF AskName, Resolving
<1>4. ~Live(q) /\ \A r \in Queries \ {q} : Live(r)' <=> Live(r)
  BY <1>1 DEF ResolvQuery, Live, ServerInv, ResolverInv
<1>5. owner[q] = None
  BY <1>4 DEF ServerInv, Tied, OfQuery
<1>6. Resolving(c)' /\ \A d \in Conns \ {c} : Resolving(d)' <=> Resolving(d)
  BY <1>2 DEF Resolving
<1>7. /\ handle' \in [Conns -> Queries \cup {None}]
      /\ handle'[c] = q /\ \A d \in Conns \ {c} : handle'[d] = handle[d]
  BY <1>1 DEF ServerInv, ConnTypeOK
<1>8. ASSUME Live(q)', owner' = [owner EXCEPT ![q] = c], UNCHANGED stray
      PROVE  Tied' /\ owner' \in [Queries -> Conns \cup {None}] /\ stray' \subseteq Conns
  <2>1. /\ owner' \in [Queries -> Conns \cup {None}]
        /\ owner'[q] = c /\ \A r \in Queries \ {q} : owner'[r] = owner[r]
    BY <1>8 DEF ServerInv, ConnTypeOK
  <2>2. ASSUME NEW r \in Queries PROVE OfQuery(r)'
    <3>1. CASE r = q
      BY <1>6, <1>7, <1>8, <2>1, <3>1 DEF OfQuery
    <3>2. CASE r # q
      BY <1>3, <1>4, <1>6, <1>7, <2>1, <3>2 DEF OfQuery, ServerInv, Tied
    <3> QED BY <3>1, <3>2
  <2>3. ASSUME NEW d \in Conns PROVE OfConn(d)'
    <3>1. CASE d = c
      BY <1>3, <1>6, <1>7, <1>8, <2>1, <3>1, NobodyAssumption DEF OfConn
    <3>2. CASE d # c /\ ~Resolving(d)
      BY <1>6, <1>7, <1>8, <3>2 DEF OfConn, ServerInv, Tied
    <3>3. CASE d # c /\ Resolving(d)
      <4>1. handle[d] \in Queries
        BY <3>3 DEF ServerInv, Tied, OfConn, ConnTypeOK
      <4>2. PICK r \in Queries : r = handle[d]
        BY <4>1
      <4>3. (Live(r)' /\ owner'[r] = d) <=> (Live(r) /\ owner[r] = d)
        <5>1. CASE r = q
          BY <1>4, <1>5, <2>1, <3>3, <5>1, NobodyAssumption
        <5>2. CASE r # q
          BY <1>4, <2>1, <5>2
        <5> QED BY <5>1, <5>2
      <4>4. handle'[d] = r /\ stray' = stray
        BY <1>7, <1>8, <3>3, <4>2
      <4> QED BY <1>6, <3>3, <4>2, <4>3, <4>4 DEF OfConn, ServerInv, Tied
    <3> QED BY <3>1, <3>2, <3>3
  <2> QED BY <1>8, <2>1, <2>2, <2>3 DEF Tied, ServerInv, ConnTypeOK
<1>9. ASSUME ~Live(q)', stray' = stray \cup {c}, UNCHANGED owner
      PROVE  Tied' /\ owner' \in [Queries -> Conns \cup {None}] /\ stray' \subseteq Conns
  <2>1. ASSUME NEW r \in Queries PROVE OfQuery(r)'
    <3>1. CASE r = q
      BY <1>5, <1>9, <3>1 DEF OfQuery
    <3>2. CASE r # q
      BY <1>3, <1>4, <1>6, <1>7, <1>9, <3>2 DEF OfQuery, ServerInv, Tied
    <3> QED BY <3>1, <3>2
  <2>2. ASSUME NEW d \in Conns PROVE OfConn(d)'
    <3>1. CASE d = c
      BY <1>6, <1>7, <1>9, <3>1, NobodyAssumption DEF OfConn
    <3>2. CASE d # c /\ ~Resolving(d)
      BY <1>6, <1>7, <1>9, <3>2 DEF OfConn, ServerInv, Tied
    <3>3. CASE d # c /\ Resolving(d)
      <4>1. handle[d] \in Queries
        BY <3>3 DEF ServerInv, Tied, OfConn, ConnTypeOK
      <4>2. PICK r \in Queries : r = handle[d]
        BY <4>1
      <4>3. Live(r)' <=> Live(r)
        BY <1>4, <1>9
      <4>4. handle'[d] = r /\ owner' = owner /\ (d \in stray' <=> d \in stray)
        BY <1>7, <1>9, <3>3, <4>2
      <4> QED BY <1>6, <3>3, <4>2, <4>3, <4>4 DEF OfConn, ServerInv, Tied
    <3> QED BY <3>1, <3>2, <3>3
  <2> QED BY <1>9, <2>1, <2>2 DEF Tied, ServerInv, ConnTypeOK
<1> QED BY <1>1, <1>7, <1>8, <1>9

\* One query is over, and its connection c does not own it any more; b is the
\* connection that waits no more, and is c unless b was a stray.
LEMMA TiedOver ==
  ASSUME ServerInv, NEW q \in Queries, Live(q), FreeQuery(q), NEW b \in Conns,
         handle[b] = q, Resolving(b),
         owner' = [owner EXCEPT ![q] = None],
         handle' = [handle EXCEPT ![b] = None],
         stray' = (stray \cup {owner[q]}) \ {b},
         phase'[b] # "resolving", \A d \in Conns \ {b} : phase'[d] = phase[d]
  PROVE  /\ Tied' /\ owner' \in [Queries -> Conns \cup {None}]
         /\ handle' \in [Conns -> Queries \cup {None}] /\ stray' \subseteq Conns
<1> DEFINE c == owner[q]
<1>1. c \in Conns /\ Resolving(c) /\ handle[c] = q
  BY DEF ServerInv, Tied, OfQuery
<1>2. /\ owner' \in [Queries -> Conns \cup {None}]
      /\ owner'[q] = None /\ \A r \in Queries \ {q} : owner'[r] = owner[r]
  BY DEF ServerInv, ConnTypeOK
<1>3. /\ handle' \in [Conns -> Queries \cup {None}]
      /\ handle'[b] = None /\ \A d \in Conns \ {b} : handle'[d] = handle[d]
  BY DEF ServerInv, ConnTypeOK
<1>4. ~Live(q)' /\ \A r \in Queries \ {q} : Live(r)' <=> Live(r)
  BY DEF FreeQuery, Live, ServerInv, ResolverInv
<1>5. ~Resolving(b)' /\ \A d \in Conns \ {b} : Resolving(d)' <=> Resolving(d)
  BY DEF Resolving
<1> HIDE DEF c
<1>6. ASSUME NEW r \in Queries PROVE OfQuery(r)'
  <2>1. CASE r = q
    BY <1>2, <1>4, <2>1 DEF OfQuery
  <2>2. CASE r # q /\ ~Live(r)
    BY <1>2, <1>4, <2>2 DEF OfQuery, ServerInv, Tied
  <2>3. CASE r # q /\ Live(r)
    <3>1. owner[r] \in Conns /\ Resolving(owner[r]) /\ handle[owner[r]] = r
      BY <2>3 DEF OfQuery, ServerInv, Tied
    <3>2. owner[r] # b
      BY <2>3, <3>1
    <3> QED BY <1>2, <1>3, <1>4, <1>5, <2>3, <3>1, <3>2 DEF OfQuery
  <2> QED BY <2>1, <2>2, <2>3
<1>7. ASSUME NEW d \in Conns PROVE OfConn(d)'
  <2>1. CASE d = b
    BY <1>3, <1>5, <2>1 DEF OfConn
  <2>2. CASE d # b /\ d = c
    <3>1. handle'[d] = q /\ d \in stray' /\ Resolving(d)'
      BY <1>1, <1>3, <1>5, <2>2 DEF c
    <3> QED BY <1>4, <3>1, NobodyAssumption DEF OfConn
  <2>3. CASE d # b /\ d # c /\ ~Resolving(d)
    <3>1. handle'[d] = handle[d] /\ (d \in stray' <=> d \in stray) /\ ~Resolving(d)'
      BY <1>3, <1>5, <2>3 DEF c
    <3> QED BY <2>3, <3>1 DEF OfConn, ServerInv, Tied
  <2>4. CASE d # b /\ d # c /\ Resolving(d)
    <3>1. handle'[d] = handle[d] /\ (d \in stray' <=> d \in stray) /\ Resolving(d)'
      BY <1>3, <1>5, <2>4 DEF c
    <3>2. handle[d] \in Queries
      BY <2>4 DEF ServerInv, Tied, OfConn, ConnTypeOK
    <3>3. (Live(handle[d])' /\ owner'[handle[d]] = d) <=> (Live(handle[d]) /\ owner[handle[d]] = d)
      <4>1. CASE handle[d] = q
        BY <1>4, <2>4, <4>1 DEF c
      <4>2. CASE handle[d] # q
        BY <1>2, <1>4, <3>2, <4>2
      <4> QED BY <4>1, <4>2
    <3> QED BY <2>4, <3>1, <3>2, <3>3, NobodyAssumption DEF OfConn, ServerInv, Tied
  <2> QED BY <2>1, <2>2, <2>3, <2>4
<1>8. stray' \subseteq Conns
  BY <1>1 DEF c, ServerInv, ConnTypeOK
<1> QED BY <1>2, <1>3, <1>6, <1>7, <1>8 DEF Tied

LEMMA CancelQueryTies ==
  ASSUME ServerInv, NEW c \in Conns, CancelQuery(c), Goes(c, "closed")
  PROVE  /\ Tied' /\ owner' \in [Queries -> Conns \cup {None}]
         /\ handle' \in [Conns -> Queries \cup {None}] /\ stray' \subseteq Conns
<1> DEFINE q == handle[c]
<1>1. phase'[c] = "closed" /\ \A d \in Conns \ {c} : phase'[d] = phase[d]
  BY GoesFacts DEF ServerInv, Phases
<1>2. q \in Queries \cup {None} /\ handle' = [handle EXCEPT ![c] = None]
  BY DEF CancelQuery, ServerInv, ConnTypeOK
<1>3. CASE q # None /\ Live(q)
  <2>1. /\ FreeQuery(q) /\ owner' = [owner EXCEPT ![q] = None]
        /\ stray' = (stray \cup {owner[q]}) \ {c}
    BY <1>3 DEF CancelQuery, ResolvCancel
  <2>2. Resolving(c)
    BY <1>3 DEF ServerInv, Tied, OfConn
  <2> QED BY <1>1, <1>2, <1>3, <2>1, <2>2, TiedOver
<1>4. CASE ~(q # None /\ Live(q))
  <2>1. ResolverQuiet /\ stray' = stray \ {c} /\ owner' = owner
    BY <1>4 DEF CancelQuery
  <2>2. left' = left
    BY <2>1 DEF ResolverQuiet
  <2>3. ~Resolving(c)' /\ \A d \in Conns \ {c} : Resolving(d)' <=> Resolving(d)
    BY <1>1 DEF Resolving
  <2>4. /\ handle' \in [Conns -> Queries \cup {None}]
        /\ handle'[c] = None /\ \A d \in Conns \ {c} : handle'[d] = handle[d]
    BY <1>2 DEF ServerInv, ConnTypeOK
  <2>5. ASSUME NEW r \in Queries PROVE OfQuery(r)'
    <3>1. CASE ~Live(r)
      BY <2>1, <2>2, <3>1 DEF OfQuery, Live, ServerInv, Tied
    <3>2. CASE Live(r)
      <4>1. owner[r] \in Conns /\ Resolving(owner[r]) /\ handle[owner[r]] = r
        BY <3>2 DEF OfQuery, ServerInv, Tied
      <4>2. owner[r] # c
        BY <1>4, <3>2, <4>1, NobodyAssumption
      <4>3. Live(r)'
        BY <2>2, <3>2 DEF Live
      <4> QED BY <2>1, <2>3, <2>4, <4>1, <4>2, <4>3 DEF OfQuery
    <3> QED BY <3>1, <3>2
  <2>6. ASSUME NEW d \in Conns PROVE OfConn(d)'
    <3>1. CASE d = c
      BY <2>1, <2>3, <2>4, <3>1 DEF OfConn
    <3>2. CASE d # c
      BY <2>1, <2>2, <2>3, <2>4, <3>2 DEF OfConn, Live, ServerInv, Tied
    <3> QED BY <3>1, <3>2
  <2> QED BY <2>1, <2>4, <2>5, <2>6 DEF Tied, ServerInv, ConnTypeOK
<1> QED BY <1>3, <1>4

\* The parts of the invariant about connections.
ConnInv == ConnTypeOK /\ OpenHasClient /\ Tied

LEMMA ReportFacts ==
  ASSUME ServerInv, NEW c \in Conns,
         NEW why \in {"malformed", "bad", "malicious", "suspicious"},
         ReportAddr(c, why)
  PROVE  shell' = shell /\ blame' \in [Conns -> {"none", "reset"} \cup DOMAIN Level]
<1>1. why \in DOMAIN Level
  BY LevelAssumption
<1> QED BY <1>1 DEF ReportAddr, UpdateBlockList, blockVars, ServerInv, ConnTypeOK

\* A connection that does not wait for a name moves on.
\* A connection that does not wait for a name moves on.
LEMMA MovingKeeps ==
  ASSUME ServerInv, NEW c \in Conns, Open(c), ~Resolving(c),
         NEW to \in Phases \ {"resolving"}, Goes(c, to), NoQuery, shell' = shell,
         blame' \in [Conns -> {"none", "reset"} \cup DOMAIN Level]
  PROVE  ConnInv'
<1>1. phase' \in [Conns -> Phases] /\ peer' \in [Conns -> Peers \cup {None}]
  BY GoesFacts DEF ServerInv
<1>2. /\ owner' \in [Queries -> Conns \cup {None}]
      /\ handle' \in [Conns -> Queries \cup {None}] /\ stray' \subseteq Conns
  BY DEF NoQuery, queryVars, ServerInv, ConnTypeOK
<1>3. OpenHasClient'
  BY GoesKeepsClients
<1>4. Tied'
  BY MovedOn
<1> QED BY <1>1, <1>2, <1>3, <1>4 DEF ConnInv, ConnTypeOK

\* A connection is closed, whatever it was doing.
LEMMA ClosingKeeps ==
  ASSUME ServerInv, NEW c \in Conns, Open(c), Goes(c, "closed"), CancelQuery(c),
         shell' = shell, blame' \in [Conns -> {"none", "reset"} \cup DOMAIN Level]
  PROVE  ConnInv'
<1>1. phase' \in [Conns -> Phases] /\ peer' \in [Conns -> Peers \cup {None}]
  BY GoesFacts DEF ServerInv, Phases
<1>2. OpenHasClient'
  BY GoesKeepsClients DEF Phases
<1> QED BY <1>1, <1>2, CancelQueryTies DEF ConnInv, ConnTypeOK

\* The connections are not concerned.
LEMMA QuietKeeps ==
  ASSUME ServerInv, UNCHANGED <<phase, blame, peer, queryVars, left>>, shell' = shell
  PROVE  ConnInv'
BY DEF ServerInv, ConnInv, ConnTypeOK, OpenHasClient, Tied, OfQuery, OfConn, Open,
       Resolving, Live, queryVars

LEMMA AcceptKeeps ==
  ASSUME ServerInv, NEW c \in Conns, NEW a \in Peers, Accept(c, a)
  PROVE  ConnInv'
<1>1. /\ phase' = [phase EXCEPT ![c] = "header"] /\ blame' = [blame EXCEPT ![c] = "none"]
      /\ peer' = [peer EXCEPT ![c] = a] /\ phase[c] = "closed" /\ NoQuery
      /\ shell = "open" /\ shell' = shell
  BY DEF Accept, Open, CheckBlockList, blockVars
<1>2. /\ phase' \in [Conns -> Phases] /\ peer' \in [Conns -> Peers \cup {None}]
      /\ blame' \in [Conns -> {"none", "reset"} \cup DOMAIN Level]
      /\ owner' \in [Queries -> Conns \cup {None}]
      /\ handle' \in [Conns -> Queries \cup {None}] /\ stray' \subseteq Conns
  BY <1>1 DEF ServerInv, ConnTypeOK, Phases, NoQuery, queryVars
<1>3. OpenHasClient'
  BY <1>1 DEF ServerInv, ConnTypeOK, OpenHasClient, Open
<1>4. \A d \in Conns : Resolving(d)' <=> Resolving(d)
  BY <1>1 DEF Resolving, ServerInv, ConnTypeOK
<1>5. Tied'
  BY <1>1, <1>4, TiedKept
<1> QED BY <1>2, <1>3, <1>5 DEF ConnInv, ConnTypeOK

LEMMA AskNameKeeps ==
  ASSUME ServerInv, NEW c \in Conns, AskName(c)
  PROVE  ConnInv'
<1>1. Open(c) /\ Goes(c, "resolving") /\ "resolving" \in Phases
      /\ shell' = shell /\ blame' = blame
  BY DEF AskName, Open, NoReport, blockVars, Phases
<1>2. phase' \in [Conns -> Phases] /\ peer' \in [Conns -> Peers \cup {None}]
  BY <1>1, GoesFacts DEF ServerInv
<1>3. OpenHasClient'
  BY <1>1, GoesKeepsClients
<1> QED BY <1>1, <1>2, <1>3, AskNameTies DEF ConnInv, ConnTypeOK, ServerInv

LEMMA FirstAnsweredKeeps ==
  ASSUME ServerInv, NEW q \in Queries, NEW f \in Families, FirstAnswered(q, f)
  PROVE  ConnInv'
<1>1. UNCHANGED <<phase, blame, peer, owner, handle, stray>> /\ shell' = shell
  BY DEF FirstAnswered, NoReport, blockVars, queryVars
<1>2. \A r \in Queries : Live(r)' <=> Live(r)
  BY DEF FirstAnswered, FirstAnswer, Live, ServerInv, ResolverInv
<1>3. \A r \in Queries : OfQuery(r)'
  BY <1>1, <1>2 DEF ServerInv, Tied, OfQuery, Resolving
<1>4. ASSUME NEW c \in Conns PROVE OfConn(c)'
  <2>1. CASE ~Resolving(c)
    BY <1>1, <2>1 DEF ServerInv, Tied, OfConn, Resolving
  <2>2. CASE Resolving(c)
    <3>1. handle[c] \in Queries
      BY <2>2 DEF ServerInv, Tied, OfConn, ConnTypeOK
    <3> QED BY <1>1, <1>2, <2>2, <3>1 DEF ServerInv, Tied, OfConn, Resolving
  <2> QED BY <2>1, <2>2
<1> QED
  BY <1>1, <1>3, <1>4 DEF ServerInv, ConnInv, ConnTypeOK, OpenHasClient, Tied, Open

LEMMA LastAnsweredKeeps ==
  ASSUME ServerInv, NEW q \in Queries, NEW f \in Families, LastAnswered(q, f)
  PROVE  ConnInv'
<1> DEFINE c == owner[q]
<1>1. /\ Live(q) /\ FreeQuery(q) /\ shell' = shell /\ blame' = blame
      /\ owner' = [owner EXCEPT ![q] = None]
      /\ handle' = [handle EXCEPT ![c] = None] /\ stray' = stray
  BY DEF LastAnswered, LastAnswer, Live, NoReport, blockVars
<1>2. c \in Conns /\ Resolving(c) /\ Open(c) /\ handle[c] = q
  BY <1>1 DEF ServerInv, Tied, OfQuery, Resolving, Open
<1>3. PICK to \in {"connecting", "closed"} : Goes(c, to)
  BY DEF LastAnswered
<1>4. to \in Phases /\ to # "resolving"
  BY DEF Phases
<1>5. c \notin stray
  BY <1>1, <1>2 DEF ServerInv, Tied, OfConn
<1>6. /\ phase' \in [Conns -> Phases] /\ peer' \in [Conns -> Peers \cup {None}]
      /\ phase'[c] = to /\ \A d \in Conns \ {c} : phase'[d] = phase[d]
  BY <1>2, <1>3, <1>4, GoesFacts DEF ServerInv
<1>7. stray' = (stray \cup {owner[q]}) \ {c}
  BY <1>1, <1>5
<1>8. OpenHasClient'
  BY <1>1, <1>2, <1>3, <1>4, GoesKeepsClients
<1> HIDE DEF c
<1>9. /\ Tied' /\ owner' \in [Queries -> Conns \cup {None}]
      /\ handle' \in [Conns -> Queries \cup {None}] /\ stray' \subseteq Conns
  BY <1>1, <1>2, <1>4, <1>6, <1>7, TiedOver
<1> QED BY <1>1, <1>6, <1>8, <1>9 DEF ConnInv, ConnTypeOK, ServerInv

LEMMA EndsKeeps ==
  ASSUME ServerInv, Ends
  PROVE  ConnInv'
<1>1. /\ phase' = [c \in Conns |-> "closed"] /\ peer' = [c \in Conns |-> None]
      /\ owner' = [q \in Queries |-> None] /\ left' = [q \in Queries |-> {}]
      /\ handle' = [c \in Conns |-> None] /\ stray' = {}
      /\ blame' = blame
  BY DEF Ends, CancelAll
<1>2. OpenHasClient'
  BY <1>1 DEF OpenHasClient, Open
<1>3. Tied'
  BY <1>1, NobodyAssumption DEF Tied, OfQuery, OfConn, Resolving, Live
<1> QED BY <1>1, <1>2, <1>3 DEF ConnInv, ConnTypeOK, Phases, ServerInv

LEMMA ConnStep ==
  ASSUME ServerInv, Next
  PROVE  ConnInv'
<1>1. CASE \E a \in Peers : Refuse(a)
  <2>1. UNCHANGED <<phase, blame, peer, queryVars, left>> /\ shell' = shell
    BY <1>1 DEF Refuse, NoQuery, ResolverQuiet, CheckBlockList
  <2> QED BY <2>1, QuietKeeps
<1>2. CASE \E c \in Conns, a \in Peers : Accept(c, a)
  BY <1>2, AcceptKeeps
<1>3. CASE \E c \in Conns : Malformed(c) \/ Reject(c) \/ Dial(c) \/ Connected(c)
  <2>1. PICK c \in Conns : Malformed(c) \/ Reject(c) \/ Dial(c) \/ Connected(c)
    BY <1>3
  <2>2. Open(c) /\ ~Resolving(c) /\ NoQuery
    BY <2>1 DEF Malformed, Reject, Dial, Connected, Open, Resolving
  <2>3. \E to \in {"error", "closed", "connecting", "stream"} : Goes(c, to)
    BY <2>1 DEF Malformed, Reject, Dial, Connected
  <2>4. shell' = shell /\ blame' \in [Conns -> {"none", "reset"} \cup DOMAIN Level]
    <3>1. CASE \E why \in {"malformed", "bad", "malicious", "suspicious"} : ReportAddr(c, why)
      BY <3>1, ReportFacts
    <3>2. CASE NoReport
      BY <3>2 DEF NoReport, blockVars, ServerInv, ConnTypeOK
    <3>3. CASE ResetAddr(c)
      BY <3>3 DEF ResetAddr, RemoveFromBlockList, blockVars, ServerInv, ConnTypeOK
    <3> QED BY <2>1, <3>1, <3>2, <3>3 DEF Malformed, Reject, Dial, Connected
  <2> QED BY <2>2, <2>3, <2>4, MovingKeeps DEF Phases
<1>4. CASE \E c \in Conns : AskName(c)
  BY <1>4, AskNameKeeps
<1>5. CASE \E c \in Conns : Close(c) \/ Timeout(c)
  <2>1. PICK c \in Conns : Close(c) \/ Timeout(c)
    BY <1>5
  <2>2. Open(c) /\ Goes(c, "closed") /\ CancelQuery(c)
    BY <2>1 DEF Close, Timeout, Open
  <2>3. NoReport \/ ReportAddr(c, "suspicious")
    BY <2>1 DEF Close, Timeout
  <2>4. shell' = shell /\ blame' \in [Conns -> {"none", "reset"} \cup DOMAIN Level]
    BY <2>3, ReportFacts DEF NoReport, blockVars, ServerInv, ConnTypeOK
  <2> QED BY <2>2, <2>4, ClosingKeeps
<1>6. CASE \E q \in Queries : ResolveCb(q)
  BY <1>6, FirstAnsweredKeeps, LastAnsweredKeeps DEF ResolveCb
<1>7. CASE BlockListClearCb \/ Time
  <2>1. UNCHANGED <<phase, blame, peer, queryVars, left>> /\ shell' = shell
    BY <1>7 DEF BlockListClearCb, Time, connVars, ResolverQuiet, ClearBlockList, Tick
  <2> QED BY <2>1, QuietKeeps
<1>8. CASE Exit \/ Crash
  BY <1>8, EndsKeeps DEF Exit, Crash
<1> QED BY <1>1, <1>2, <1>3, <1>4, <1>5, <1>6, <1>7, <1>8 DEF Next

-----------------------------------------------------------------------------
LEMMA ServerInvInit == Init => ServerInv
<1> SUFFICES ASSUME Init PROVE ServerInv
  OBVIOUS
<1>1. ResolverInv /\ ToldOK
  BY ResolverInvInit DEF Init, ToldOK, ResolverInit
<1>2. BlockListInv
  BY BlockListInvInit DEF Init
<1>3. ConnTypeOK /\ OpenHasClient
  BY DEF Init, ConnTypeOK, OpenHasClient, Open, Phases
<1>4. Tied
  BY NobodyAssumption DEF Init, Tied, OfQuery, OfConn, Resolving, Live, ResolverInit
<1> QED BY <1>1, <1>2, <1>3, <1>4 DEF ServerInv

LEMMA ServerInvStep == ServerInv /\ [Next]_vars => ServerInv'
<1> SUFFICES ASSUME ServerInv, [Next]_vars PROVE ServerInv'
  OBVIOUS
<1>1. CASE Next
  <2>1. ResolverNext
    BY <1>1, ResolverStep
  <2>2. ResolverInv' /\ ToldOK'
    BY <2>1, ResolverInvStep, ToldTyped DEF ServerInv
  <2>3. BlockListInv'
    BY <1>1, BlockStep, BlockCasesKeepInv DEF ServerInv
  <2> QED BY <1>1, <2>2, <2>3, ConnStep DEF ServerInv, ConnInv
<1>2. CASE UNCHANGED vars
  <2>1. ResolverInv' /\ ToldOK'
    BY <1>2, ResolverInvStep DEF vars, resolverVars, ServerInv, ToldOK
  <2>2. BlockListInv'
    BY <1>2, BlockListInvStep DEF vars, ServerInv
  <2>3. ConnInv'
    BY <1>2, QuietKeeps DEF vars, connVars, queryVars, resolverVars, blockVars
  <2> QED BY <2>1, <2>2, <2>3 DEF ServerInv, ConnInv
<1> QED BY <1>1, <1>2

LEMMA ServerInvariant == Spec => []ServerInv
BY ServerInvInit, ServerInvStep, PTL DEF Spec
-----------------------------------------------------------------------------
(***************************************************************************)
(* What the parts promise, kept by the whole.                              *)
(***************************************************************************)

\* Type correctness of the server, its resolver and its block list.
THEOREM ServerTypeCorrect == Spec => []TypeOK
<1>1. ServerInv => TypeOK
  BY DEF ServerInv, TypeOK, ConnTypeOK, Phases, ResolverInv, ToldOK, ResolverTypeOK,
         BlockListInv, BlockListTypeOK
<1> QED BY <1>1, ServerInvariant, PTL

(***************************************************************************)
(* Whichever of answer, time-out, end of stream and exit comes first, each *)
(* query of resolv.c is one that a connection waits for and would cancel:  *)
(* server_resolve_cb never runs for a connection that is gone.  And each   *)
(* connection that waits has its query, but for those that were handed a   *)
(* query already freed and those whose query such a one has cancelled,     *)
(* which is undefined behaviour (close_and_free_server, resolv.c 203).     *)
(***************************************************************************)
THEOREM QueriesBelong == Spec => []QueriesOwned
<1>1. ServerInv => QueriesOwned
  BY TiedMeansOwned DEF ServerInv
<1> QED BY <1>1, ServerInvariant, PTL

(***************************************************************************)
(* As the server uses it, the block list keeps the firewall in step and    *)
(* refuses those who deserve it: report_addr and reset_addr are called     *)
(* with a client's address and a level in range, and only while the shell  *)
(* is there.                                                               *)
(***************************************************************************)
THEOREM ServerJudges == Spec => []RulesMirror /\ []Judged
<1>1. ServerInv => RulesMirror /\ Judged
  BY InvMeansJudged DEF ServerInv
<1> QED BY <1>1, ServerInvariant, PTL

(***************************************************************************)
(* As the server uses it, with connections closed and places given away at *)
(* any time, resolv.c keeps the promises of NameService.                   *)
(***************************************************************************)
THEOREM ServerAnswersOnce == Spec => OneAnswer
<1>1. Init => Service!ServiceInit
  BY ServiceInitially DEF Init
<1>2. ServerInv /\ [Next]_vars => [Service!ServiceNext]_(Service!serviceVars)
  <2> SUFFICES ASSUME ServerInv, [Next]_vars
               PROVE  [Service!ServiceNext]_(Service!serviceVars)
    OBVIOUS
  <2>1. [ResolverNext]_resolverVars
    BY ResolverStep DEF vars
  <2> QED BY <2>1, ServiceStep DEF ServerInv
<1> QED BY <1>1, <1>2, ServerInvariant, PTL DEF Spec, OneAnswer, Service!ServiceSpec

-----------------------------------------------------------------------------
(***************************************************************************)
(* Each connection behaves as Connection says.                             *)
(***************************************************************************)
Behaves(c) == \/ C(c)!ConnectionNext
              \/ phase'[c] = phase[c] /\ blame'[c] = blame[c]

LEMMA OthersStay ==
  ASSUME ServerInv, NEW c \in Conns, NEW to \in Phases, Goes(c, to), NEW b,
         \/ b = blame[c] /\ blame' = blame
         \/ blame' = [blame EXCEPT ![c] = b]
  PROVE  /\ phase'[c] = to /\ blame'[c] = b
         /\ \A d \in Conns \ {c} : Behaves(d)
<1>1. phase'[c] = to /\ \A d \in Conns \ {c} : phase'[d] = phase[d]
  BY GoesFacts DEF ServerInv
<1>2. blame'[c] = b /\ \A d \in Conns \ {c} : blame'[d] = blame[d]
  BY DEF ServerInv, ConnTypeOK
<1> QED BY <1>1, <1>2 DEF Behaves

LEMMA AcceptBehaves ==
  ASSUME ServerInv, NEW c \in Conns, NEW a \in Peers, Accept(c, a)
  PROVE  \A d \in Conns : Behaves(d)
<1>1. phase[c] = "closed" /\ phase' = [phase EXCEPT ![c] = "header"]
      /\ blame' = [blame EXCEPT ![c] = "none"]
  BY DEF Accept, Open
<1>2. phase'[c] = "header" /\ blame'[c] = "none"
      /\ \A d \in Conns \ {c} : phase'[d] = phase[d] /\ blame'[d] = blame[d]
  BY <1>1 DEF ServerInv, ConnTypeOK
<1>3. C(c)!Accepted
  BY <1>1, <1>2 DEF C!Accepted
<1> QED BY <1>2, <1>3 DEF Behaves, C!ConnectionNext

LEMMA AllStay ==
  ASSUME UNCHANGED <<phase, blame>>
  PROVE  \A d \in Conns : Behaves(d)
BY DEF Behaves

LEMMA RefusedBehaves ==
  ASSUME ServerInv, NEW c \in Conns, Malformed(c) \/ Reject(c)
  PROVE  \A d \in Conns : Behaves(d)
<1>1. CASE Malformed(c)
  <2>1. PICK b \in {blame[c], "malformed"} :
          \/ b = blame[c] /\ blame' = blame
          \/ blame' = [blame EXCEPT ![c] = b]
    BY <1>1 DEF Malformed, ReportAddr, NoReport
  <2>2. phase'[c] = "error" /\ blame'[c] = b /\ \A d \in Conns \ {c} : Behaves(d)
    BY <1>1, <2>1, OthersStay DEF Malformed, Phases
  <2>3. C(c)!Condemned
    BY <1>1, <2>1, <2>2 DEF Malformed, C!Condemned
  <2> QED BY <2>2, <2>3 DEF Behaves, C!ConnectionNext
<1>2. CASE Reject(c)
  <2>1. PICK b \in {"malformed", "bad", "malicious"} :
          /\ \/ phase[c] = "header"
             \/ phase[c] = "stream" /\ b # "malformed"
          /\ blame' = [blame EXCEPT ![c] = b]
    BY <1>2 DEF Reject, ReportAddr
  <2>2. phase'[c] = "closed" /\ blame'[c] = b /\ \A d \in Conns \ {c} : Behaves(d)
    BY <1>2, <2>1, OthersStay DEF Reject, Phases
  <2>3. C(c)!Refused
    BY <2>1, <2>2 DEF C!Refused, C!Blaming
  <2> QED BY <2>2, <2>3 DEF Behaves, C!ConnectionNext
<1> QED BY <1>1, <1>2

LEMMA ForwardBehaves ==
  ASSUME ServerInv, NEW c \in Conns, Dial(c) \/ AskName(c) \/ Connected(c)
  PROVE  \A d \in Conns : Behaves(d)
<1>1. CASE Dial(c)
  <2>1. /\ phase[c] = "header" /\ phase'[c] = "connecting" /\ blame'[c] = blame[c]
        /\ \A d \in Conns \ {c} : Behaves(d)
    BY <1>1, OthersStay DEF Dial, NoReport, Phases
  <2>2. C(c)!Dialled
    BY <2>1 DEF C!Dialled
  <2> QED BY <2>1, <2>2 DEF Behaves, C!ConnectionNext
<1>2. CASE AskName(c)
  <2>1. /\ phase[c] = "header" /\ phase'[c] = "resolving" /\ blame'[c] = blame[c]
        /\ \A d \in Conns \ {c} : Behaves(d)
    BY <1>2, OthersStay DEF AskName, NoReport, Phases
  <2>2. C(c)!NameAsked
    BY <2>1 DEF C!NameAsked
  <2> QED BY <2>1, <2>2 DEF Behaves, C!ConnectionNext
<1>3. CASE Connected(c)
  <2>1. PICK to \in {"stream", "closed"} : Goes(c, to)
    BY <1>3 DEF Connected
  <2>2. phase[c] = "connecting" /\ blame' = [blame EXCEPT ![c] = "reset"]
    BY <1>3 DEF Connected, ResetAddr
  <2>3. to \in Phases
    BY <2>1 DEF Phases
  <2>4. /\ phase'[c] = to /\ blame'[c] = "reset"
        /\ \A d \in Conns \ {c} : Behaves(d)
    BY <2>1, <2>2, <2>3, OthersStay
  <2>5. C(c)!Established
    BY <2>1, <2>2, <2>4 DEF C!Established
  <2> QED BY <2>4, <2>5 DEF Behaves, C!ConnectionNext
<1> QED BY <1>1, <1>2, <1>3

LEMMA EndBehaves ==
  ASSUME ServerInv, NEW c \in Conns, Close(c) \/ Timeout(c)
  PROVE  \A d \in Conns : Behaves(d)
<1>1. CASE Close(c)
  <2>1. /\ phase[c] # "closed" /\ phase'[c] = "closed" /\ blame'[c] = blame[c]
        /\ \A d \in Conns \ {c} : Behaves(d)
    BY <1>1, OthersStay DEF Close, Open, NoReport, Phases
  <2>2. C(c)!Closed
    BY <2>1 DEF C!Closed
  <2> QED BY <2>1, <2>2 DEF Behaves, C!ConnectionNext
<1>2. CASE Timeout(c)
  <2>1. /\ phase[c] \in {"header", "error"} /\ phase'[c] = "closed"
        /\ blame'[c] = "suspicious" /\ \A d \in Conns \ {c} : Behaves(d)
    BY <1>2, OthersStay DEF Timeout, ReportAddr, Phases
  <2>2. C(c)!Suspected
    BY <2>1 DEF C!Suspected
  <2> QED BY <2>1, <2>2 DEF Behaves, C!ConnectionNext
<1> QED BY <1>1, <1>2

LEMMA LastAnsweredBehaves ==
  ASSUME ServerInv, NEW q \in Queries, NEW f \in Families, LastAnswered(q, f)
  PROVE  \A d \in Conns : Behaves(d)
<1>0. owner[q] \in Conns /\ phase[owner[q]] = "resolving"
  <2>1. Live(q)
    BY DEF LastAnswered, LastAnswer, Live
  <2> QED BY <2>1 DEF ServerInv, Tied, OfQuery, Resolving
<1>1. PICK c \in Conns : c = owner[q] /\ phase[c] = "resolving"
  BY <1>0
<1>2. PICK to \in {"connecting", "closed"} : Goes(c, to)
  BY <1>1 DEF LastAnswered
<1>3. /\ phase'[c] = to /\ blame'[c] = blame[c] /\ \A d \in Conns \ {c} : Behaves(d)
  BY <1>1, <1>2, OthersStay DEF LastAnswered, NoReport, Phases
<1>4. C(c)!Dialled \/ C(c)!Closed
  BY <1>1, <1>3 DEF C!Dialled, C!Closed
<1> QED BY <1>3, <1>4 DEF Behaves, C!ConnectionNext

LEMMA EndsBehaves ==
  ASSUME Ends
  PROVE  \A d \in Conns : Behaves(d)
<1> SUFFICES ASSUME NEW d \in Conns PROVE Behaves(d)
  OBVIOUS
<1>1. phase'[d] = "closed" /\ blame'[d] = blame[d]
  BY DEF Ends
<1>2. phase[d] # "closed" => C(d)!Closed
  BY <1>1 DEF C!Closed
<1> QED BY <1>1, <1>2 DEF Behaves, C!ConnectionNext

LEMMA ConnectionsStep ==
  ASSUME ServerInv, [Next]_vars
  PROVE  \A d \in Conns : Behaves(d)
<1>1. CASE UNCHANGED vars \/ BlockListClearCb \/ Time
  BY <1>1, AllStay DEF vars, connVars, BlockListClearCb, Time
<1>2. CASE \E a \in Peers : Refuse(a)
  BY <1>2, AllStay DEF Refuse
<1>3. CASE \E q \in Queries : ResolveCb(q)
  <2>1. CASE \E q \in Queries, f \in Families : FirstAnswered(q, f)
    BY <2>1, AllStay DEF FirstAnswered, NoReport
  <2> QED BY <1>3, <2>1, LastAnsweredBehaves DEF ResolveCb
<1> QED
  BY <1>1, <1>2, <1>3, AcceptBehaves, RefusedBehaves, ForwardBehaves, EndBehaves,
     EndsBehaves DEF Next, Exit, Crash

(***************************************************************************)
(* Beside any number of others, with queries answered, timers firing and   *)
(* the server ending at any time, every connection makes only the steps    *)
(* that Connection allows, which are those TcpRelay was shown to make.     *)
(***************************************************************************)
THEOREM ConnectionsAsPromised == Spec => ConnectionsBehave
<1>1. Init => \A c \in Conns : C(c)!ConnectionInit
  BY DEF Init, C!ConnectionInit
<1>2. ServerInv /\ [Next]_vars
        => [\A c \in Conns : [C(c)!ConnectionNext]_(C(c)!connectionVars)]_<<phase, blame>>
  <2> SUFFICES ASSUME ServerInv, [Next]_vars, NEW c \in Conns
               PROVE  [C(c)!ConnectionNext]_(C(c)!connectionVars)
    OBVIOUS
  <2>1. Behaves(c)
    BY ConnectionsStep
  <2> QED BY <2>1 DEF Behaves, C!connectionVars
<1> QED BY <1>1, <1>2, ServerInvariant, PTL DEF Spec, ConnectionsBehave
-----------------------------------------------------------------------------
(***************************************************************************)
(* Who is blocked stays so.                                                *)
(***************************************************************************)
Guilty(a, cache) == \E e \in Entries(cache) : e.key = a /\ e.data.score > MaxTries

BlockedMeansGuilty == \A a \in Peers : Blocked(a) <=> Guilty(a, list)

LEMMA BlockedGuilty == BlockListInv => BlockedMeansGuilty
<1> SUFFICES ASSUME BlockListInv, NEW a \in Peers PROVE Blocked(a) <=> Guilty(a, list)
  BY DEF BlockedMeansGuilty
<1>1. /\ \A e \in Entries(list) : e.key \in Listed /\ Score(e.key) = e.data.score
      /\ \A b \in Listed : \E e \in Entries(list) : e.key = b
  BY ScoreOfEntry DEF BlockListInv
<1>2. a \notin Listed => Score(a) = 0
  BY DEF Score, Listed, Has
<1>3. ~(0 > MaxTries)
  BY BlockListAssumption
<1> QED BY <1>1, <1>2, <1>3 DEF Blocked, Guilty

LEMMA BlockedGuiltyNext == BlockListInv' => BlockedMeansGuilty'
BY BlockedGuilty, PTL

\* Being looked at, or accused again, makes nobody less guilty.
LEMMA TouchedStaysGuilty ==
  ASSUME BlockListInv, NEW a \in Peers, Guilty(a, list), NEW b \in Listed,
         NEW score \in 0..MustBlock, list' = Touched(b, score),
         Blocked(b) => score = Score(b)
  PROVE  Guilty(a, list')
<1>0. b \in Peers /\ \A e \in Entries(list) : Score(e.key) = e.data.score
  BY ScoreOfEntry DEF BlockListInv
<1>1. Entries(list') = {e \in Entries(list) : e.key # b} \cup {Entry(b, Item(score, 0))}
  BY <1>0, TouchedFacts DEF BlockListInv
<1>2. PICK e \in Entries(list) : e.key = a /\ e.data.score > MaxTries
  BY DEF Guilty
<1>3. CASE a # b
  BY <1>1, <1>2, <1>3 DEF Guilty
<1>4. CASE a = b
  <2>1. Score(b) > MaxTries
    BY <1>0, <1>2, <1>4
  <2>2. score > MaxTries
    BY <2>1 DEF Blocked
  <2>3. Entry(b, Item(score, 0)).key = b /\ Entry(b, Item(score, 0)).data.score = score
    BY DEF Entry, Item
  <2> QED BY <1>1, <1>4, <2>2, <2>3 DEF Guilty
<1> QED BY <1>3, <1>4

LEMMA CheckedStaysGuilty ==
  ASSUME BlockListInv, NEW a \in Peers, Guilty(a, list), NEW b \in Peers,
         CheckBlockList(b)
  PROVE  Guilty(a, list')
<1>1. CASE ~Has(list, b)
  BY <1>1 DEF CheckBlockList
<1>2. CASE Has(list, b)
  <2>1. b \in Listed
    BY <1>2 DEF Has, Listed
  <2>2. Score(b) \in 0..MustBlock
    BY <2>1, ScoreIsFair
  <2> QED BY <1>2, <2>1, <2>2, TouchedStaysGuilty DEF CheckBlockList
<1> QED BY <1>1, <1>2

LEMMA AccusedAgainStaysGuilty ==
  ASSUME BlockListInv, NEW a \in Peers, Guilty(a, list), NEW b \in Peers,
         NEW level \in 1..MaxLevel, UpdateBlockList(b, level), Has(list, b)
  PROVE  Guilty(a, list')
<1>1. b \in Listed
  BY DEF Has, Listed
<1>2. Score(b) \in 0..MustBlock
  BY <1>1, ScoreIsFair
<1>3. Worse(b, level) = IF Score(b) > MaxTries THEN Score(b) ELSE Score(b) + level
  BY DEF Worse, Blocked
<1>4. Worse(b, level) \in 0..MustBlock
  BY <1>2, <1>3, BlockListAssumption DEF MustBlock
<1>5. Blocked(b) => Worse(b, level) = Score(b)
  BY DEF Worse
<1>6. list' = Touched(b, Worse(b, level))
  BY DEF UpdateBlockList
<1> QED BY <1>1, <1>4, <1>5, <1>6, TouchedStaysGuilty

\* A new offender takes the place of the quietest if there is no other.
LEMMA NewOffenderLeavesGuilty ==
  ASSUME BlockListInv, NEW a \in Peers, Guilty(a, list), NEW b \in Peers,
         NEW level \in 1..MaxLevel, UpdateBlockList(b, level), ~Has(list, b)
  PROVE  Guilty(a, list') \/ MadeRoom(a)
<1> DEFINE D   == Items
           d   == Item(FirstScore, 0)
           new == Entry(b, d)
           all == Entries(list) \cup {new}
<1>1. list' = Inserted(list, b, d, MaxEntries)
  BY DEF UpdateBlockList
<1>2. b \notin KeysOf(list) /\ b \notin Listed
  BY DEF Has, Listed
<1>3. MaxEntries \in Nat /\ MaxAge \in Nat /\ 1 \in 0..MustBlock
  BY BlockListAssumption DEF MustBlock
<1>4. d \in D
  BY <1>3 DEF Item, Items, FirstScore
<1>5. list \in Table(Peers, D) /\ UniqueKeys(list) /\ Len(list) < MaxEntries
  BY DEF BlockListInv
<1>6. new.key = b
  BY DEF Entry
<1>7. PICK e \in Entries(list) : e.key = a /\ e.data.score > MaxTries
  BY DEF Guilty
<1>8. Head(Append(list, new)) = Head(list)
  <2>1. list \in Seq([key : Peers, data : D])
    BY <1>5 DEF Table
  <2>2. list # <<>>
    BY <1>7 DEF Entries
  <2> HIDE DEF new, D
  <2> QED BY <2>1, <2>2
<1> HIDE DEF D, d
<1>9. \/ Entries(list') = all
      \/ \E gone \in all : Entries(list') = all \ {gone} /\ gone = Head(Append(list, new))
  BY <1>1, <1>2, <1>3, <1>4, <1>5, InsertedFacts
<1> HIDE DEF new
<1>10. CASE e \in Entries(list')
  BY <1>7, <1>10 DEF Guilty
<1>11. CASE e \notin Entries(list')
  <2>1. e = Head(list) /\ Entries(list') = all \ {e}
    BY <1>7, <1>8, <1>9, <1>11
  <2>2. new \in Entries(list')
    BY <1>2, <1>6, <1>7, <2>1, KeysAreOfEntries
  <2>3. b \in Listed'
    BY <1>6, <2>2, KeysAreOfEntries DEF Listed
  <2> QED BY <1>2, <1>7, <2>1, <2>3 DEF MadeRoom
<1> QED BY <1>10, <1>11

LEMMA PardonLeavesGuilty ==
  ASSUME BlockListInv, NEW a \in Peers, Guilty(a, list), NEW b \in Peers \ {a},
         RemoveFromBlockList(b)
  PROVE  Guilty(a, list')
<1> DEFINE D == Items
<1>1. list \in Table(Peers, D) /\ UniqueKeys(list) /\ list' = Removed(list, b)
  BY DEF BlockListInv, RemoveFromBlockList
<1> HIDE DEF D
<1>2. Entries(list') = {e \in Entries(list) : e.key # b}
  BY <1>1, RemovedFacts
<1> QED BY <1>2 DEF Guilty

LEMMA ClearLeavesGuilty ==
  ASSUME BlockListInv, NEW a \in Peers, Guilty(a, list), ClearBlockList, ~KeptAway(a)
  PROVE  Guilty(a, list')
<1>1. Entries(list') = {e \in Entries(list) : e.key \notin Old}
  BY KeptOfList DEF ClearBlockList
<1>2. a \notin Old
  BY DEF Old, KeptAway
<1> QED BY <1>1, <1>2 DEF Guilty

LEMMA TimeLeavesGuilty ==
  ASSUME BlockListInv, NEW a \in Peers, Guilty(a, list), Tick
  PROVE  Guilty(a, list')
<1> DEFINE older(i) == Entry(list[i].key, Item(list[i].data.score,
                               AtMost(list[i].data.age + 1, MaxAge + 1)))
<1>1. list' = [i \in DOMAIN list |-> older(i)]
  BY DEF Tick
<1>2. PICK i \in DOMAIN list : list[i].key = a /\ list[i].data.score > MaxTries
  BY DEF Guilty, Entries
<1>3. older(i).key = list[i].key /\ older(i).data.score = list[i].data.score
  BY DEF Entry, Item
<1> HIDE DEF older
<1>4. older(i) \in Entries(list')
  BY <1>1, <1>2 DEF Entries
<1> QED BY <1>2, <1>3, <1>4 DEF Guilty

LEMMA StaysBlockedStep ==
  ASSUME ServerInv, Next, NEW a \in Peers, Blocked(a), ~Blocked(a)'
  PROVE  GotThrough(a) \/ KeptAway(a) \/ MadeRoom(a) \/ shell' = "closed"
<1>1. BlockListInv /\ BlockCases
  BY BlockStep DEF ServerInv
<1>2. Guilty(a, list) /\ ~Guilty(a, list')
  <2>1. BlockListInv'
    BY <1>1, BlockCasesKeepInv
  <2>2. BlockedMeansGuilty /\ BlockedMeansGuilty'
    BY <1>1, <2>1, BlockedGuilty, BlockedGuiltyNext
  <2> QED BY <2>2 DEF BlockedMeansGuilty, Guilty
<1>3. CASE UNCHANGED blockVars
  BY <1>2, <1>3 DEF blockVars
<1>4. CASE FreeBlockList
  BY <1>4 DEF FreeBlockList
<1>10. CASE LoseBlockList
  BY <1>10 DEF LoseBlockList
<1>5. CASE \E b \in Peers : CheckBlockList(b)
  BY <1>1, <1>2, <1>5, CheckedStaysGuilty
<1>6. CASE \E b \in Peers, level \in 1..MaxLevel : UpdateBlockList(b, level)
  BY <1>1, <1>2, <1>6, AccusedAgainStaysGuilty, NewOffenderLeavesGuilty
<1>7. CASE \E c \in Conns : Connected(c) /\ peer[c] \in Peers /\ RemoveFromBlockList(peer[c])
  <2>1. PICK c \in Conns : Connected(c) /\ peer[c] \in Peers /\ RemoveFromBlockList(peer[c])
    BY <1>7
  <2>2. peer[c] = a
    BY <1>1, <1>2, <2>1, PardonLeavesGuilty
  <2>3. phase[c] = "connecting" /\ blame'[c] = "reset"
    BY <2>1 DEF Connected, ResetAddr, ServerInv, ConnTypeOK
  <2> QED BY <2>2, <2>3 DEF GotThrough
<1>8. CASE ClearBlockList
  BY <1>1, <1>2, <1>8, ClearLeavesGuilty
<1>9. CASE Tick
  BY <1>1, <1>2, <1>9, TimeLeavesGuilty
<1> QED BY <1>1, <1>3, <1>4, <1>5, <1>6, <1>7, <1>8, <1>9, <1>10 DEF BlockCases

(***************************************************************************)
(* A blocked client is let in again only when a connection of its own got  *)
(* through, when it kept away for long enough, when a new offender needed  *)
(* its place, or when the server ends: never by being accused again, by    *)
(* being looked at, or by what another client does.                        *)
(***************************************************************************)
THEOREM BlockedStayBlocked == Spec => StaysBlocked
<1>1. ServerInv /\ [Next]_vars =>
        [\A a \in Peers :
           Blocked(a) /\ ~Blocked(a)' =>
             GotThrough(a) \/ KeptAway(a) \/ MadeRoom(a) \/ shell' = "closed"]_vars
  BY StaysBlockedStep
<1> QED BY <1>1, ServerInvariant, PTL DEF Spec, StaysBlocked
=============================================================================
