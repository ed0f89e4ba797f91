---------------------------- MODULE NameService -----------------------------
(***************************************************************************)
(* What the resolver promises its clients, whatever it does inside: a name *)
(* that was asked for is answered at most once, and not at all once it was *)
(* cancelled; the answer is an address of that name, of the preferred      *)
(* family if one of them was heard of, and None only if none was.          *)
(***************************************************************************)
CONSTANTS Queries,    \* the places a question may be kept at
          Preferred,  \* the addresses of the preferred family
          Zone,       \* the addresses of each name
          None,       \* no address
          Nothing     \* no callback, no name

VARIABLES asked,   \* the name asked for from each place, or Nothing
          heard,   \* the addresses heard of so far
          told     \* the callback that was just made: the place, the address,
                   \* and all that was heard of

serviceVars == <<asked, heard, told>>

ServiceInit == /\ asked = [q \in Queries |-> Nothing]
               /\ heard = [q \in Queries |-> {}]
               /\ told = Nothing

Ask(q) == /\ asked[q] = Nothing
          /\ \E n \in DOMAIN Zone : asked' = [asked EXCEPT ![q] = n]
          /\ told' = Nothing
          /\ UNCHANGED heard

Hear(q) == /\ asked[q] # Nothing
           /\ \E more \in SUBSET Zone[asked[q]] :
                heard' = [heard EXCEPT ![q] = @ \cup more]
           /\ told' = Nothing
           /\ UNCHANGED asked

\* The addresses an answer may give.
BestOf(addresses) ==
  IF addresses = {} THEN {None}
  ELSE IF addresses \cap Preferred # {} THEN addresses \cap Preferred
  ELSE addresses

\* These questions are over.
Settle(over) ==
  /\ asked' = [q \in Queries |-> IF q \in over THEN Nothing ELSE asked[q]]
  /\ heard' = [q \in Queries |-> IF q \in over THEN {} ELSE heard[q]]

Answer(q) == /\ asked[q] # Nothing
             /\ Settle({q})
             /\ \E more \in SUBSET Zone[asked[q]] :
                  \E a \in BestOf(heard[q] \cup more) :
                    told' = <<q, a, heard[q] \cup more>>

\* Any questions are cancelled, or none, and nobody is called.
Withdraw == /\ \E over \in SUBSET Queries : Settle(over)
            /\ told' = Nothing

ServiceNext ==
  \/ Withdraw
  \/ \E q \in Queries : Ask(q) \/ Hear(q) \/ Answer(q)

ServiceSpec == ServiceInit /\ [][ServiceNext]_serviceVars
=============================================================================
