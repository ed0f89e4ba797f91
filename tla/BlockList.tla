----------------------------- MODULE BlockList ------------------------------
(***************************************************************************)
(* server/acl.c, the block list: a score for every client address that has *)
(* offended, kept in a cache (cache.c), and a firewall rule for each of    *)
(* them.  An address whose score exceeds MAX_TRIES is refused.             *)
(*                                                                         *)
(* An entry has an age instead of a time stamp: how many periods have gone *)
(* by since it was last touched, up to one more than MaxAge.               *)
(***************************************************************************)
EXTENDS LruCache, FiniteSets

CONSTANTS Peers,       \* client addresses
          MaxTries,    \* MAX_TRIES
          MaxLevel,    \* the highest level an offence is reported with
          MaxAge,      \* the age clear_block_list spares
          MaxEntries   \* the capacity of the cache

ASSUME BlockListAssumption ==
  /\ MaxTries \in Nat
  /\ MaxLevel \in Nat \ {0}
  /\ MaxAge \in Nat
  /\ MaxEntries \in Nat
  /\ MaxEntries > 1

VARIABLES list,      \* block_list
          rules,     \* how many DROP rules the chain has for each address
          shell,     \* the pipe to the shell that runs iptables
          offences   \* history: the levels reported since an address was
                     \* last forgotten, up to where it must be blocked

blockVars == <<list, rules, shell, offences>>

-----------------------------------------------------------------------------
Item(score, age) == [score |-> score, age |-> age]

MustBlock == MaxTries + MaxLevel
AtMost(n, max) == IF n > max THEN max ELSE n

Items == [score : 0..MustBlock, age : 0..(MaxAge + 1)]

Score(a) == IF Has(list, a) THEN Find(list, a).score ELSE 0
Blocked(a) == Score(a) > MaxTries

Listed == KeysOf(list)

\* What a list with some of its entries taken out keeps, in its order.
Kept(cache, gone) ==
  LET stay   == {i \in DOMAIN cache : cache[i].key \notin gone}
      Nth(k) == CHOOSE i \in stay : Cardinality({j \in stay : j <= i}) = k
  IN  [k \in 1..Cardinality(stay) |-> cache[Nth(k)]]

\* A defect for comparison: the rule of what goes stays.
ForgetKeepsRules(gone) ==
  /\ rules' = rules
  /\ offences' = [a \in Peers |-> IF a \in gone THEN 0 ELSE offences[a]]

\* free_firewall_rule for every entry that goes.
Forget(gone) ==
  /\ rules' = [a \in Peers |-> IF a \in gone /\ rules[a] > 0
                                 THEN rules[a] - 1 ELSE rules[a]]
  /\ offences' = [a \in Peers |-> IF a \in gone THEN 0 ELSE offences[a]]

-----------------------------------------------------------------------------
BlockListInit ==
  /\ list = <<>>
  /\ rules = [a \in Peers |-> 0]
  /\ shell = "open"
  /\ offences = [a \in Peers |-> 0]

\* cache_key_exist or cache_lookup: the entry becomes the youngest, with this
\* score.
Touched(a, score) == Append(Without(list, a), Entry(a, Item(score, 0)))

\* check_block_list, which answers Blocked(a).
CheckBlockList(a) ==
  /\ list' = IF Has(list, a) THEN Touched(a, Score(a)) ELSE list
  /\ UNCHANGED <<rules, shell, offences>>

\* A defect for comparison: a score beyond the limit keeps growing.
WorseForEver(a, level) == Score(a) + level

\* A further offence; a score beyond the limit stays as it is.
Worse(a, level) == IF Blocked(a) THEN Score(a) ELSE Score(a) + level

\* A defect for comparison: a first offence is entered and not counted.
FirstScoreZero == 0

\* A first offence counts one whatever its level.
FirstScore == 1

(***************************************************************************)
(* update_block_list.  A first offence evicts the entry that was not       *)
(* touched for longest if the cache is full, and then adds its own rule.   *)
(***************************************************************************)
UpdateBlockList(a, level) ==
  /\ IF Has(list, a)
       THEN /\ list' = Touched(a, Worse(a, level))
            /\ offences' = [offences EXCEPT ![a] = AtMost(@ + level, MustBlock)]
            /\ UNCHANGED rules
       ELSE LET added == Append(list, Entry(a, Item(FirstScore, 0)))
                gone  == IF Len(added) >= MaxEntries THEN {Head(added).key} ELSE {}
            IN  /\ list' = Inserted(list, a, Item(FirstScore, 0), MaxEntries)
                /\ rules' = [x \in Peers |->
                     IF x = a THEN rules[x] + 1
                     ELSE IF x \in gone /\ rules[x] > 0 THEN rules[x] - 1
                     ELSE rules[x]]
                /\ offences' = [x \in Peers |->
                     IF x = a THEN AtMost(level, MustBlock)
                     ELSE IF x \in gone THEN 0 ELSE offences[x]]
  /\ UNCHANGED shell

\* remove_from_block_list.
RemoveFromBlockList(a) ==
  /\ list' = Removed(list, a)
  /\ Forget(IF Has(list, a) THEN {a} ELSE {})
  /\ UNCHANGED shell

\* A defect for comparison: the comparison is the wrong way round.
OldReversed == {a \in Listed : Find(list, a).age <= MaxAge}

\* What cache_clear takes out.
Old == {a \in Listed : Find(list, a).age > MaxAge}

\* clear_block_list.
ClearBlockList ==
  /\ list' = Kept(list, Old)
  /\ Forget(Old)
  /\ UNCHANGED shell

\* Time passes.
Tick ==
  /\ list' = [i \in DOMAIN list |->
       Entry(list[i].key, Item(list[i].data.score,
                               AtMost(list[i].data.age + 1, MaxAge + 1)))]
  /\ UNCHANGED <<rules, shell, offences>>

(***************************************************************************)
(* free_block_list, when the event loop has ended: reset_firewall removes  *)
(* the chain and closes the pipe, and then the entries are freed, each     *)
(* with a command written to the stream that was closed (shell_stdin is    *)
(* not reset): whatever becomes of it finds no rule, in a process about to *)
(* end.  An entry touched in this very moment is not older than 0 and      *)
(* stays.                                                                  *)
(***************************************************************************)
FreeBlockList ==
  /\ shell = "open" /\ shell' = "closed"
  /\ rules' = [a \in Peers |-> 0]
  /\ \E gone \in SUBSET Listed :
       /\ \A a \in Listed : Find(list, a).age > 0 => a \in gone
       /\ list' = Kept(list, gone)
       /\ offences' = [a \in Peers |-> IF a \in gone THEN 0 ELSE offences[a]]

\* The process dies without free_block_list: the chain stays in the firewall.
LoseBlockList ==
  /\ shell = "open" /\ shell' = "closed"
  /\ UNCHANGED <<list, rules, offences>>

BlockListNext ==
  \/ /\ shell = "open"
     /\ \/ \E a \in Peers :
             \/ CheckBlockList(a)
             \/ \E level \in 1..MaxLevel : UpdateBlockList(a, level)
             \/ RemoveFromBlockList(a)
        \/ ClearBlockList
        \/ Tick
  \/ FreeBlockList
  \/ LoseBlockList

BlockListSpec == BlockListInit /\ [][BlockListNext]_blockVars

-----------------------------------------------------------------------------
BlockListTypeOK ==
  /\ list \in Table(Peers, Items)
  /\ rules \in [Peers -> Nat]
  /\ shell \in {"open", "closed"}
  /\ offences \in [Peers -> 0..MustBlock]

(***************************************************************************)
(* The firewall mirrors the list: as long as the server runs, an address   *)
(* has one rule if it is listed and none if it is not, through eviction,   *)
(* ageing and pardon.  A rule too many would outlive its entry; one too    *)
(* few could never be removed.                                             *)
(***************************************************************************)
RulesMirror ==
  /\ UniqueKeys(list)
  /\ Len(list) < MaxEntries
  /\ shell = "open" =>
       \A a \in Peers : rules[a] = IF a \in Listed THEN 1 ELSE 0

(***************************************************************************)
(* Whoever is refused deserves it, and whoever offends enough is refused:  *)
(* the levels reported since an address was last forgotten exceed          *)
(* MAX_TRIES if it is blocked, and it is blocked once they reach           *)
(* MAX_TRIES plus the highest level, although a first offence counts one.  *)
(***************************************************************************)
Judged ==
  \A a \in Peers : /\ Blocked(a) => offences[a] > MaxTries
                   /\ offences[a] = MustBlock => Blocked(a)
                   /\ a \notin Listed => offences[a] = 0
=============================================================================
