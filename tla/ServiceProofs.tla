---------------------------- MODULE ServiceProofs ---------------------------
(***************************************************************************)
(* Proofs about Service, for any number of shells, tests, nodes, rules and *)
(* checked programs, and any number of mishaps.                            *)
(***************************************************************************)
EXTENDS Service, SequenceTheorems, FiniteSetTheorems, TLAPS

Preparing == {"rule", "launch", "check", "dns", "note"}
Stopping  == {"kill", "remove", "clean"}

Pcs   == {"idle", "status", "rule", "launch", "check", "dns", "note", "unlock", "stopped",
          "wait", "kill", "remove", "clean", "test", "sweep"}
Calls == {"nothing", "start", "stop", "restart", "test"}

\* What the variables other than the hands are.
Typed ==
  /\ lock \in BOOLEAN
  /\ dirs \subseteq Places /\ file \in [Places -> SUBSET Pids]
  /\ alive \subseteq Pids
  /\ net \subseteq {"table", "dnsmasq", "redirect"}
  /\ pc \in [Callers -> Pcs]
  /\ todo \in [Callers -> Calls]
  /\ rule \in [Callers -> 0..Rules] /\ ran \in [Callers -> BOOLEAN]
  /\ hand \in [Callers -> Seq(Pids)]
  /\ mishaps \in 0..MaxMishaps
  /\ last \in {"start", "stopping", "stop"}
  /\ overrun \subseteq Admins /\ lost \subseteq Pids /\ disturbed \subseteq Testers

\* Where a shell is fits what it was called for.
Called(c) ==
  \/ pc[c] = "idle" /\ todo[c] = "nothing"
  \/ pc[c] \in Preparing \cup {"status", "unlock"} /\ todo[c] = "start"
  \/ pc[c] \in Stopping \cup {"wait", "unlock"} /\ todo[c] \in {"stop", "restart"}
  \/ pc[c] = "stopped" /\ todo[c] = "restart"

CalledRight ==
  /\ \A c \in Admins : Called(c)
  /\ \A t \in Testers : pc[t] \in {"idle", "launch", "check", "test", "sweep"}

\* A start under way, and a stop that waits for it or did not.
Overlap(c, d) ==
  todo[c] = "start" /\ todo[d] = "stop" /\ (At(d, "wait") \/ c \in overrun)

Alone == \A c, d \in Admins :
           c # d => Idle(c) \/ Idle(d) \/ Overlap(c, d) \/ Overlap(d, c)

\* The stop of a restart finds no start under way.
Patient == \A c \in Admins : todo[c] = "restart" => At(c, "wait") \/ overrun = {}

\* Who writes a pid file has a directory to write it in, unless it was taken away.
Housed ==
  /\ \A c \in Admins \ overrun : pc[c] \in Preparing => "service" \in dirs
  /\ \A t \in Testers \ disturbed : ~Idle(t) => Place(t) \in dirs

\* How many programs a launcher has started.
Handful ==
  \A c \in Callers :
    /\ At(c, "launch") => Len(hand[c]) < Checked
    /\ At(c, "check")  => Len(hand[c]) \in 1..Checked
    /\ At(c, "note")   => Len(hand[c]) = 1
    /\ pc[c] \notin {"launch", "check", "note"} => hand[c] = <<>>

\* A hand holds pids of its own launcher, and a pid file those of its place.
OwnPids ==
  /\ \A x \in file["service"] : x[1] = "service"
  /\ \A n \in Nodes : \A x \in file[n] : \E t \in Testers : NodeOf[t] = n /\ x[1] = t
  /\ \A c \in Callers : \A i \in 1..Len(hand[c]) : hand[c][i][1] = Tag(c)

\* A launcher has noted all it has started, but for the last while it checks.  A
\* start that was overrun has lost what it did not.
NotedSoFar ==
  \A c \in Callers \ disturbed : \A i \in 1..Len(hand[c]) :
    \/ At(c, "check") /\ i = Len(hand[c])
    \/ At(c, "note")
    \/ hand[c][i] \in file[Place(c)]
    \/ c \in Admins /\ (hand[c][i] \in lost \/ hand[c][i] \notin alive)

\* What all rules need, and what those need whose launchers have not begun.
Whole    == Rules * (Checked + 1)
Ahead(c) == (Rules - rule[c]) * (Checked + 1)

\* How many programs a call may still launch.
Needs(c) ==
  IF c \in Testers
    THEN IF pc[c] \in {"launch", "check"} THEN Checked - Len(hand[c]) ELSE 0
  ELSE IF pc[c] = "idle" \/ todo[c] = "stop" \/ (todo[c] = "start" /\ pc[c] = "unlock")
    THEN 0
  ELSE IF pc[c] \in {"rule", "note"} THEN Ahead(c)
  ELSE IF pc[c] = "dns" THEN Ahead(c) + 1
  ELSE IF pc[c] \in {"launch", "check"}
    THEN Ahead(c) + 1 + Checked - Len(hand[c])
  ELSE Whole

\* A restart that has not removed the pid file: what runs and was not lost will not
\* be in its way.
Restarting(c) == todo[c] = "restart" /\ pc[c] \in {"wait", "kill", "remove"}

Counted ==
  \A c \in Callers :
    IF Restarting(c) THEN RoomToRestart ELSE Room(Tag(c), Needs(c))

\* A stop that was alone is as far as its place says.
StopsSoFar ==
  overrun = {} =>
    \A c \in Admins :
      /\ At(c, "remove") => alive \cap file["service"] = {}
      /\ At(c, "clean") => file["service"] = {}
      /\ At(c, "unlock") /\ todo[c] # "start" => file["service"] = {} /\ net = {}

\* What StopsClean promises holds as soon as a stop has ended.
StoppedClean ==
  last = "stop" /\ overrun = {} =>
    /\ \A c \in Admins : pc[c] \in {"idle", "wait", "stopped"}
    /\ ServicePids \subseteq lost /\ net = {} /\ ~lock /\ file["service"] = {}

\* A test that nobody interfered with knows its programs.
TestsSoFar ==
  \A t \in Testers \ disturbed :
    /\ pc[t] \in {"idle", "sweep"} => TestPids(t) = {}
    /\ pc[t] \in {"launch", "check"} => TestPids(t) \subseteq ToSet(hand[t])
    /\ At(t, "test") => TestPids(t) \subseteq file[Place(t)]

Order == CalledRight /\ Alone /\ Patient /\ Housed
Pidful == OwnPids /\ NotedSoFar

IInv ==
  /\ Typed /\ Handful /\ Order /\ Counted
  /\ Pidful
  /\ KnownOrDead /\ StopsSoFar /\ StoppedClean /\ TestsSoFar

-----------------------------------------------------------------------------
(***************************************************************************)
(* Facts about places, hands and pids.                                     *)
(***************************************************************************)
LEMMA PlaceFacts ==
  /\ \A c \in Admins : c \in Callers /\ c \notin Testers /\ Place(c) = "service"
                       /\ Tag(c) = "service"
  /\ \A t \in Testers : /\ t \in Callers /\ t \notin Admins
                        /\ Place(t) = NodeOf[t] /\ NodeOf[t] \in Nodes /\ Place(t) # "service"
                        /\ Tag(t) = t /\ t # "service"
  /\ \A c \in Callers : Place(c) \in Places /\ (c \in Admins \/ c \in Testers)
  /\ \A c \in Callers : Tag(c) \in Tags /\ MaxPids[Tag(c)] \in Nat
  /\ \A tag \in Tags : MaxPids[tag] \in Nat
  /\ "service" \in Places /\ "service" \in Tags
BY ServiceAssumption DEF Callers, Places, Place, Tags, Tag

LEMMA InHandOf ==
  ASSUME Typed, NEW x
  PROVE  /\ \A c \in Callers : x \in ToSet(hand[c]) <=> \E i \in 1..Len(hand[c]) : hand[c][i] = x
         /\ x \in InHand <=> \E c \in Callers : \E i \in 1..Len(hand[c]) : hand[c][i] = x
<1>1. ASSUME NEW c \in Callers
      PROVE  x \in ToSet(hand[c]) <=> \E i \in 1..Len(hand[c]) : hand[c][i] = x
  <2>1. hand[c] \in Seq(Pids)
    BY DEF Typed
  <2>2. DOMAIN hand[c] = 1..Len(hand[c])
    BY <2>1
  <2> QED BY <2>2 DEF ToSet
<1> QED BY <1>1 DEF InHand

LEMMA NumbersFacts ==
  ASSUME NEW tag \in Tags, NEW pids
  PROVE  /\ IsFiniteSet(Numbers(tag, pids)) /\ Numbers(tag, pids) \subseteq 1..MaxPids[tag]
         /\ Cardinality(Numbers(tag, pids)) \in Nat
         /\ Cardinality(Numbers(tag, pids)) <= MaxPids[tag]
<1>1. MaxPids[tag] \in Nat
  BY PlaceFacts
<1>2. IsFiniteSet(1..MaxPids[tag]) /\ Cardinality(1..MaxPids[tag]) = MaxPids[tag]
  <2>1. \A n \in Nat : IsFiniteSet(1..n) /\ Cardinality(1..n) = n
    BY FS_Interval
  <2> QED BY <1>1, <2>1
<1>3. Numbers(tag, pids) \in SUBSET (1..MaxPids[tag])
  BY DEF Numbers
<1>4. /\ IsFiniteSet(Numbers(tag, pids))
      /\ Cardinality(Numbers(tag, pids)) <= Cardinality(1..MaxPids[tag])
  BY <1>2, <1>3, FS_Subset
<1>5. Cardinality(Numbers(tag, pids)) \in Nat
  BY <1>4, FS_CardinalityType
<1> QED BY <1>2, <1>3, <1>4, <1>5

LEMMA TakenFacts ==
  ASSUME NEW tag \in Tags
  PROVE  /\ IsFiniteSet(Taken(tag)) /\ Taken(tag) \subseteq 1..MaxPids[tag]
         /\ Cardinality(Taken(tag)) \in Nat /\ Cardinality(Taken(tag)) <= MaxPids[tag]
BY NumbersFacts DEF Taken

\* As long as there is room, a pid can be found.
LEMMA FreshFacts ==
  ASSUME NEW tag \in Tags, Cardinality(Taken(tag)) < MaxPids[tag]
  PROVE  /\ FreshPid(tag) \in Pids /\ FreshPid(tag)[1] = tag
         /\ FreshPid(tag) \notin Used
<1>0. MaxPids[tag] \in Nat
  BY PlaceFacts
<1>1. \E i \in 1..MaxPids[tag] : i \notin Taken(tag)
  <2>1. Cardinality(1..MaxPids[tag]) = MaxPids[tag]
    <3>1. \A n \in Nat : Cardinality(1..n) = n
      BY FS_Interval
    <3> QED BY <1>0, <3>1
  <2>2. Taken(tag) # 1..MaxPids[tag]
    BY <1>0, <2>1
  <2> QED BY <2>2, TakenFacts
<1>2. PICK i \in 1..MaxPids[tag] : i \notin Taken(tag) /\ FreshPid(tag) = <<tag, i>>
  BY <1>1 DEF FreshPid
<1>3. <<tag, i>> \notin Used
  BY <1>2 DEF Taken, Numbers
<1> QED BY <1>2, <1>3 DEF Pids

\* One more pid is one more taken, of its own launcher.
LEMMA TakenGrows ==
  ASSUME NEW tag \in Tags, Used' \subseteq Used \cup {FreshPid(tag)},
         Cardinality(Taken(tag)) < MaxPids[tag], NEW other \in Tags
  PROVE  /\ Cardinality(Taken(tag)') <= Cardinality(Taken(tag)) + 1
         /\ other # tag => Cardinality(Taken(other)') <= Cardinality(Taken(other))
<1> DEFINE k == FreshPid(tag)[2]
<1>1. FreshPid(tag) = <<tag, k>>
  BY DEF FreshPid
<1>2. Taken(tag)' \subseteq Taken(tag) \cup {k}
  BY <1>1 DEF Taken, Numbers
<1>3. /\ IsFiniteSet(Taken(tag) \cup {k})
      /\ Cardinality(Taken(tag) \cup {k}) <= Cardinality(Taken(tag)) + 1
  <2>1. IsFiniteSet(Taken(tag)) /\ Cardinality(Taken(tag)) \in Nat
    BY TakenFacts
  <2> QED BY <2>1, FS_AddElement
<1>4. Cardinality(Taken(tag)') <= Cardinality(Taken(tag) \cup {k})
  BY <1>2, <1>3, FS_Subset
<1>6. Cardinality(Taken(tag)') \in Nat /\ Cardinality(Taken(tag) \cup {k}) \in Nat
  BY <1>2, <1>3, FS_CardinalityType, FS_Subset
<1>7. ASSUME other # tag
      PROVE  Cardinality(Taken(other)') <= Cardinality(Taken(other))
  <2>1. Taken(other)' \subseteq Taken(other)
    BY <1>1, <1>7 DEF Taken, Numbers
  <2> QED BY <2>1, TakenFacts, FS_Subset
<1> QED BY <1>3, <1>4, <1>6, <1>7, TakenFacts

LEMMA TakenShrinks ==
  ASSUME Used' \subseteq Used, NEW tag \in Tags
  PROVE  Cardinality(Taken(tag)') <= Cardinality(Taken(tag))
<1>1. Taken(tag)' \subseteq Taken(tag)
  BY DEF Taken, Numbers
<1> QED BY <1>1, TakenFacts, FS_Subset

\* What a rule needs, and what is left when its launcher has begun.
LEMMA RuleFacts ==
  ASSUME Typed, NEW c \in Callers
  PROVE  /\ Ahead(c) \in Nat /\ Ahead(c) <= Whole /\ Whole \in Nat
         /\ rule[c] < Rules =>
              Ahead(c) = (Rules - (rule[c] + 1)) * (Checked + 1) + 1 + Checked
<1>1. Rules \in Nat /\ Checked \in Nat /\ rule[c] \in Nat /\ rule[c] <= Rules
  BY ServiceAssumption DEF Typed
<1>2. \A a, b \in Nat : a * b \in Nat
  OBVIOUS
<1>3. \A a, b, d \in Nat : a <= b => a * d <= b * d
  OBVIOUS
<1>4. \A a, d \in Nat : a > 0 => a * d = (a - 1) * d + d
  OBVIOUS
<1>5. Rules - rule[c] \in Nat /\ Rules - rule[c] <= Rules /\ Checked + 1 \in Nat
  BY <1>1
<1>6. rule[c] < Rules =>
        (Rules - rule[c]) * (Checked + 1)
          = (Rules - (rule[c] + 1)) * (Checked + 1) + (Checked + 1)
  <2> SUFFICES ASSUME rule[c] < Rules
               PROVE  (Rules - rule[c]) * (Checked + 1)
                        = (Rules - (rule[c] + 1)) * (Checked + 1) + (Checked + 1)
    OBVIOUS
  <2>1. Rules - (rule[c] + 1) = (Rules - rule[c]) - 1 /\ Rules - rule[c] > 0
    BY <1>1
  <2> QED BY <1>4, <1>5, <2>1
<1>7. (Rules - (rule[c] + 1)) * (Checked + 1) \in Int
  BY <1>1
<1> QED BY <1>1, <1>2, <1>3, <1>5, <1>6, <1>7 DEF Ahead, Whole

-----------------------------------------------------------------------------
(***************************************************************************)
(* Who may be under way beside whom.                                       *)
(***************************************************************************)
LEMMA Others ==
  ASSUME Order, NEW c \in Admins, NEW d \in Admins, c # d
  PROVE  /\ todo[c] = "start" =>
              Idle(d) \/ (todo[d] = "stop" /\ (At(d, "wait") \/ c \in overrun))
         /\ todo[c] = "stop" =>
              Idle(d) \/ (todo[d] = "start" /\ (At(c, "wait") \/ d \in overrun))
         /\ todo[c] = "restart" => Idle(d)
<1>1. Called(c) /\ Called(d)
  BY DEF Order, CalledRight
<1>2. Idle(c) \/ Idle(d) \/ Overlap(c, d) \/ Overlap(d, c)
  BY DEF Order, Alone
<1> QED BY <1>1, <1>2 DEF Called, Overlap, Idle, At, Preparing, Stopping

\* A stop that is past waiting and overran no start is alone.
LEMMA StopAlone ==
  ASSUME Order, NEW c \in Admins, todo[c] # "start", ~Idle(c), ~At(c, "wait"), overrun = {}
  PROVE  \A d \in Admins \ {c} : Idle(d)
<1>1. todo[c] \in {"stop", "restart"}
  BY DEF Order, CalledRight, Called, Idle, At
<1> QED BY <1>1, Others

LEMMA StartBeginsOrder ==
  ASSUME IInv, NEW c \in Admins, StartBegins(c), Idle(c) \/ At(c, "stopped")
  PROVE  Order'
<1>0. c \in Callers /\ pc \in [Callers -> Pcs] /\ todo \in [Callers -> Calls]
  BY PlaceFacts DEF IInv, Typed
<1>1. /\ pc' = [pc EXCEPT ![c] = "status"] /\ todo' = [todo EXCEPT ![c] = "start"]
      /\ UNCHANGED <<dirs, overrun, disturbed>>
  BY DEF StartBegins, GoesTo, files
<1>2. \A d \in Admins \ {c} : Idle(d)
  <2>1. CASE At(c, "stopped")
    <3>1. todo[c] = "restart"
      BY <2>1 DEF IInv, Order, CalledRight, Called, At, Preparing, Stopping
    <3> QED BY <3>1, Others DEF IInv
  <2>2. CASE Idle(c)
    <3>1. \A d \in Admins \ {c} : Idle(d) \/ todo[d] = "nothing"
      BY <2>2 DEF StartBegins, OthersIdle, Idle, At
    <3> QED BY <3>1 DEF IInv, Order, CalledRight, Called, Idle, At
  <2> QED BY <2>1, <2>2
<1>3. CalledRight'
  BY <1>0, <1>1, PlaceFacts DEF IInv, Order, CalledRight, Called, Preparing
<1>4. Alone'
  BY <1>0, <1>1, <1>2, PlaceFacts DEF Alone, Idle, At
<1>5. Patient'
  BY <1>0, <1>1, PlaceFacts DEF IInv, Order, Patient, At
<1>6. Housed'
  BY <1>0, <1>1, PlaceFacts DEF IInv, Order, Housed, Preparing, Idle, At, Place
<1> QED BY <1>3, <1>4, <1>5, <1>6 DEF Order

\* A start goes on to another of its places.
LEMMA StartGoesOrder ==
  ASSUME IInv, NEW c \in Admins, todo[c] = "start", ~Idle(c),
         NEW p \in Preparing \cup {"unlock"}, GoesTo(c, p), UNCHANGED <<todo, overrun, disturbed>>,
         dirs \subseteq dirs', p \in Preparing => "service" \in dirs' \/ c \in overrun
  PROVE  Order'
<1>0. c \in Callers /\ pc \in [Callers -> Pcs] /\ todo \in [Callers -> Calls]
  BY PlaceFacts DEF IInv, Typed
<1>1. pc' = [pc EXCEPT ![c] = p]
  BY DEF GoesTo
<1>3. CalledRight'
  BY <1>0, <1>1, PlaceFacts DEF IInv, Order, CalledRight, Called
<1>4. Alone'
  <2> SUFFICES ASSUME NEW a \in Admins, NEW b \in Admins, a # b
               PROVE  (Idle(a) \/ Idle(b) \/ Overlap(a, b) \/ Overlap(b, a))'
    BY DEF Alone
  <2>1. CASE a # c /\ b # c
    BY <1>0, <1>1, <2>1, PlaceFacts DEF IInv, Order, Alone, Idle, At, Overlap
  <2>2. CASE a = c
    <3>1. Idle(b) \/ (todo[b] = "stop" /\ (At(b, "wait") \/ c \in overrun))
      BY <2>2, Others DEF IInv
    <3> QED BY <1>0, <1>1, <2>2, <3>1, PlaceFacts DEF Idle, At, Overlap
  <2>3. CASE b = c
    <3>1. Idle(a) \/ (todo[a] = "stop" /\ (At(a, "wait") \/ c \in overrun))
      BY <2>3, Others DEF IInv
    <3> QED BY <1>0, <1>1, <2>3, <3>1, PlaceFacts DEF Idle, At, Overlap
  <2> QED BY <2>1, <2>2, <2>3
<1>5. Patient'
  BY <1>0, <1>1, PlaceFacts DEF IInv, Order, Patient, At
<1>6. Housed'
  BY <1>0, <1>1, PlaceFacts DEF IInv, Order, Housed, Idle, At, Place
<1> QED BY <1>3, <1>4, <1>5, <1>6 DEF Order

\* A stop or restart goes on, beside nothing but starts it has overrun.
LEMMA StopGoesOrder ==
  ASSUME IInv, NEW c \in Admins, todo[c] \in {"stop", "restart"},
         \A d \in Admins \ {c} : Idle(d) \/ d \in overrun',
         todo[c] = "restart" => overrun' = {},
         NEW p \in Stopping \cup {"unlock"}, GoesTo(c, p), UNCHANGED todo,
         disturbed \subseteq disturbed',
         \A t \in Testers : ~Idle(t) /\ Place(t) \in dirs => Place(t) \in dirs' \/ t \in disturbed'
  PROVE  Order'
<1>0. c \in Callers /\ pc \in [Callers -> Pcs] /\ todo \in [Callers -> Calls]
  BY PlaceFacts DEF IInv, Typed
<1>1. pc' = [pc EXCEPT ![c] = p]
  BY DEF GoesTo
<1>2. CalledRight'
  BY <1>0, <1>1, PlaceFacts DEF IInv, Order, CalledRight, Called
<1>3. \A d \in Admins \ {c} : pc'[d] = pc[d] /\ todo'[d] = todo[d]
  BY <1>0, <1>1, PlaceFacts
<1>4. ASSUME NEW d \in Admins \ {c}, ~Idle(d)
      PROVE  todo[c] = "stop" /\ todo[d] = "start" /\ d \in overrun'
  BY <1>4, Others DEF IInv
<1>5. Alone'
  <2> SUFFICES ASSUME NEW a \in Admins, NEW b \in Admins, a # b, ~Idle(a)', ~Idle(b)'
               PROVE  (Overlap(a, b) \/ Overlap(b, a))'
    BY DEF Alone
  <2>1. CASE a = c
    BY <1>3, <1>4, <2>1 DEF Overlap, Idle, At
  <2>2. CASE b = c
    BY <1>3, <1>4, <2>2 DEF Overlap, Idle, At
  <2>3. CASE a # c /\ b # c
    <3>1. ~Idle(a) /\ ~Idle(b)
      BY <1>3, <2>3 DEF Idle, At
    <3>2. todo[a] = "start" /\ todo[b] = "start"
      BY <1>4, <2>3, <3>1
    <3> QED BY <3>1, <3>2, Others DEF IInv
  <2> QED BY <2>1, <2>2, <2>3
<1>6. Patient'
  <2> SUFFICES ASSUME NEW d \in Admins, todo'[d] = "restart"
               PROVE  pc'[d] = "wait" \/ overrun' = {}
    BY DEF Patient, At
  <2>1. CASE d = c
    BY <2>1
  <2>2. CASE d # c
    <3>1. ~Idle(d)
      BY <1>3, <2>2 DEF IInv, Order, CalledRight, Called, Stopping, Idle, At
    <3> QED BY <1>3, <1>4, <2>2, <3>1
  <2> QED BY <2>1, <2>2
<1>7. Housed'
  <2>1. \A d \in Admins \ overrun' : pc'[d] \notin Preparing
    <3>1. p \notin Preparing /\ "idle" \notin Preparing
      BY DEF Preparing, Stopping
    <3> QED BY <1>0, <1>1, <1>3, <1>4, <3>1 DEF Idle, At
  <2>2. ASSUME NEW t \in Testers \ disturbed', ~Idle(t)'
        PROVE  Place(t) \in dirs'
    <3>1. ~Idle(t) /\ t \notin disturbed
      BY <1>0, <1>1, <2>2, PlaceFacts DEF Idle, At
    <3> QED BY <2>2, <3>1 DEF IInv, Order, Housed
  <2> QED BY <2>1, <2>2 DEF Housed, Place
<1> QED BY <1>2, <1>5, <1>6, <1>7 DEF Order

\* A shell is done, or is killed.
LEMMA EndsOrder ==
  ASSUME IInv, NEW c \in Admins, GoesTo(c, "idle"),
         todo' = [todo EXCEPT ![c] = "nothing"],
         UNCHANGED <<dirs, overrun, disturbed>>
  PROVE  Order'
<1>0. c \in Callers /\ pc \in [Callers -> Pcs] /\ todo \in [Callers -> Calls]
  BY PlaceFacts DEF IInv, Typed
<1>1. pc' = [pc EXCEPT ![c] = "idle"]
  BY DEF GoesTo
<1>2. CalledRight'
  BY <1>0, <1>1, PlaceFacts DEF IInv, Order, CalledRight, Called
<1>3. Alone'
  BY <1>0, <1>1, PlaceFacts DEF IInv, Order, Alone, Idle, At, Overlap
<1>4. Patient'
  BY <1>0, <1>1, PlaceFacts DEF IInv, Order, Patient, At
<1>5. Housed'
  BY <1>0, <1>1, PlaceFacts DEF IInv, Order, Housed, Idle, At, Preparing, Place
<1> QED BY <1>2, <1>3, <1>4, <1>5 DEF Order

LEMMA RestartGoesOrder ==
  ASSUME IInv, NEW c \in Admins, UnsetLock(c), todo[c] = "restart"
  PROVE  Order'
<1>0. c \in Callers /\ pc \in [Callers -> Pcs] /\ todo \in [Callers -> Calls]
  BY PlaceFacts DEF IInv, Typed
<1>1. /\ pc' = [pc EXCEPT ![c] = "stopped"] /\ UNCHANGED <<todo, dirs, overrun, disturbed>>
      /\ pc[c] = "unlock"
  BY DEF UnsetLock, GoesTo, files, At
<1>2. \A d \in Admins \ {c} : Idle(d)
  BY Others DEF IInv
<1>3. CalledRight'
  BY <1>0, <1>1, PlaceFacts DEF IInv, Order, CalledRight, Called
<1>4. Alone'
  BY <1>0, <1>1, <1>2, PlaceFacts DEF Alone, Idle, At
<1>5. Patient'
  BY <1>0, <1>1, PlaceFacts DEF IInv, Order, Patient, At
<1>6. Housed'
  BY <1>0, <1>1, PlaceFacts DEF IInv, Order, Housed, Idle, At, Preparing, Place
<1> QED BY <1>3, <1>4, <1>5, <1>6 DEF Order

LEMMA StopBeginsOrder ==
  ASSUME IInv, NEW c \in Admins, StopBegins(c)
  PROVE  Order'
<1>0. c \in Callers /\ pc \in [Callers -> Pcs] /\ todo \in [Callers -> Calls]
  BY PlaceFacts DEF IInv, Typed
<1>1. /\ pc' = [pc EXCEPT ![c] = "wait"] /\ UNCHANGED <<dirs, overrun, disturbed>>
      /\ \/ /\ todo' = [todo EXCEPT ![c] = "stop"]
            /\ \A d \in Admins \ {c} : Idle(d) \/ todo[d] = "start"
         \/ /\ todo' = [todo EXCEPT ![c] = "restart"]
            /\ \A d \in Admins \ {c} : Idle(d)
  BY DEF StopBegins, GoesTo, files, past, OthersIdle, IInv, Order, CalledRight, Called,
         Idle, At
<1>2. CalledRight'
  BY <1>0, <1>1, PlaceFacts DEF IInv, Order, CalledRight, Called
<1>3. Alone'
  <2> SUFFICES ASSUME NEW a \in Admins, NEW b \in Admins, a # b
               PROVE  (Idle(a) \/ Idle(b) \/ Overlap(a, b) \/ Overlap(b, a))'
    BY DEF Alone
  <2> QED BY <1>0, <1>1, PlaceFacts DEF IInv, Order, Alone, Idle, At, Overlap
<1>4. Patient'
  BY <1>0, <1>1, PlaceFacts DEF IInv, Order, Patient, At
<1>5. Housed'
  BY <1>0, <1>1, PlaceFacts DEF IInv, Order, Housed, Idle, At, Preparing, Place
<1> QED BY <1>2, <1>3, <1>4, <1>5 DEF Order

\* A test goes on.
LEMMA TestGoesOrder ==
  ASSUME IInv, NEW t \in Testers, NEW p \in {"idle", "launch", "check", "test", "sweep"},
         GoesTo(t, p), UNCHANGED overrun, \A d \in Admins : todo'[d] = todo[d],
         disturbed \subseteq disturbed', "service" \in dirs => "service" \in dirs',
         p # "idle" => Place(t) \in dirs' \/ t \in disturbed',
         \A u \in Testers \ {t} :
           ~Idle(u) /\ Place(u) \in dirs => Place(u) \in dirs' \/ u \in disturbed'
  PROVE  Order'
<1>0. t \in Callers /\ pc \in [Callers -> Pcs] /\ todo \in [Callers -> Calls]
  BY PlaceFacts DEF IInv, Typed
<1>1. pc' = [pc EXCEPT ![t] = p]
  BY DEF GoesTo
<1>2. \A d \in Admins : pc'[d] = pc[d] /\ todo'[d] = todo[d]
  BY <1>0, <1>1, PlaceFacts
<1>3. CalledRight'
  BY <1>0, <1>1, <1>2, PlaceFacts DEF IInv, Order, CalledRight, Called
<1>4. Alone'
  BY <1>2 DEF IInv, Order, Alone, Idle, At, Overlap
<1>5. Patient'
  BY <1>2 DEF IInv, Order, Patient, At
<1>6. Housed'
  <2>1. ASSUME NEW u \in Testers \ disturbed', ~Idle(u)'
        PROVE  Place(u) \in dirs'
    <3>1. CASE u = t
      BY <1>0, <1>1, <2>1, <3>1 DEF Idle, At
    <3>2. CASE u # t
      <4>1. ~Idle(u) /\ u \notin disturbed
        BY <1>0, <1>1, <2>1, <3>2, PlaceFacts DEF Idle, At
      <4> QED BY <2>1, <3>2, <4>1 DEF IInv, Order, Housed
    <3> QED BY <3>1, <3>2
  <2> QED BY <1>2, <2>1 DEF IInv, Order, Housed, Place
<1> QED BY <1>3, <1>4, <1>5, <1>6 DEF Order

LEMMA LauncherOrder ==
  ASSUME IInv, NEW c \in Callers, LauncherStep(c)
  PROVE  Order'
<1>0. pc[c] \in {"launch", "check"} /\ UNCHANGED <<todo, overrun, disturbed, dirs>>
  BY DEF LauncherStep, Launch, CheckGood, CheckBad, At, files, past
<1>1. CASE c \in Admins
  <2>0. c \notin Testers
    BY <1>1, PlaceFacts
  <2>1. PICK p \in {"launch", "check", "dns", "rule"} : GoesTo(c, p)
    BY <2>0 DEF LauncherStep, Launch, CheckGood, CheckBad, Launched, Failed
  <2>3. todo[c] = "start" /\ ~Idle(c) /\ ("service" \in dirs \/ c \in overrun)
    BY <1>0, <1>1 DEF IInv, Order, CalledRight, Called, Housed, Preparing, Stopping, Idle, At
  <2>4. p \in Preparing
    BY <2>1 DEF Preparing
  <2> QED BY <1>0, <1>1, <2>1, <2>3, <2>4, StartGoesOrder
<1>2. CASE c \in Testers
  <2>1. PICK p \in {"launch", "check", "test", "sweep"} : GoesTo(c, p)
    BY <1>2 DEF LauncherStep, Launch, CheckGood, CheckBad, Launched, Failed
  <2>3. Place(c) \in dirs' \/ c \in disturbed'
    BY <1>0, <1>2 DEF IInv, Order, Housed, Idle, At
  <2> QED BY <1>0, <1>2, <2>1, <2>3, TestGoesOrder
<1> QED BY <1>1, <1>2, PlaceFacts

LEMMA StartOrder ==
  ASSUME IInv, NEW c \in Admins, StartStep(c)
  PROVE  Order'
<1>1. CASE StartPrepares(c) \/ NextRule(c) \/ LaunchDns(c) \/ NoteDns(c)
  <2>1. /\ pc[c] \in {"status", "rule", "dns", "note"}
        /\ UNCHANGED <<todo, overrun, disturbed>> /\ dirs \subseteq dirs'
    BY <1>1 DEF StartPrepares, NextRule, LaunchDns, NoteDns, At, files, past
  <2>2. /\ todo[c] = "start" /\ ~Idle(c)
        /\ pc[c] # "status" => "service" \in dirs \/ c \in overrun
    BY <2>1 DEF IInv, Order, CalledRight, Called, Housed, Preparing, Stopping, Idle, At
  <2>3. \E p \in Preparing \cup {"unlock"} :
          GoesTo(c, p) /\ (p \in Preparing => "service" \in dirs' \/ c \in overrun)
    <3>1. CASE StartPrepares(c)
      BY <3>1 DEF StartPrepares, Preparing
    <3>2. CASE NextRule(c) \/ LaunchDns(c) \/ NoteDns(c)
      BY <2>1, <2>2, <3>2 DEF NextRule, LaunchDns, NoteDns, Preparing, At
    <3> QED BY <1>1, <3>1, <3>2
  <2> QED BY <2>1, <2>2, <2>3, StartGoesOrder
<1>2. CASE UnsetLock(c)
  <2>1. CASE todo[c] = "restart"
    BY <1>2, <2>1, RestartGoesOrder
  <2>2. CASE todo[c] # "restart"
    BY <1>2, <2>2, EndsOrder DEF UnsetLock, files
  <2> QED BY <2>1, <2>2
<1>3. CASE At(c, "stopped") /\ StartBegins(c)
  BY <1>3, StartBeginsOrder
<1> QED BY <1>1, <1>2, <1>3 DEF StartStep

LEMMA StopOrder ==
  ASSUME IInv, NEW c \in Admins, StopStep(c)
  PROVE  Order'
<1>1. pc[c] \in Stopping \cup {"wait"}
  BY DEF StopStep, Unlock, StopKills, StopRemoves, StopCleans, At, Stopping
<1>2. todo[c] \in {"stop", "restart"}
  BY <1>1 DEF IInv, Order, CalledRight, Called, Stopping, Preparing
<1>3. /\ \A d \in Admins \ {c} : Idle(d) \/ d \in overrun'
      /\ todo[c] = "restart" => overrun' = {}
  <2>1. CASE Unlock(c)
    <3>1. overrun' = {d \in Admins \ {c} : ~Idle(d)}
      BY <2>1 DEF Unlock, UnderWay
    <3>2. todo[c] = "restart" => \A d \in Admins \ {c} : Idle(d)
      BY Others DEF IInv
    <3> QED BY <3>1, <3>2
  <2>2. CASE StopKills(c) \/ StopRemoves(c) \/ StopCleans(c)
    <3>1. ~At(c, "wait") /\ UNCHANGED overrun
      BY <2>2 DEF StopKills, StopRemoves, StopCleans, At, past
    <3>2. todo[c] = "restart" => overrun = {}
      BY <3>1 DEF IInv, Order, Patient
    <3> QED BY <1>2, <3>1, <3>2, Others DEF IInv
  <2> QED BY <2>1, <2>2 DEF StopStep
<1>5. \E p \in Stopping \cup {"unlock"} : GoesTo(c, p)
  BY DEF StopStep, Unlock, StopKills, StopRemoves, StopCleans, Stopping
<1>6. /\ UNCHANGED todo /\ disturbed \subseteq disturbed'
      /\ \A t \in Testers : ~Idle(t) /\ Place(t) \in dirs => Place(t) \in dirs' \/ t \in disturbed'
  BY DEF StopStep, Unlock, StopKills, StopRemoves, StopCleans, files, past
<1> QED BY <1>2, <1>3, <1>5, <1>6, StopGoesOrder

LEMMA TestOrder ==
  ASSUME IInv, NEW t \in Testers, TestBegins(t) \/ TestStep(t)
  PROVE  Order'
<1>1. /\ \A d \in Admins : todo'[d] = todo[d]
      /\ UNCHANGED overrun
  BY PlaceFacts DEF TestBegins, TestStep, TestKills, TestSweeps, IInv, Typed, past
<1>3. CASE TestBegins(t)
  <2>1. GoesTo(t, "launch") /\ dirs' = dirs \cup {"service", Place(t)} /\ UNCHANGED disturbed
    BY <1>3 DEF TestBegins, past
  <2> QED BY <1>1, <2>1, TestGoesOrder
<1>4. CASE TestKills(t)
  <2>1. Place(t) \in dirs \/ t \in disturbed
    BY <1>4 DEF TestKills, IInv, Order, Housed, Idle, At
  <2>2. GoesTo(t, "sweep") /\ UNCHANGED <<dirs, disturbed>>
    BY <1>4 DEF TestKills, files, past
  <2> QED BY <1>1, <2>1, <2>2, TestGoesOrder
<1>5. CASE TestSweeps(t)
  <2>1. /\ GoesTo(t, "idle") /\ dirs' = dirs \ {Place(t)}
        /\ disturbed' = disturbed \cup {u \in Testers \ {t} : NodeOf[u] = NodeOf[t] /\ ~Idle(u)}
    BY <1>5 DEF TestSweeps, Beside
  <2>2. \A u \in Testers : Place(u) = NodeOf[u] /\ Place(u) # "service"
    BY PlaceFacts
  <2>3. \A u \in Testers \ {t} :
          ~Idle(u) /\ Place(u) \in dirs => Place(u) \in dirs' \/ u \in disturbed'
    BY <2>1, <2>2
  <2> QED BY <1>1, <2>1, <2>2, <2>3, TestGoesOrder
<1> QED BY <1>3, <1>4, <1>5 DEF TestStep

LEMMA KilledOrder ==
  ASSUME IInv, NEW c \in Callers, Killed(c)
  PROVE  Order'
<1>1. CASE c \in Admins
  <2>1. UNCHANGED disturbed
    BY <1>1, PlaceFacts DEF Killed
  <2> QED BY <1>1, <2>1, EndsOrder DEF Killed, files
<1>2. CASE c \in Testers
  <2>1. \A d \in Admins : todo'[d] = todo[d]
    BY <1>2, PlaceFacts DEF Killed, IInv, Typed
  <2>2. /\ GoesTo(c, "idle") /\ UNCHANGED <<dirs, overrun>>
        /\ disturbed' = disturbed \cup {c}
    BY <1>2 DEF Killed, files
  <2> QED BY <1>2, <2>1, <2>2, TestGoesOrder
<1> QED BY <1>1, <1>2, PlaceFacts

LEMMA OrderStep ==
  ASSUME IInv, Next
  PROVE  Order'
<1>1. CASE \E c \in Admins : Idle(c) /\ StartBegins(c)
  BY <1>1, StartBeginsOrder
<1>2. CASE \E c \in Admins : StopBegins(c)
  BY <1>2, StopBeginsOrder
<1>3. CASE \E c \in Admins : StartStep(c) \/ StopStep(c)
  BY <1>3, StartOrder, StopOrder
<1>4. CASE \E t \in Testers : TestBegins(t) \/ TestStep(t)
  BY <1>4, TestOrder
<1>5. CASE \E c \in Callers : LauncherStep(c) \/ Killed(c)
  BY <1>5, LauncherOrder, KilledOrder
<1> QED BY <1>1, <1>2, <1>3, <1>4, <1>5 DEF Next, Step

-----------------------------------------------------------------------------
(***************************************************************************)
(* Hands and pids.                                                         *)
(***************************************************************************)
LEMMA RoomOf ==
  ASSUME IInv, NEW c \in Callers, ~Restarting(c)
  PROVE  Cardinality(Taken(Tag(c))) + Needs(c) <= MaxPids[Tag(c)]
BY DEF IInv, Counted, Room

LEMMA LaunchRoom ==
  ASSUME IInv, NEW c \in Callers, At(c, "launch")
  PROVE  Cardinality(Taken(Tag(c))) < MaxPids[Tag(c)]
<1>1. Len(hand[c]) \in Nat /\ Len(hand[c]) < Checked
  BY DEF IInv, Typed, Handful
<1>2. c \in Admins => todo[c] = "start" /\ Ahead(c) \in Nat
  BY RuleFacts DEF IInv, Order, CalledRight, Called, At, Stopping
<1>3. Needs(c) \in Nat \ {0}
  <2>1. CASE c \in Testers
    <3>1. Needs(c) = Checked - Len(hand[c])
      BY <2>1 DEF Needs, At
    <3> QED BY <1>1, <3>1, ServiceAssumption
  <2>2. CASE c \notin Testers
    <3>1. Needs(c) = Ahead(c) + 1 + Checked - Len(hand[c])
      BY <1>2, <2>2, PlaceFacts DEF Needs, At
    <3> QED BY <1>1, <1>2, <2>2, <3>1, ServiceAssumption, PlaceFacts
  <2> QED BY <2>1, <2>2
<1>4. Cardinality(Taken(Tag(c))) + Needs(c) <= MaxPids[Tag(c)]
  BY RoomOf DEF Restarting, At
<1>5. Tag(c) \in Tags /\ MaxPids[Tag(c)] \in Nat
  BY PlaceFacts
<1>6. Cardinality(Taken(Tag(c))) \in Nat
  BY <1>5, TakenFacts
<1> QED BY <1>3, <1>4, <1>5, <1>6

LEMMA DnsRoom ==
  ASSUME IInv, NEW c \in Admins, At(c, "dns")
  PROVE  Cardinality(Taken(Tag(c))) < MaxPids[Tag(c)]
<1>0. c \in Callers /\ c \notin Testers /\ Tag(c) \in Tags /\ MaxPids[Tag(c)] \in Nat
  BY PlaceFacts
<1>1. todo[c] = "start" /\ Ahead(c) \in Nat
  BY <1>0, RuleFacts DEF IInv, Order, CalledRight, Called, At, Stopping
<1>2. Needs(c) = Ahead(c) + 1
  BY <1>0, <1>1 DEF Needs, At
<1>3. Cardinality(Taken(Tag(c))) + Needs(c) <= MaxPids[Tag(c)]
  BY <1>0, RoomOf DEF Restarting, At
<1>4. Cardinality(Taken(Tag(c))) \in Nat
  BY <1>0, TakenFacts
<1> QED BY <1>0, <1>1, <1>2, <1>3, <1>4

\* The pid that is launched next is nobody's, and the launcher's own.
LEMMA LaunchPid ==
  ASSUME IInv, NEW c \in Callers, At(c, "launch") \/ (c \in Admins /\ At(c, "dns"))
  PROVE  /\ Cardinality(Taken(Tag(c))) < MaxPids[Tag(c)] /\ Tag(c) \in Tags
         /\ FreshPid(Tag(c)) \in Pids /\ FreshPid(Tag(c))[1] = Tag(c)
         /\ FreshPid(Tag(c)) \notin alive /\ FreshPid(Tag(c)) \notin InHand
         /\ \A p \in Places : FreshPid(Tag(c)) \notin file[p]
<1>1. Cardinality(Taken(Tag(c))) < MaxPids[Tag(c)] /\ Tag(c) \in Tags
  BY LaunchRoom, DnsRoom, PlaceFacts
<1>2. FreshPid(Tag(c)) \in Pids /\ FreshPid(Tag(c))[1] = Tag(c)
      /\ FreshPid(Tag(c)) \notin Used
  BY <1>1, FreshFacts
<1> QED BY <1>1, <1>2 DEF Used, Noted

\* What a hand is at the places where its last pid is looked at.
LEMMA LastFacts ==
  ASSUME IInv, NEW c \in Callers, At(c, "check") \/ At(c, "note")
  PROVE  /\ Len(hand[c]) \in 1..Checked /\ Last(hand[c]) = hand[c][Len(hand[c])]
         /\ Last(hand[c]) \in Pids /\ Last(hand[c])[1] = Tag(c)
<1>0. \/ Len(hand[c]) \in 1..Checked
      \/ Len(hand[c]) = 1
  BY DEF IInv, Handful
<1>1. hand[c] \in Seq(Pids) /\ Len(hand[c]) \in 1..Checked
  <2>1. 1 \in 1..Checked
    BY ServiceAssumption
  <2>2. hand[c] \in Seq(Pids)
    BY DEF IInv, Typed
  <2> QED BY <1>0, <2>1, <2>2
<1>2. Len(hand[c]) \in 1..Len(hand[c])
  BY <1>1
<1>3. hand[c][Len(hand[c])] \in Pids
  BY <1>1, <1>2, ElementOfSeq
<1>4. hand[c][Len(hand[c])][1] = Tag(c)
  BY <1>2 DEF IInv, Pidful, OwnPids
<1> QED BY <1>1, <1>3, <1>4 DEF Last

LEMMA AppendFacts ==
  ASSUME NEW S, NEW s \in Seq(S), NEW x \in S
  PROVE  /\ Append(s, x) \in Seq(S) /\ Len(Append(s, x)) = Len(s) + 1 /\ Len(s) \in Nat
         /\ Append(s, x)[Len(s) + 1] = x
         /\ \A i \in 1..Len(s) : Append(s, x)[i] = s[i]
OBVIOUS

LEMMA LaunchTyped ==
  ASSUME IInv, NEW c \in Callers, Launch(c)
  PROVE  Typed' /\ Handful'
<1> DEFINE pid == FreshPid(Tag(c))
<1>0. /\ pc[c] = "launch" /\ pc' = [pc EXCEPT ![c] = "check"]
      /\ hand' = [hand EXCEPT ![c] = Append(hand[c], pid)]
      /\ UNCHANGED <<lock, dirs, file, net, todo, rule, ran, past>>
      /\ (alive' = alive \cup {pid} \/ UNCHANGED alive)
  BY DEF Launch, At, GoesTo, files
<1>1. pid \in Pids
  BY <1>0, LaunchPid DEF At
<1>2. hand[c] \in Seq(Pids) /\ Len(hand[c]) < Checked
  BY <1>0 DEF IInv, Typed, Handful, At
<1>3. Append(hand[c], pid) \in Seq(Pids) /\ Len(Append(hand[c], pid)) \in 1..Checked
  BY <1>1, <1>2, AppendFacts, ServiceAssumption
<1> HIDE DEF pid
<1>4. Typed'
  BY <1>0, <1>1, <1>3 DEF IInv, Typed, Pcs, past
<1>5. Handful'
  BY <1>0, <1>3 DEF IInv, Typed, Handful, At
<1> QED BY <1>4, <1>5

LEMMA LaunchDnsTyped ==
  ASSUME IInv, NEW c \in Admins, LaunchDns(c)
  PROVE  Typed' /\ Handful'
<1> DEFINE pid == FreshPid(Tag(c))
<1>0. /\ c \in Callers /\ pc[c] = "dns" /\ pc' = [pc EXCEPT ![c] = "note"]
      /\ hand' = [hand EXCEPT ![c] = <<pid>>]
      /\ UNCHANGED <<lock, dirs, file, net, todo, rule, ran, past>>
      /\ (alive' = alive \cup {pid} \/ UNCHANGED alive)
  BY PlaceFacts DEF LaunchDns, At, GoesTo, files
<1>1. pid \in Pids
  BY <1>0, LaunchPid DEF At
<1>2. <<pid>> \in Seq(Pids) /\ Len(<<pid>>) = 1
  BY <1>1
<1> HIDE DEF pid
<1>3. Typed'
  BY <1>0, <1>1, <1>2 DEF IInv, Typed, Pcs, past
<1>4. Handful'
  BY <1>0, <1>2 DEF IInv, Typed, Handful, At
<1> QED BY <1>3, <1>4

LEMMA CheckTyped ==
  ASSUME IInv, NEW c \in Callers, CheckGood(c) \/ CheckBad(c) \/ (c \in Admins /\ NoteDns(c))
  PROVE  Typed' /\ Handful'
<1>0. /\ pc[c] \in {"check", "note"}
      /\ UNCHANGED <<lock, dirs, net, todo, rule, mishaps, last, overrun, disturbed>>
      /\ alive' \subseteq alive /\ lost' \subseteq lost \cup alive
      /\ \/ UNCHANGED file
         \/ file' = [file EXCEPT ![Place(c)] = @ \cup {Last(hand[c])}]
      /\ \/ \E p \in {"test", "dns", "sweep", "rule"} :
              pc' = [pc EXCEPT ![c] = p] /\ hand' = [hand EXCEPT ![c] = <<>>]
         \/ /\ pc' = [pc EXCEPT ![c] = "launch"] /\ UNCHANGED hand
            /\ Len(hand[c]) # Checked
  <2>1. c \in Admins => Place(c) = "service"
    BY PlaceFacts
  <2>2. file \in [Places -> SUBSET Pids] /\ Place(c) \in Places
    BY PlaceFacts DEF IInv, Typed
  <2>3. CASE CheckGood(c)
    BY <2>2, <2>3 DEF CheckGood, Launched, At, GoesTo, Note
  <2>4. CASE CheckBad(c)
    BY <2>4 DEF CheckBad, Failed, At, GoesTo, files, past
  <2>5. CASE c \in Admins /\ NoteDns(c)
    BY <2>1, <2>2, <2>5 DEF NoteDns, At, GoesTo, Note
  <2> QED BY <2>3, <2>4, <2>5
<1>1. Len(hand[c]) \in 1..Checked /\ Last(hand[c]) \in Pids
  BY <1>0, LastFacts DEF At
<1>2. ran' \in [Callers -> BOOLEAN]
  BY DEF CheckGood, CheckBad, NoteDns, IInv, Typed
<1>3. <<>> \in Seq(Pids) /\ Place(c) \in Places
  BY PlaceFacts
<1>4. file' \in [Places -> SUBSET Pids]
  <2>1. file \in [Places -> SUBSET Pids]
    BY DEF IInv, Typed
  <2> QED BY <1>0, <1>1, <1>3, <2>1
<1>5. pc' \in [Callers -> Pcs] /\ hand' \in [Callers -> Seq(Pids)]
  <2>1. pc \in [Callers -> Pcs] /\ hand \in [Callers -> Seq(Pids)]
    BY DEF IInv, Typed
  <2>2. "launch" \in Pcs /\ \A p \in {"test", "dns", "sweep", "rule"} : p \in Pcs
    BY DEF Pcs
  <2>3. CASE pc' = [pc EXCEPT ![c] = "launch"] /\ UNCHANGED hand
    BY <2>1, <2>2, <2>3
  <2>4. CASE \E p \in {"test", "dns", "sweep", "rule"} :
               pc' = [pc EXCEPT ![c] = p] /\ hand' = [hand EXCEPT ![c] = <<>>]
    BY <1>3, <2>1, <2>2, <2>4
  <2> QED BY <1>0, <2>3, <2>4
<1>6. Typed'
  BY <1>0, <1>2, <1>4, <1>5 DEF IInv, Typed
<1>7. Handful'
  <2>1. ASSUME NEW d \in Callers, d # c
        PROVE  UNCHANGED <<pc[d], hand[d]>>
    BY <1>0, <2>1 DEF IInv, Typed
  <2>2. \/ pc'[c] \notin {"launch", "check", "note"} /\ hand'[c] = <<>>
        \/ pc'[c] = "launch" /\ hand'[c] = hand[c] /\ Len(hand[c]) # Checked
    BY <1>0 DEF IInv, Typed
  <2>3. hand'[c] = hand[c] /\ Len(hand[c]) # Checked => Len(hand'[c]) < Checked
    BY <1>1, ServiceAssumption
  <2> QED BY <2>1, <2>2, <2>3 DEF IInv, Handful, At
<1> QED BY <1>6, <1>7

\* A script whose hand is empty goes on.
LEMMA EmptyHandGoes ==
  ASSUME IInv, NEW c \in Callers, pc[c] \notin {"launch", "check", "note"},
         NEW p \in Pcs \ {"check", "note"}, GoesTo(c, p), UNCHANGED hand
  PROVE  Handful'
<1>1. hand[c] = <<>> /\ Len(<<>>) = 0 /\ pc' = [pc EXCEPT ![c] = p] /\ pc \in [Callers -> Pcs]
  BY DEF IInv, Typed, Handful, GoesTo
<1>2. ASSUME NEW d \in Callers, d # c
      PROVE  pc'[d] = pc[d]
  BY <1>1, <1>2
<1>3. pc'[c] = p
  BY <1>1
<1>4. 0 < Checked
  BY ServiceAssumption
<1> QED BY <1>1, <1>2, <1>3, <1>4 DEF IInv, Handful, At

LEMMA StartTyped ==
  ASSUME IInv, NEW c \in Admins, StartStep(c) \/ (Idle(c) /\ StartBegins(c))
  PROVE  Typed' /\ Handful'
<1>0. c \in Callers
  BY PlaceFacts
<1>1. CASE LaunchDns(c)
  BY <1>1, LaunchDnsTyped
<1>2. CASE NoteDns(c)
  BY <1>0, <1>2, CheckTyped
<1>3. CASE StartBegins(c) /\ (Idle(c) \/ At(c, "stopped"))
  <2>1. Typed'
    BY <1>0, <1>3 DEF IInv, Typed, StartBegins, GoesTo, Pcs, Calls, files
  <2>2. Handful'
    BY <1>0, <1>3, EmptyHandGoes DEF StartBegins, Idle, At, Pcs
  <2> QED BY <2>1, <2>2
<1>4. CASE StartPrepares(c)
  <2>1. PICK p \in {"unlock", "rule"} : GoesTo(c, p)
    BY <1>4 DEF StartPrepares
  <2>2. Typed'
    BY <1>0, <1>4, <2>1 DEF IInv, Typed, StartPrepares, GoesTo, Pcs, past, Places
  <2>3. Handful'
    BY <1>0, <1>4, <2>1, EmptyHandGoes DEF StartPrepares, At, Pcs
  <2> QED BY <2>2, <2>3
<1>5. CASE NextRule(c)
  <2>1. PICK p \in {"unlock", "launch"} : GoesTo(c, p)
    BY <1>5 DEF NextRule
  <2>2. rule' \in [Callers -> 0..Rules]
    BY <1>0, <1>5, ServiceAssumption DEF IInv, Typed, NextRule
  <2>3. Typed'
    <3>1. pc' \in [Callers -> Pcs]
      BY <1>0, <2>1 DEF IInv, Typed, GoesTo, Pcs
    <3>2. net' \subseteq {"table", "dnsmasq", "redirect"}
      BY <1>5 DEF IInv, Typed, NextRule, Redirected
    <3>3. UNCHANGED <<lock, dirs, file, alive, todo, ran, hand, past>>
      BY <1>5 DEF NextRule, files
    <3> QED BY <2>2, <3>1, <3>2, <3>3 DEF IInv, Typed, past
  <2>4. Handful'
    BY <1>0, <1>5, <2>1, EmptyHandGoes DEF NextRule, At, Pcs
  <2> QED BY <2>3, <2>4
<1>6. CASE UnsetLock(c)
  <2>1. PICK p \in {"stopped", "idle"} : GoesTo(c, p)
    BY <1>6 DEF UnsetLock
  <2>2. rule' \in [Callers -> 0..Rules]
    BY <1>0, <1>6, ServiceAssumption DEF IInv, Typed, UnsetLock
  <2>3. Typed'
    BY <1>0, <1>6, <2>1, <2>2 DEF IInv, Typed, UnsetLock, GoesTo, Pcs, Calls, files
  <2>4. Handful'
    BY <1>0, <1>6, <2>1, EmptyHandGoes DEF UnsetLock, At, Pcs
  <2> QED BY <2>3, <2>4
<1> QED BY <1>1, <1>2, <1>3, <1>4, <1>5, <1>6 DEF StartStep

LEMMA StopTyped ==
  ASSUME IInv, NEW c \in Admins, StopStep(c) \/ StopBegins(c)
  PROVE  Typed' /\ Handful'
<1>0. c \in Callers
  BY PlaceFacts
<1>1. /\ pc[c] \in {"idle", "wait", "kill", "remove", "clean"} /\ UNCHANGED hand
      /\ \E p \in {"wait", "kill", "remove", "clean", "unlock"} : GoesTo(c, p)
  BY DEF StopStep, StopBegins, Unlock, StopKills, StopRemoves, StopCleans, Idle, At
<1>2. Handful'
  BY <1>0, <1>1, EmptyHandGoes DEF Pcs
<1>3. pc' \in [Callers -> Pcs]
  BY <1>1 DEF IInv, Typed, GoesTo, Pcs
<1>4. CASE StopBegins(c)
  BY <1>2, <1>3, <1>4 DEF StopBegins, IInv, Typed, Calls, files, past
<1>5. CASE Unlock(c)
  <2>1. mishaps' \in 0..MaxMishaps
    <3>1. mishaps \in 0..MaxMishaps /\ MaxMishaps \in Nat
      BY ServiceAssumption DEF IInv, Typed
    <3>2. UNCHANGED mishaps \/ (mishaps < MaxMishaps /\ mishaps' = mishaps + 1)
      BY <1>5 DEF Unlock, Mishap
    <3> QED BY <3>1, <3>2
  <2>2. overrun' \subseteq Admins
    BY <1>5 DEF Unlock, UnderWay
  <2> QED BY <1>2, <1>3, <1>5, <2>1, <2>2 DEF Unlock, IInv, Typed, files
<1>6. CASE StopKills(c) \/ StopCleans(c)
  BY <1>2, <1>3, <1>6 DEF StopKills, StopCleans, IInv, Typed, files, past
<1>7. CASE StopRemoves(c)
  <2>1. disturbed' \subseteq Testers /\ lost' \subseteq Pids
    BY <1>7 DEF StopRemoves, IInv, Typed
  <2> QED BY <1>2, <1>3, <1>7, <2>1 DEF StopRemoves, IInv, Typed
<1> QED BY <1>2, <1>4, <1>5, <1>6, <1>7 DEF StopStep

LEMMA TestTyped ==
  ASSUME IInv, NEW n \in Testers, TestBegins(n) \/ TestStep(n)
  PROVE  Typed' /\ Handful'
<1>0. n \in Callers
  BY PlaceFacts
<1>1. /\ pc[n] \in {"idle", "test", "sweep"} /\ UNCHANGED hand
      /\ \E p \in {"launch", "sweep", "idle"} : GoesTo(n, p)
  BY DEF TestBegins, TestStep, TestKills, TestSweeps, Idle, At
<1>2. Handful'
  BY <1>0, <1>1, EmptyHandGoes DEF Pcs
<1>3. pc' \in [Callers -> Pcs]
  BY <1>1 DEF IInv, Typed, GoesTo, Pcs
<1>4. CASE TestBegins(n)
  <2>1. dirs' \subseteq Places
    BY <1>4, PlaceFacts DEF TestBegins, IInv, Typed
  <2> QED BY <1>2, <1>3, <1>4, <2>1 DEF TestBegins, IInv, Typed, Calls, past
<1>5. CASE TestKills(n)
  BY <1>2, <1>3, <1>5 DEF TestKills, IInv, Typed, files, past
<1>6. CASE TestSweeps(n)
  <2>1. disturbed' \subseteq Testers
    BY <1>6 DEF TestSweeps, Beside, IInv, Typed
  <2>2. file' \in [Places -> SUBSET Pids] /\ dirs' \subseteq Places
    BY <1>6 DEF TestSweeps, IInv, Typed
  <2> QED BY <1>2, <1>3, <1>6, <2>1, <2>2 DEF TestSweeps, IInv, Typed, Calls
<1> QED BY <1>2, <1>4, <1>5, <1>6 DEF TestStep

LEMMA KilledTyped ==
  ASSUME IInv, NEW c \in Callers, Killed(c)
  PROVE  Typed' /\ Handful'
<1>0. /\ pc' = [pc EXCEPT ![c] = "idle"] /\ todo' = [todo EXCEPT ![c] = "nothing"]
      /\ hand' = [hand EXCEPT ![c] = <<>>]
      /\ UNCHANGED <<lock, files, alive, net, last, overrun>>
  BY DEF Killed, GoesTo
<1>1. mishaps' \in 0..MaxMishaps /\ rule' \in [Callers -> 0..Rules] /\ ran' \in [Callers -> BOOLEAN]
  BY ServiceAssumption DEF Killed, IInv, Typed
<1>2. disturbed' \subseteq Testers /\ lost' \subseteq Pids
  BY DEF Killed, IInv, Typed
<1>3. pc' \in [Callers -> Pcs] /\ todo' \in [Callers -> Calls]
  BY <1>0 DEF IInv, Typed, Pcs, Calls
<1>4. hand' \in [Callers -> Seq(Pids)]
  BY <1>0 DEF IInv, Typed
<1>5. Typed'
  BY <1>0, <1>1, <1>2, <1>3, <1>4 DEF IInv, Typed, files
<1>6. Handful'
  BY <1>0 DEF IInv, Typed, Handful, At
<1> QED BY <1>5, <1>6

LEMMA TypedStep ==
  ASSUME IInv, Next
  PROVE  Typed' /\ Handful'
<1>1. CASE \E c \in Admins : (Idle(c) /\ StartBegins(c)) \/ StartStep(c)
  BY <1>1, StartTyped
<1>2. CASE \E c \in Admins : StopBegins(c) \/ StopStep(c)
  BY <1>2, StopTyped
<1>3. CASE \E n \in Testers : TestBegins(n) \/ TestStep(n)
  BY <1>3, TestTyped
<1>4. CASE \E c \in Callers : LauncherStep(c)
  BY <1>4, LaunchTyped, CheckTyped DEF LauncherStep
<1>5. CASE \E c \in Callers : Killed(c)
  BY <1>5, KilledTyped
<1> QED BY <1>1, <1>2, <1>3, <1>4, <1>5 DEF Next, Step

-----------------------------------------------------------------------------
\* A step is one of a script, and leaves where the others are alone.
Begins(c) == \/ c \in Admins /\ ((Idle(c) /\ StartBegins(c)) \/ StopBegins(c))
             \/ c \in Testers /\ TestBegins(c)

Acts(c) == Begins(c) \/ Step(c) \/ Killed(c)

OnlyOf(c) == \A d \in Callers \ {c} : UNCHANGED <<pc[d], todo[d], rule[d], ran[d], hand[d]>>

LEMMA SomebodyActs ==
  ASSUME Next
  PROVE  \E c \in Callers : Acts(c)
BY PlaceFacts DEF Next, Acts, Begins

LEMMA ActsForItself ==
  ASSUME IInv, NEW c \in Callers, Acts(c)
  PROVE  OnlyOf(c)
<1> SUFFICES ASSUME NEW d \in Callers \ {c}
             PROVE  UNCHANGED <<pc[d], todo[d], rule[d], ran[d], hand[d]>>
  BY DEF OnlyOf
<1>1. /\ pc \in [Callers -> Pcs] /\ todo \in [Callers -> Calls]
      /\ rule \in [Callers -> 0..Rules] /\ ran \in [Callers -> BOOLEAN]
      /\ hand \in [Callers -> Seq(Pids)]
  BY DEF IInv, Typed
<1>2. pc'[d] = pc[d]
  BY <1>1 DEF Acts, Begins, Step, LauncherStep, StartStep, StopStep, TestStep, GoesTo,
     StartBegins, StartPrepares, NextRule, Launch, CheckGood, CheckBad, LaunchDns, NoteDns,
     UnsetLock, StopBegins, Unlock, StopKills, StopRemoves, StopCleans, TestBegins,
     TestKills, TestSweeps, Killed
<1>3. todo'[d] = todo[d]
  BY <1>1 DEF Acts, Begins, Step, LauncherStep, StartStep, StopStep, TestStep,
     StartBegins, StartPrepares, NextRule, Launch, CheckGood, CheckBad, LaunchDns, NoteDns,
     UnsetLock, StopBegins, Unlock, StopKills, StopRemoves, StopCleans, TestBegins,
     TestKills, TestSweeps, Killed
<1>4. rule'[d] = rule[d] /\ ran'[d] = ran[d]
  BY <1>1 DEF Acts, Begins, Step, LauncherStep, StartStep, StopStep, TestStep,
     StartBegins, StartPrepares, NextRule, Launch, CheckGood, CheckBad, LaunchDns, NoteDns,
     UnsetLock, StopBegins, Unlock, StopKills, StopRemoves, StopCleans, TestBegins,
     TestKills, TestSweeps, Killed
<1>5. hand'[d] = hand[d]
  BY <1>1 DEF Acts, Begins, Step, LauncherStep, StartStep, StopStep, TestStep,
     StartBegins, StartPrepares, NextRule, Launch, CheckGood, CheckBad, LaunchDns, NoteDns,
     UnsetLock, StopBegins, Unlock, StopKills, StopRemoves, StopCleans, TestBegins,
     TestKills, TestSweeps, Killed
<1> QED BY <1>2, <1>3, <1>4, <1>5

Launches(c) == Launch(c) \/ (c \in Admins /\ LaunchDns(c))

-----------------------------------------------------------------------------
(***************************************************************************)
(* The process ids that are remembered, and that they suffice.             *)
(***************************************************************************)
Handed(x) == \E c \in Callers : \E i \in 1..Len(hand[c]) : hand[c][i] = x
UsedIs == \A x : x \in Used <=>
  x \in alive \/ (\E p \in Places : x \in file[p]) \/ Handed(x) \/ x \in lost

LEMMA UsedMeans == Typed => UsedIs
<1> SUFFICES ASSUME Typed PROVE UsedIs
  OBVIOUS
<1>1. ASSUME NEW x
      PROVE  /\ x \in Noted <=> \E p \in Places : x \in file[p]
             /\ x \in InHand <=> Handed(x)
  BY InHandOf DEF Noted, Handed
<1> QED BY <1>1 DEF UsedIs, Used

LEMMA UsedMeansNext == Typed' => UsedIs'
BY UsedMeans, PTL

\* A script that does not launch adds nothing to what is remembered.
LEMMA UsedShrinks ==
  ASSUME IInv, Typed', alive' \subseteq alive, lost' \subseteq lost \cup alive,
         \A p \in Places : \A x \in file'[p] : x \in file[p] \/ Handed(x),
         \A x : Handed(x)' => Handed(x)
  PROVE  Used' \subseteq Used
BY UsedMeans, UsedMeansNext DEF IInv, UsedIs

LEMMA UsedGrows ==
  ASSUME IInv, Typed', NEW pid, alive' \subseteq alive \cup {pid}, UNCHANGED <<file, lost>>,
         \A x : Handed(x)' => Handed(x) \/ x = pid
  PROVE  Used' \subseteq Used \cup {pid}
BY UsedMeans, UsedMeansNext DEF IInv, UsedIs

\* Emptying a hand remembers nothing new.
LEMMA HandEmptied ==
  ASSUME Typed, NEW c \in Callers, UNCHANGED hand \/ hand' = [hand EXCEPT ![c] = <<>>]
  PROVE  \A x : Handed(x)' => Handed(x)
<1>1. CASE UNCHANGED hand
  BY <1>1 DEF Handed
<1>2. CASE hand' = [hand EXCEPT ![c] = <<>>]
  <2>1. hand \in [Callers -> Seq(Pids)]
    BY DEF Typed
  <2>2. ASSUME NEW d \in Callers
        PROVE  hand'[d] = IF d = c THEN <<>> ELSE hand[d]
    BY <1>2, <2>1
  <2>3. ASSUME NEW x, NEW d \in Callers, NEW i \in 1..Len(hand'[d]), hand'[d][i] = x
        PROVE  Handed(x)
    <3>1. d # c
      <4>1. 1..Len(<<>>) = {}
        OBVIOUS
      <4> QED BY <2>2, <2>3, <4>1
    <3>2. hand'[d] = hand[d]
      BY <2>2, <3>1
    <3> QED BY <2>3, <3>2 DEF Handed
  <2> QED BY <2>3 DEF Handed
<1> QED BY <1>1, <1>2

\* Only a shell of the service loses programs: those it does not note.
LEMMA LostChanges ==
  ASSUME IInv, NEW c \in Callers, Acts(c)
  PROVE  /\ lost \subseteq lost' /\ lost' \subseteq lost \cup alive
         /\ \/ UNCHANGED lost
            \/ c \in Admins /\ (Killed(c) \/ CheckGood(c) \/ NoteDns(c) \/ StopRemoves(c))
<1>1. CASE Killed(c)
  BY <1>1, PlaceFacts DEF Killed
<1>2. CASE CheckGood(c) \/ (c \in Admins /\ NoteDns(c))
  <2>1. Note(c)
    BY <1>2 DEF CheckGood, NoteDns
  <2>2. c \in overrun => c \in Admins
    BY DEF IInv, Typed
  <2> QED BY <1>2, <2>1, <2>2 DEF Note
<1>3. CASE c \in Admins /\ StopRemoves(c)
  BY <1>3 DEF StopRemoves
<1>4. CASE /\ ~Killed(c) /\ ~CheckGood(c) /\ ~(c \in Admins /\ NoteDns(c))
           /\ ~(c \in Admins /\ StopRemoves(c))
  <2>1. UNCHANGED lost
    BY <1>4 DEF Acts, Begins, Step, LauncherStep, StartStep, StopStep, TestStep, past,
       StartBegins, StartPrepares, NextRule, Launch, CheckBad, LaunchDns,
       UnsetLock, StopBegins, Unlock, StopKills, StopCleans, TestBegins,
       TestKills, TestSweeps
  <2> QED BY <2>1
<1> QED BY <1>1, <1>2, <1>3, <1>4

\* A launch is the only step that does.
LEMMA UsedStep ==
  ASSUME IInv, Typed', NEW c \in Callers, Acts(c)
  PROVE  IF Launches(c) THEN Used' \subseteq Used \cup {FreshPid(Tag(c))}
                        ELSE Used' \subseteq Used
<1>1. CASE Launches(c)
  <2>1. Launch(c) \/ (c \in Admins /\ LaunchDns(c))
    BY <1>1 DEF Launches
  <2> DEFINE pid == FreshPid(Tag(c))
  <2>2. /\ alive' \subseteq alive \cup {pid} /\ UNCHANGED <<file, lost>>
        /\ hand' = [hand EXCEPT ![c] = Append(hand[c], pid)]
           \/ hand' = [hand EXCEPT ![c] = <<pid>>]
    BY <2>1, PlaceFacts DEF Launch, LaunchDns, files, past
  <2>3. hand \in [Callers -> Seq(Pids)] /\ pid \in Pids
    BY <2>1, LaunchPid DEF Launch, LaunchDns, IInv, Typed
  <2> HIDE DEF pid
  <2>4. ASSUME NEW x, Handed(x)'
        PROVE  Handed(x) \/ x = pid
    <3>1. PICK d \in Callers : \E i \in 1..Len(hand'[d]) : hand'[d][i] = x
      BY <2>4 DEF Handed
    <3>2. CASE d # c
      BY <2>2, <2>3, <3>1, <3>2 DEF Handed
    <3>3. CASE d = c /\ hand'[c] = <<pid>>
      BY <3>1, <3>3
    <3>4. CASE d = c /\ hand'[c] = Append(hand[c], pid)
      <4>1. PICK i \in 1..Len(Append(hand[c], pid)) : Append(hand[c], pid)[i] = x
        BY <3>1, <3>4
      <4>2. hand[c] \in Seq(Pids)
        BY <2>1, <2>3
      <4>3. i \in 1..Len(hand[c]) \/ i = Len(hand[c]) + 1
        BY <2>3, <4>1, <4>2, AppendFacts
      <4> QED BY <2>1, <2>3, <4>1, <4>2, <4>3, AppendFacts DEF Handed
    <3> QED BY <2>1, <2>2, <2>3, <3>2, <3>3, <3>4
  <2>5. Used' \subseteq Used \cup {pid}
    BY <2>2, <2>4, UsedGrows
  <2> QED BY <1>1, <2>5 DEF pid
<1>2. CASE CheckGood(c) \/ (c \in Admins /\ NoteDns(c))
  <2>1. CheckGood(c) \/ (c \in Admins /\ NoteDns(c))
    BY <1>2
  <2>2. /\ UNCHANGED alive
        /\ UNCHANGED file \/ file' = [file EXCEPT ![Place(c)] = @ \cup {Last(hand[c])}]
        /\ UNCHANGED hand \/ hand' = [hand EXCEPT ![c] = <<>>]
    <3>1. file \in [Places -> SUBSET Pids] /\ Place(c) \in Places /\ "service" \in Places
      BY PlaceFacts DEF IInv, Typed, Places
    <3>2. CASE CheckGood(c)
      BY <3>1, <3>2 DEF CheckGood, Note
    <3>3. CASE c \in Admins /\ NoteDns(c)
      BY <3>1, <3>3, PlaceFacts DEF NoteDns, Note
    <3> QED BY <2>1, <3>2, <3>3
  <2>3. Handed(Last(hand[c]))
    <3>1. Len(hand[c]) \in 1..Len(hand[c]) /\ Last(hand[c]) = hand[c][Len(hand[c])]
      BY <2>1, LastFacts DEF CheckGood, NoteDns
    <3> QED BY <3>1 DEF Handed
  <2>4. \A x : Handed(x)' => Handed(x)
    BY <2>2, HandEmptied DEF IInv
  <2>5. \A p \in Places : \A x \in file'[p] : x \in file[p] \/ Handed(x)
    <3>1. file \in [Places -> SUBSET Pids] /\ Place(c) \in Places
      BY PlaceFacts DEF IInv, Typed
    <3> DEFINE pid == Last(hand[c])
    <3>2. Handed(pid) /\ (UNCHANGED file \/ file' = [file EXCEPT ![Place(c)] = @ \cup {pid}])
      BY <2>2, <2>3
    <3> HIDE DEF pid
    <3>3. ASSUME NEW p \in Places
          PROVE  file'[p] \subseteq file[p] \cup {pid}
      BY <3>1, <3>2
    <3> QED BY <3>2, <3>3
  <2> QED BY <2>2, <2>4, <2>5, UsedShrinks, LostChanges
<1>3. CASE /\ alive' \subseteq alive
           /\ \A p \in Places : file'[p] \subseteq file[p]
           /\ UNCHANGED hand \/ hand' = [hand EXCEPT ![c] = <<>>]
  <2>1. \A x : Handed(x)' => Handed(x)
    BY <1>3, HandEmptied DEF IInv
  <2> QED BY <1>3, <2>1, UsedShrinks, LostChanges
<1>4. CASE c \in Admins /\ (\/ StartBegins(c) \/ StartPrepares(c) \/ NextRule(c)
                             \/ UnsetLock(c) \/ StopBegins(c) \/ Unlock(c)
                             \/ StopCleans(c) \/ StopKills(c))
  BY <1>3, <1>4 DEF StartBegins, StartPrepares, NextRule, UnsetLock, StopBegins, Unlock,
                    StopCleans, StopKills, files
<1>5. CASE StopRemoves(c)
  BY <1>3, <1>5 DEF StopRemoves
<1>6. CASE c \in Testers /\ (TestBegins(c) \/ TestStep(c))
  <2>0. file \in [Places -> SUBSET Pids]
    BY DEF IInv, Typed
  <2>1. \A p \in Places : file'[p] \subseteq file[p]
    <3>1. CASE UNCHANGED file
      BY <3>1
    <3>2. CASE file' = [file EXCEPT ![Place(c)] = {}]
      BY <2>0, <3>2
    <3> QED BY <1>6, <3>1, <3>2 DEF TestBegins, TestStep, TestKills, TestSweeps, files
  <2> QED BY <1>3, <1>6, <2>1 DEF TestBegins, TestStep, TestKills, TestSweeps
<1>7. CASE CheckBad(c) \/ Killed(c)
  BY <1>3, <1>7 DEF CheckBad, Killed, files
<1>8. Launches(c) \/ Used' \subseteq Used
  BY <1>2, <1>4, <1>5, <1>6, <1>7
     DEF Acts, Begins, Step, StartStep, StopStep, LauncherStep, Launches
<1> QED BY <1>1, <1>8

PidsCounted == \A tag \in Tags : /\ Cardinality(Taken(tag)) \in Nat
                                 /\ Cardinality(Taken(tag)) <= MaxPids[tag]

LEMMA PidsAreCounted == PidsCounted
BY TakenFacts DEF PidsCounted

LEMMA PidsCountedNext == PidsCounted'
BY PidsAreCounted, PTL

\* What a call needs, by the place it is at.
NeedsMeant(c) ==
  /\ Needs(c) \in Nat
  /\ c \in Testers => Needs(c) = IF pc[c] \in {"launch", "check"}
                                 THEN Checked - Len(hand[c]) ELSE 0
  /\ c \in Admins =>
       /\ pc[c] = "idle" \/ todo[c] = "stop" => Needs(c) = 0
       /\ todo[c] = "restart" \/ pc[c] = "status" => Needs(c) = Whole
       /\ pc[c] = "unlock" /\ todo[c] = "start" => Needs(c) = 0
       /\ pc[c] \in {"rule", "note"} => Needs(c) = Ahead(c)
       /\ pc[c] = "dns" => Needs(c) = Ahead(c) + 1
       /\ pc[c] \in {"launch", "check"} =>
            Needs(c) = Ahead(c) + 1 + Checked - Len(hand[c])

NeedsMeans == \A c \in Callers : NeedsMeant(c)

LEMMA NeedsAreMeant == Typed /\ Handful /\ Order => NeedsMeans
<1> SUFFICES ASSUME Typed, Handful, Order, NEW c \in Callers
             PROVE  NeedsMeant(c)
  BY DEF NeedsMeans
<1>1. Ahead(c) \in Nat /\ Whole \in Nat /\ Checked \in Nat
  BY RuleFacts, ServiceAssumption
<1>2. /\ hand[c] \in Seq(Pids) /\ Len(hand[c]) \in Nat
      /\ pc[c] \in {"launch", "check"} => Len(hand[c]) <= Checked
  <2>1. hand[c] \in Seq(Pids)
    BY DEF Typed
  <2>2. Len(hand[c]) \in Nat
    BY <2>1
  <2> QED BY <1>1, <2>1, <2>2 DEF Handful, At
<1>3. CASE c \in Testers
  BY <1>1, <1>2, <1>3, PlaceFacts DEF Needs, NeedsMeant
<1>4. CASE c \in Admins
  <2>1. c \notin Testers /\ Called(c)
    BY <1>4, PlaceFacts DEF Order, CalledRight
  <2>2. pc[c] = "idle" \/ todo[c] = "stop" => Needs(c) = 0
    BY <2>1 DEF Needs
  <2>3. todo[c] = "restart" \/ pc[c] = "status" => Needs(c) = Whole
    BY <2>1 DEF Needs, Called, Preparing, Stopping
  <2>4. pc[c] = "unlock" /\ todo[c] = "start" => Needs(c) = 0
    BY <2>1 DEF Needs
  <2>5. pc[c] \in {"rule", "note"} => Needs(c) = Ahead(c)
    BY <2>1 DEF Needs, Called, Preparing, Stopping
  <2>6. pc[c] = "dns" => Needs(c) = Ahead(c) + 1
    BY <2>1 DEF Needs, Called, Preparing, Stopping
  <2>7. pc[c] \in {"launch", "check"} => Needs(c) = Ahead(c) + 1 + Checked - Len(hand[c])
    BY <2>1 DEF Needs, Called, Preparing, Stopping
  <2>8. \/ pc[c] = "idle" \/ todo[c] = "stop"
        \/ todo[c] = "restart" \/ pc[c] = "status"
        \/ pc[c] = "unlock" /\ todo[c] = "start"
        \/ pc[c] \in {"rule", "note", "dns", "launch", "check"}
    BY <2>1 DEF Called, Preparing, Stopping
  <2>9. Needs(c) \in Nat
    BY <1>1, <1>2, <2>2, <2>3, <2>4, <2>5, <2>6, <2>7, <2>8
  <2> QED BY <1>4, <2>1, <2>2, <2>3, <2>4, <2>5, <2>6, <2>7, <2>9 DEF NeedsMeant
<1> QED BY <1>3, <1>4, PlaceFacts

LEMMA NeedsMeansNext == Typed' /\ Handful' /\ Order' => NeedsMeans'
BY NeedsAreMeant, PTL

\* The state after the step is known to be in order.
InOrder == Typed /\ Handful /\ Order

LEMMA LaunchNeeds ==
  ASSUME IInv, InOrder', NEW c \in Callers, Launches(c)
  PROVE  Needs(c)' = Needs(c) - 1 /\ Needs(c) \in Nat /\ Needs(c)' \in Nat
<1>1. NeedsMeant(c) /\ NeedsMeant(c)'
  BY NeedsAreMeant, NeedsMeansNext DEF NeedsMeans, InOrder, IInv
<1>2. UNCHANGED Ahead(c) /\ Ahead(c) \in Nat /\ Checked \in Nat
  BY RuleFacts, ServiceAssumption DEF Launches, Launch, LaunchDns, Ahead, IInv
<1>3. CASE Launch(c)
  <2>1. hand[c] \in Seq(Pids) /\ Place(c) \in Places /\ pc[c] = "launch"
    BY <1>3, PlaceFacts DEF IInv, Typed, Launch, At
  <2>2. FreshPid(Tag(c)) \in Pids
    BY <2>1, LaunchPid DEF At
  <2>3. pc'[c] = "check" /\ hand'[c] = Append(hand[c], FreshPid(Tag(c)))
    BY <1>3 DEF Launch, GoesTo, IInv, Typed
  <2>4. Len(hand'[c]) = Len(hand[c]) + 1 /\ Len(hand[c]) \in Nat
    BY <2>1, <2>2, <2>3, AppendFacts
  <2>5. CASE c \in Testers
    <3>1. Needs(c) = Checked - Len(hand[c]) /\ Needs(c)' = Checked - Len(hand'[c])
      BY <1>1, <2>1, <2>3, <2>5 DEF NeedsMeant
    <3>2. Needs(c) \in Nat /\ Needs(c)' \in Nat
      BY <1>1 DEF NeedsMeant
    <3> QED BY <1>2, <2>4, <3>1, <3>2
  <2>6. CASE c \in Admins
    <3>1. /\ Needs(c) = Ahead(c) + 1 + Checked - Len(hand[c])
          /\ Needs(c)' = Ahead(c) + 1 + Checked - Len(hand'[c])
      BY <1>1, <1>2, <2>1, <2>3, <2>6 DEF NeedsMeant
    <3>2. Needs(c) \in Nat /\ Needs(c)' \in Nat
      BY <1>1 DEF NeedsMeant
    <3> QED BY <1>2, <2>4, <3>1, <3>2
  <2> QED BY <2>5, <2>6, PlaceFacts
<1>4. CASE c \in Admins /\ LaunchDns(c)
  <2>1. pc[c] = "dns" /\ pc'[c] = "note"
    BY <1>4 DEF IInv, Typed, LaunchDns, At, GoesTo
  <2> QED BY <1>1, <1>2, <1>4, <2>1 DEF NeedsMeant
<1> QED BY <1>3, <1>4 DEF Launches

LEMMA CheckNeeds ==
  ASSUME IInv, InOrder', NEW c \in Callers, CheckGood(c) \/ CheckBad(c)
  PROVE  Needs(c)' <= Needs(c)
<1>1. NeedsMeant(c) /\ NeedsMeant(c)'
  BY NeedsAreMeant, NeedsMeansNext DEF NeedsMeans, InOrder, IInv
<1>2. UNCHANGED Ahead(c) /\ Ahead(c) \in Nat /\ Checked \in Nat
  BY RuleFacts, ServiceAssumption DEF CheckGood, CheckBad, Ahead, IInv
<1>3. pc[c] = "check" /\ Len(hand[c]) \in 1..Checked
  BY DEF CheckGood, CheckBad, At, IInv, Handful
<1>4. \/ pc'[c] = "launch" /\ hand'[c] = hand[c]
      \/ pc'[c] = Launched(c) /\ Len(hand[c]) = Checked
      \/ pc'[c] = Failed(c)
  BY DEF CheckGood, CheckBad, GoesTo, IInv, Typed
<1>5. CASE c \in Testers
  BY <1>1, <1>2, <1>3, <1>4, <1>5 DEF NeedsMeant, Launched, Failed
<1>6. CASE c \in Admins
  <2>1. c \notin Testers
    BY <1>6, PlaceFacts
  <2> QED BY <1>1, <1>2, <1>3, <1>4, <1>6, <2>1 DEF NeedsMeant, Launched, Failed
<1> QED BY <1>5, <1>6, PlaceFacts

LEMMA StartNeeds ==
  ASSUME IInv, InOrder', NEW c \in Admins, StartStep(c), ~LaunchDns(c)
  PROVE  Needs(c)' <= Needs(c)
<1>0. c \in Callers
  BY PlaceFacts
<1>1. NeedsMeant(c) /\ NeedsMeant(c)'
  BY <1>0, NeedsAreMeant, NeedsMeansNext DEF NeedsMeans, InOrder, IInv
<1>2. /\ Ahead(c) \in Nat /\ Ahead(c) <= Whole /\ Whole \in Nat /\ Whole' = Whole
      /\ Checked \in Nat
  BY <1>0, RuleFacts, ServiceAssumption DEF IInv, Whole
<1>3. Called(c)
  BY DEF IInv, Order, CalledRight
<1>4. CASE StartPrepares(c)
  <2>1. UNCHANGED Ahead(c) /\ pc[c] = "status" /\ pc'[c] \in {"rule", "unlock"}
        /\ todo'[c] = todo[c]
    BY <1>0, <1>4 DEF StartPrepares, Ahead, At, GoesTo, IInv, Typed
  <2>2. todo[c] = "start"
    BY <1>3, <2>1 DEF Called, Stopping
  <2> QED BY <1>1, <1>2, <2>1, <2>2 DEF NeedsMeant
<1>5. CASE NextRule(c)
  <2>1. /\ pc[c] = "rule" /\ todo'[c] = todo[c]
        /\ \/ /\ rule[c] < Rules /\ pc'[c] = "launch" /\ rule'[c] = rule[c] + 1
           \/ pc'[c] = "unlock"
    BY <1>0, <1>5 DEF NextRule, At, GoesTo, IInv, Typed
  <2>2. todo[c] = "start"
    BY <1>3, <2>1 DEF Called, Stopping
  <2>3. CASE pc'[c] = "unlock"
    BY <1>1, <1>2, <2>1, <2>2, <2>3 DEF NeedsMeant
  <2>4. CASE rule[c] < Rules /\ pc'[c] = "launch" /\ rule'[c] = rule[c] + 1
    <3>1. hand'[c] = <<>>
      BY <1>0, <1>5, <2>1 DEF NextRule, IInv, Handful
    <3>2. Len(hand'[c]) = 0
      BY <3>1
    <3>3. Ahead(c)' = (Rules - (rule[c] + 1)) * (Checked + 1)
      BY <2>4 DEF Ahead
    <3>4. Ahead(c) = Ahead(c)' + 1 + Checked
      BY <1>0, <2>4, <3>3, RuleFacts DEF IInv
    <3>5. Needs(c) = Ahead(c) /\ Needs(c)' = Ahead(c)' + 1 + Checked - 0
      BY <1>1, <2>1, <2>4, <3>2 DEF NeedsMeant
    <3>6. Ahead(c)' \in Int
      <4>1. rule[c] \in 0..Rules /\ Rules \in Nat
        BY <1>0, ServiceAssumption DEF IInv, Typed
      <4> QED BY <1>2, <3>3, <4>1
    <3> QED BY <1>2, <3>4, <3>5, <3>6
  <2> QED BY <2>1, <2>3, <2>4
<1>6. CASE NoteDns(c)
  <2>1. UNCHANGED Ahead(c) /\ pc[c] = "note" /\ pc'[c] = "rule"
    BY <1>0, <1>6 DEF NoteDns, Ahead, At, GoesTo, IInv, Typed
  <2> QED BY <1>1, <1>2, <2>1 DEF NeedsMeant
<1>7. CASE UnsetLock(c)
  <2>1. \/ pc'[c] = "idle"
        \/ todo[c] = "restart" /\ todo'[c] = "restart"
    BY <1>0, <1>7 DEF UnsetLock, GoesTo, IInv, Typed
  <2> QED BY <1>1, <1>2, <2>1 DEF NeedsMeant
<1>8. CASE At(c, "stopped") /\ StartBegins(c)
  <2>1. pc'[c] = "status"
    BY <1>0, <1>8 DEF StartBegins, GoesTo, IInv, Typed
  <2>2. todo[c] = "restart"
    BY <1>3, <1>8 DEF Called, At, Preparing, Stopping
  <2> QED BY <1>1, <1>2, <2>1, <2>2 DEF NeedsMeant
<1> QED BY <1>4, <1>5, <1>6, <1>7, <1>8 DEF StartStep

LEMMA StopNeeds ==
  ASSUME IInv, InOrder', NEW c \in Admins, StopStep(c)
  PROVE  Needs(c)' <= Needs(c)
<1>0. c \in Callers
  BY PlaceFacts
<1>1. NeedsMeant(c) /\ NeedsMeant(c)'
  BY <1>0, NeedsAreMeant, NeedsMeansNext DEF NeedsMeans, InOrder, IInv
<1>2. Whole \in Nat /\ Whole' = Whole
  BY <1>0, RuleFacts DEF IInv, Whole
<1>3. pc[c] \in Stopping \cup {"wait"} /\ todo'[c] = todo[c]
  BY DEF StopStep, Unlock, StopKills, StopRemoves, StopCleans, At, Stopping
<1>4. todo[c] \in {"stop", "restart"}
  BY <1>3 DEF IInv, Order, CalledRight, Called, Stopping, Preparing
<1> QED BY <1>1, <1>2, <1>3, <1>4 DEF NeedsMeant

\* A call begins only if the pids it may need are left.
Enough(c) == Cardinality(Taken(Tag(c))) + Needs(c)' <= MaxPids[Tag(c)]

LEMMA BeginsNeeds ==
  ASSUME IInv, InOrder', NEW c \in Callers, Begins(c), ~Restarting(c)'
  PROVE  Enough(c)
<1>1. NeedsMeant(c)'
  BY NeedsMeansNext DEF NeedsMeans, InOrder
<1>2. Whole \in Nat /\ Whole' = Whole /\ Checked \in Nat
  BY RuleFacts, ServiceAssumption DEF IInv, Whole
<1>3. /\ Cardinality(Taken(Tag(c))) \in Nat /\ Cardinality(Taken(Tag(c))) <= MaxPids[Tag(c)]
      /\ MaxPids[Tag(c)] \in Nat
  BY TakenFacts, PlaceFacts
<1>4. CASE c \in Admins /\ Idle(c) /\ StartBegins(c)
  <2>1. Tag(c) = "service" /\ RoomToStart /\ pc'[c] = "status"
    BY <1>4, PlaceFacts DEF StartBegins, Idle, At, GoesTo, IInv, Typed
  <2> QED BY <1>1, <1>2, <1>3, <1>4, <2>1 DEF NeedsMeant, Enough, RoomToStart, Room, Whole
<1>5. CASE c \in Admins /\ StopBegins(c)
  <2>1. pc'[c] = "wait" /\ (todo'[c] = "stop" \/ todo'[c] = "restart")
    BY <1>5, PlaceFacts DEF StopBegins, GoesTo, IInv, Typed
  <2>2. todo'[c] = "stop"
    BY <2>1 DEF Restarting
  <2> QED BY <1>1, <1>3, <1>5, <2>2 DEF NeedsMeant, Enough
<1>6. CASE c \in Testers /\ TestBegins(c)
  <2>1. Tag(c) = c /\ Room(c, Checked)
    BY <1>6, PlaceFacts DEF TestBegins
  <2>2. pc'[c] = "launch"
    BY <1>6 DEF TestBegins, GoesTo, IInv, Typed
  <2>3. hand'[c] = <<>> /\ Len(<<>>) = 0
    BY <1>6 DEF TestBegins, Idle, At, IInv, Handful
  <2>4. Needs(c)' = Checked - 0
    BY <1>1, <1>6, <2>2, <2>3 DEF NeedsMeant
  <2> QED BY <1>2, <1>3, <2>1, <2>4 DEF Enough, Room
<1> QED BY <1>4, <1>5, <1>6 DEF Begins

\* Of one script only: what the others need does not change.
LEMMA NeedsOfOthers ==
  ASSUME NEW d \in Callers, UNCHANGED <<pc[d], todo[d], rule[d], hand[d]>>
  PROVE  Needs(d)' = Needs(d)
BY DEF Needs, Ahead, Whole

LEMMA ActorNeeds ==
  ASSUME IInv, InOrder', NEW c \in Callers, Acts(c), ~Restarting(c)'
  PROVE  \/ Launches(c) /\ Needs(c)' = Needs(c) - 1
         \/ ~Launches(c) /\ (Needs(c)' <= Needs(c) \/ Enough(c))
<1>1. CASE Launches(c)
  BY <1>1, LaunchNeeds
<1>2. CASE ~Launches(c) /\ Begins(c)
  BY <1>2, BeginsNeeds
<1>3. CASE ~Launches(c) /\ Killed(c)
  <2>1. pc'[c] = "idle"
    BY <1>3 DEF Killed, GoesTo, IInv, Typed
  <2>2. NeedsMeant(c) /\ NeedsMeant(c)'
    BY NeedsAreMeant, NeedsMeansNext DEF NeedsMeans, InOrder, IInv
  <2> QED BY <1>3, <2>1, <2>2, PlaceFacts DEF NeedsMeant
<1>4. CASE ~Launches(c) /\ Step(c)
  <2>1. CASE LauncherStep(c)
    BY <1>4, <2>1, CheckNeeds DEF LauncherStep, Launches
  <2>2. CASE c \in Admins /\ (StartStep(c) \/ StopStep(c))
    BY <1>4, <2>2, StartNeeds, StopNeeds DEF Launches
  <2>3. CASE c \in Testers /\ TestStep(c)
    <3>1. pc'[c] \in {"sweep", "idle"}
      BY <2>3 DEF TestStep, TestKills, TestSweeps, GoesTo, IInv, Typed
    <3>2. NeedsMeant(c) /\ NeedsMeant(c)'
      BY NeedsAreMeant, NeedsMeansNext DEF NeedsMeans, InOrder, IInv
    <3> QED BY <1>4, <2>3, <3>1, <3>2 DEF NeedsMeant
  <2> QED BY <1>4, <2>1, <2>2, <2>3 DEF Step
<1> QED BY <1>1, <1>2, <1>3, <1>4 DEF Acts

\* While a restart has not removed the pid file, nothing is lost.
LEMMA RestartKeepsRoom ==
  ASSUME IInv, InOrder', NEW c \in Callers, Acts(c), NEW d \in Callers, Restarting(d)'
  PROVE  RoomToRestart'
<1>0. /\ pc \in [Callers -> Pcs] /\ todo \in [Callers -> Calls]
  BY DEF IInv, Typed
<1>1. d \in Admins
  BY PlaceFacts DEF InOrder, Order, CalledRight, Restarting
<1>2. RoomToRestart /\ UNCHANGED lost => RoomToRestart'
  BY DEF RoomToRestart, Numbers
<1>3. Restarting(d) => RoomToRestart
  BY DEF IInv, Counted
<1>4. CASE d = c
  <2>1. c \notin Testers /\ pc'[c] \in {"wait", "kill", "remove"}
    BY <1>1, <1>4, PlaceFacts DEF Restarting
  <2>2. CASE StopBegins(c)
    <3>1. RoomToRestart /\ UNCHANGED lost
      BY <1>0, <1>4, <2>2 DEF StopBegins, Restarting, past
    <3> QED BY <1>2, <3>1
  <2>3. CASE Unlock(c) \/ StopKills(c)
    <3>1. Restarting(c) /\ UNCHANGED lost
      BY <1>0, <1>4, <2>3 DEF Unlock, StopKills, Restarting, At, past
    <3> QED BY <1>2, <1>3, <1>4, <3>1
  <2>4. CASE ~StopBegins(c) /\ ~Unlock(c) /\ ~StopKills(c)
    <3>1. pc'[c] \notin {"wait", "kill", "remove"}
      BY <1>0, <2>1, <2>4 DEF Acts, Begins, StartBegins, Step, LauncherStep, StartStep,
         StopStep, StartPrepares, NextRule, Launch, CheckGood, CheckBad, LaunchDns, NoteDns,
         UnsetLock, StopRemoves, StopCleans, Killed, GoesTo, Launched, Failed
    <3> QED BY <2>1, <3>1
  <2> QED BY <2>2, <2>3, <2>4
<1>5. CASE d # c
  <2>1. Restarting(d)
    BY <1>5, ActsForItself DEF OnlyOf, Restarting
  <2>2. UNCHANGED lost
    <3>1. CASE c \in Admins
      <4>1. Idle(c)
        BY <1>1, <1>5, <2>1, <3>1, Others DEF IInv, Restarting
      <4> QED BY <4>1, LostChanges DEF Killed, CheckGood, NoteDns, StopRemoves, Idle, At
    <3>2. CASE c \notin Admins
      BY <3>2, LostChanges
    <3> QED BY <3>1, <3>2
  <2> QED BY <1>2, <1>3, <2>1, <2>2
<1> QED BY <1>4, <1>5

\* The stop of a restart leaves no pid of the service but those that were lost.
LEMMA RestartRemoves ==
  ASSUME IInv, Typed', NEW c \in Admins, StopRemoves(c), todo[c] = "restart"
  PROVE  Taken("service")' \subseteq Numbers("service", lost)
<1> SUFFICES ASSUME NEW x, x \in Used', x[1] = "service"
             PROVE  x \in lost
  BY DEF Taken, Numbers
<1>0. pc[c] = "remove" /\ overrun = {} /\ UNCHANGED <<alive, hand, lost>>
      /\ \A p \in Places : file'[p] = {}
  BY DEF StopRemoves, At, IInv, Order, Patient
<1>1. \A d \in Admins : hand[d] = <<>>
  <2>1. \A d \in Admins \ {c} : Idle(d)
    BY Others DEF IInv
  <2> QED BY <1>0, <2>1, PlaceFacts DEF IInv, Handful, Idle, At
<1>2. Len(<<>>) = 0 /\ 1..0 = {} /\ ToSet(<<>>) = {}
  BY DEF ToSet
<1>3. ~Handed(x)'
  <2> SUFFICES ASSUME NEW d \in Callers, NEW i \in 1..Len(hand[d]), hand[d][i] = x
               PROVE  FALSE
    BY <1>0 DEF Handed
  <2>1. Tag(d) = "service"
    BY DEF IInv, Pidful, OwnPids
  <2>2. d \in Admins
    BY <2>1, PlaceFacts
  <2> QED BY <1>1, <1>2, <2>2
<1>4. ASSUME x \in alive
      PROVE  x \in lost
  <2>1. x \in file["service"] \/ x \in lost \/ \E d \in Admins : x \in ToSet(hand[d])
    BY <1>4 DEF IInv, KnownOrDead, ServicePids
  <2>2. alive \cap file["service"] = {}
    BY <1>0 DEF IInv, StopsSoFar, At
  <2> QED BY <1>1, <1>2, <1>4, <2>1, <2>2
<1>5. x \in alive' \/ (\E p \in Places : x \in file'[p]) \/ Handed(x)' \/ x \in lost'
  BY UsedMeansNext DEF UsedIs
<1> QED BY <1>0, <1>3, <1>4, <1>5

\* A restart that has removed the pid file has room for what it starts.
LEMMA RestartHasRoom ==
  ASSUME IInv, InOrder', NEW c \in Callers, Acts(c), Restarting(c), ~Restarting(c)'
  PROVE  Cardinality(Taken(Tag(c))') + Needs(c)' <= MaxPids[Tag(c)]
<1>0. /\ pc \in [Callers -> Pcs] /\ todo \in [Callers -> Calls]
      /\ c \in Admins /\ c \notin Testers /\ Tag(c) = "service" /\ "service" \in Tags
      /\ MaxPids["service"] \in Nat
  <2>1. c \in Admins
    BY PlaceFacts DEF IInv, Order, CalledRight, Restarting
  <2> QED BY <2>1, PlaceFacts DEF IInv, Typed
<1>1. NeedsMeant(c)'
  BY NeedsMeansNext DEF NeedsMeans, InOrder
<1>2. Cardinality(Taken("service")') \in Nat /\ Cardinality(Taken("service")') <= MaxPids["service"]
  BY <1>0, PidsCountedNext DEF PidsCounted
<1>3. CASE Killed(c)
  <2>1. pc'[c] = "idle"
    BY <1>0, <1>3 DEF Killed, GoesTo
  <2> QED BY <1>0, <1>1, <1>2, <2>1 DEF NeedsMeant
<1>4. CASE StopRemoves(c)
  <2>1. todo'[c] = "restart" /\ Whole \in Nat /\ Whole' = Whole
    BY <1>4, RuleFacts DEF StopRemoves, Restarting, IInv, Whole
  <2>2. Needs(c)' = Whole
    BY <1>0, <1>1, <2>1 DEF NeedsMeant
  <2>3. Taken("service")' \subseteq Numbers("service", lost)
    BY <1>0, <1>4, RestartRemoves DEF InOrder, Restarting
  <2>4. /\ Cardinality(Taken("service")') <= Cardinality(Numbers("service", lost))
        /\ Cardinality(Numbers("service", lost)) \in Nat
    BY <1>0, <2>3, NumbersFacts, FS_Subset
  <2>5. Cardinality(Numbers("service", lost)) + Whole <= MaxPids["service"]
    BY DEF IInv, Counted, RoomToRestart, Whole
  <2> QED BY <1>0, <1>2, <2>1, <2>2, <2>4, <2>5
<1>5. CASE ~Killed(c) /\ ~StopRemoves(c)
  <2>1. ~Begins(c)
    BY <1>0 DEF Begins, StartBegins, StopBegins, Restarting, Idle, At
  <2>2. Unlock(c) \/ StopKills(c)
    BY <1>0, <1>5, <2>1 DEF Acts, Step, LauncherStep, StartStep, StopStep,
       StartPrepares, NextRule, Launch, CheckGood, CheckBad, LaunchDns, NoteDns, UnsetLock,
       StartBegins, StopCleans, Restarting, At
  <2>3. Restarting(c)'
    BY <1>0, <2>2 DEF Unlock, StopKills, Restarting, GoesTo
  <2> QED BY <2>3
<1> QED BY <1>3, <1>4, <1>5

LEMMA CountedStep ==
  ASSUME IInv, InOrder', NEW c \in Callers, Acts(c)
  PROVE  Counted'
<1> SUFFICES ASSUME NEW d \in Callers, ~Restarting(d)'
             PROVE  Cardinality(Taken(Tag(d))') + Needs(d)' <= MaxPids[Tag(d)]
  BY RestartKeepsRoom DEF Counted, Room, Tag
<1>0. CASE Restarting(d)
  <2>1. d = c
    BY <1>0, ActsForItself DEF OnlyOf, Restarting
  <2> QED BY <1>0, <2>1, RestartHasRoom
<1> DEFINE n == Cardinality(Taken(Tag(d)))
           m == Cardinality(Taken(Tag(d))')
           max == MaxPids[Tag(d)]
<1>1. /\ n \in Nat /\ n <= max /\ m \in Nat /\ m <= max /\ max \in Nat
  BY PidsAreCounted, PidsCountedNext, PlaceFacts DEF PidsCounted, Tag
<1>2. ~Restarting(d) => Needs(d) \in Nat /\ Needs(d)' \in Nat /\ n + Needs(d) <= max
  BY NeedsAreMeant, NeedsMeansNext, RoomOf DEF NeedsMeans, NeedsMeant, InOrder, IInv
<1>3. d # c => Needs(d)' = Needs(d)
  BY ActsForItself, NeedsOfOthers DEF OnlyOf
<1>4. CASE ~Restarting(d) /\ ~Launches(c)
  <2>1. m <= n
    BY <1>4, UsedStep, TakenShrinks, PlaceFacts DEF InOrder
  <2>2. d = c => Needs(d)' <= Needs(d) \/ n + Needs(d)' <= max
    BY <1>4, ActorNeeds DEF Enough
  <2> QED BY <1>1, <1>2, <1>3, <1>4, <2>1, <2>2
<1>5. CASE ~Restarting(d) /\ Launches(c)
  <2>1. /\ Used' \subseteq Used \cup {FreshPid(Tag(c))}
        /\ Cardinality(Taken(Tag(c))) < MaxPids[Tag(c)] /\ Tag(c) \in Tags /\ Tag(d) \in Tags
    BY <1>5, UsedStep, LaunchPid, PlaceFacts DEF InOrder, Launches, Launch, LaunchDns
  <2>2. /\ Tag(d) = Tag(c) => m <= n + 1
        /\ Tag(d) # Tag(c) => m <= n
    BY <2>1, TakenGrows
  <2>3. CASE d = c
    <3>1. Needs(d)' = Needs(d) - 1
      BY <1>5, <2>3, ActorNeeds
    <3> QED BY <1>1, <1>2, <1>5, <2>2, <2>3, <3>1
  <2>4. CASE d # c /\ Tag(d) # Tag(c)
    BY <1>1, <1>2, <1>3, <1>5, <2>2, <2>4
  <2>5. CASE d # c /\ Tag(d) = Tag(c)
    <3>1. c \in Admins /\ d \in Admins
      BY <2>5, PlaceFacts
    <3>2. todo[c] = "start"
      BY <1>5, <3>1 DEF Launches, Launch, LaunchDns, At, IInv, Order, CalledRight, Called,
                        Stopping
    <3>3. Idle(d) \/ todo[d] = "stop"
      BY <2>5, <3>1, <3>2, Others DEF IInv
    <3>4. Needs(d) = 0
      BY <3>1, <3>3, NeedsAreMeant DEF NeedsMeans, NeedsMeant, IInv, Idle, At
    <3> QED BY <1>1, <1>2, <1>3, <1>5, <2>5, <3>4
  <2> QED BY <2>3, <2>4, <2>5
<1> QED BY <1>0, <1>4, <1>5

-----------------------------------------------------------------------------
(***************************************************************************)
(* What a step does to the pid files, the hands, the programs that run and *)
(* those that are lost.                                                    *)
(***************************************************************************)
Notes(c) == CheckGood(c) \/ (c \in Admins /\ NoteDns(c))

LEMMA FileChanges ==
  ASSUME IInv, NEW c \in Callers, Acts(c)
  PROVE  \/ UNCHANGED file /\ (Notes(c) => Place(c) \notin dirs)
         \/ Notes(c) /\ file' = [file EXCEPT ![Place(c)] = @ \cup {Last(hand[c])}]
         \/ c \in Admins /\ StopRemoves(c) /\ file' = [p \in Places |-> {}]
         \/ c \in Testers /\ TestSweeps(c) /\ file' = [file EXCEPT ![Place(c)] = {}]
<1>1. CASE Notes(c)
  <2>1. file \in [Places -> SUBSET Pids] /\ Place(c) \in Places
    BY PlaceFacts DEF IInv, Typed
  <2>2. Note(c)
    BY <1>1 DEF Notes, CheckGood, NoteDns
  <2>3. file' = [file EXCEPT ![Place(c)] =
                   IF Place(c) \in dirs THEN @ \cup {Last(hand[c])} ELSE @]
    BY <2>2 DEF Note
  <2>4. CASE Place(c) \in dirs
    BY <1>1, <2>3, <2>4
  <2>5. CASE Place(c) \notin dirs
    BY <2>1, <2>3, <2>5
  <2> QED BY <2>4, <2>5
<1>2. CASE ~Notes(c)
  BY <1>2 DEF Notes, Acts, Begins, Step, LauncherStep, StartStep, StopStep, TestStep, files,
     StartBegins, StartPrepares, NextRule, Launch, CheckBad, LaunchDns, UnsetLock,
     StopBegins, Unlock, StopKills, StopRemoves, StopCleans, TestBegins, TestKills,
     TestSweeps, Killed
<1> QED BY <1>1, <1>2

\* A script that launches adds the new pid to its hand.
LEMMA LaunchHand ==
  ASSUME IInv, NEW c \in Callers, Launches(c)
  PROVE  hand' = [hand EXCEPT ![c] = Append(@, FreshPid(Tag(c)))]
<1>1. CASE Launch(c)
  BY <1>1 DEF Launch
<1>2. CASE c \in Admins /\ LaunchDns(c)
  <2>1. hand[c] = <<>> /\ hand \in [Callers -> Seq(Pids)] /\ Place(c) = "service"
    BY <1>2, PlaceFacts DEF LaunchDns, At, IInv, Typed, Handful
  <2>2. \A x : Append(<<>>, x) = <<x>>
    OBVIOUS
  <2>3. hand' = [hand EXCEPT ![c] = <<FreshPid("service")>>] /\ Tag(c) = "service"
    BY <1>2, PlaceFacts DEF LaunchDns
  <2> DEFINE pid == FreshPid("service")
  <2> HIDE DEF pid
  <2>4. hand' = [hand EXCEPT ![c] = <<pid>>] /\ Append(hand[c], pid) = <<pid>>
    BY <2>1, <2>2, <2>3 DEF pid
  <2>5. hand' = [hand EXCEPT ![c] = Append(@, pid)]
    BY <2>1, <2>4
  <2> QED BY <2>3, <2>5 DEF pid
<1> QED BY <1>1, <1>2 DEF Launches

LEMMA HandChanges ==
  ASSUME IInv, NEW c \in Callers, Acts(c)
  PROVE  \/ Launches(c) /\ hand' = [hand EXCEPT ![c] = Append(@, FreshPid(Tag(c)))]
         \/ /\ Notes(c) \/ CheckBad(c) \/ Killed(c)
            /\ hand' = [hand EXCEPT ![c] = <<>>]
         \/ UNCHANGED hand /\ ~Launches(c) /\ ~CheckBad(c)
<1>1. CASE Launches(c)
  BY <1>1, LaunchHand
<1>2. CASE ~Launches(c)
  BY <1>2 DEF Launches, Notes, Acts, Begins, Step, LauncherStep, StartStep, StopStep, TestStep,
     StartBegins, StartPrepares, NextRule, CheckGood, CheckBad, NoteDns, UnsetLock,
     StopBegins, Unlock, StopKills, StopRemoves, StopCleans, TestBegins, TestKills,
     TestSweeps, Killed, At
<1> QED BY <1>1, <1>2

LEMMA AliveChanges ==
  ASSUME IInv, NEW c \in Callers, Acts(c)
  PROVE  \/ UNCHANGED alive /\ ~CheckBad(c) /\ ~(c \in Admins /\ StopKills(c))
            /\ ~(c \in Testers /\ TestKills(c))
         \/ Launches(c) /\ alive' = alive \cup {FreshPid(Tag(c))}
         \/ CheckBad(c) /\ alive' = alive \ ToSet(hand[c])
         \/ c \in Admins /\ StopKills(c) /\ alive' = alive \ file["service"]
         \/ c \in Testers /\ TestKills(c) /\ alive' = alive \ file[Place(c)]
<1>1. CASE Launches(c)
  <2>1. pc[c] \in {"launch", "dns"}
    BY <1>1 DEF Launches, Launch, LaunchDns, At
  <2>2. ~CheckBad(c) /\ ~StopKills(c) /\ ~TestKills(c)
    BY <2>1 DEF CheckBad, StopKills, TestKills, At
  <2>3. CASE Launch(c)
    BY <1>1, <2>2, <2>3 DEF Launch
  <2>4. CASE c \in Admins /\ LaunchDns(c)
    <3>1. Tag(c) = "service"
      BY <2>4, PlaceFacts
    <3> QED BY <1>1, <2>2, <2>4, <3>1 DEF LaunchDns
  <2> QED BY <1>1, <2>3, <2>4 DEF Launches
<1>2. CASE CheckBad(c) \/ (c \in Admins /\ StopKills(c)) \/ (c \in Testers /\ TestKills(c))
  BY <1>2 DEF CheckBad, StopKills, TestKills
<1>3. CASE ~Launches(c) /\ ~CheckBad(c) /\ ~(c \in Admins /\ StopKills(c))
           /\ ~(c \in Testers /\ TestKills(c))
  <2>1. UNCHANGED alive
    BY <1>3 DEF Launches, Acts, Begins, Step, LauncherStep, StartStep, StopStep, TestStep,
       StartBegins, StartPrepares, NextRule, CheckGood, NoteDns, UnsetLock, StopBegins,
       Unlock, StopRemoves, StopCleans, TestBegins, TestSweeps, Killed
  <2> QED BY <1>3, <2>1
<1> QED BY <1>1, <1>2, <1>3

LEMMA DisturbedChanges ==
  ASSUME IInv, NEW c \in Callers, Acts(c)
  PROVE  /\ disturbed \subseteq disturbed'
         /\ Killed(c) /\ c \in Testers => c \in disturbed'
         /\ c \in Admins /\ StopRemoves(c) => \A t \in Testers : Idle(t) \/ t \in disturbed'
         /\ c \in Testers /\ TestSweeps(c) =>
              \A t \in Testers \ {c} : Idle(t) \/ t \in disturbed' \/ Place(t) # Place(c)
<1>1. CASE Killed(c) \/ (c \in Admins /\ StopRemoves(c)) \/ (c \in Testers /\ TestSweeps(c))
  <2>1. \A t \in Testers : Place(t) = NodeOf[t] /\ t \notin Admins
    BY PlaceFacts
  <2> QED BY <1>1, <2>1 DEF Killed, StopRemoves, TestSweeps, Beside, Idle, At
<1>2. CASE ~Killed(c) /\ ~(c \in Admins /\ StopRemoves(c)) /\ ~(c \in Testers /\ TestSweeps(c))
  <2>1. UNCHANGED disturbed
    BY <1>2 DEF Acts, Begins, Step, LauncherStep, StartStep, StopStep, TestStep, past,
       StartBegins, StartPrepares, NextRule, Launch, CheckGood, CheckBad, LaunchDns, NoteDns,
       UnsetLock, StopBegins, Unlock, StopKills, StopCleans, TestBegins, TestKills
  <2> QED BY <1>2, <2>1
<1> QED BY <1>1, <1>2

\* A pid in the hand of the script after its step was there before, or was
\* launched by it.
LEMMA HandPids ==
  ASSUME IInv, NEW c \in Callers, Acts(c), NEW i \in 1..Len(hand'[c])
  PROVE  \/ i \in 1..Len(hand[c]) /\ hand'[c][i] = hand[c][i]
         \/ Launches(c) /\ i = Len(hand'[c]) /\ hand'[c][i] = FreshPid(Tag(c))
<1> DEFINE pid == FreshPid(Tag(c))
<1>1. hand \in [Callers -> Seq(Pids)] /\ hand[c] \in Seq(Pids)
  BY DEF IInv, Typed
<1>2. CASE Launches(c) /\ hand' = [hand EXCEPT ![c] = Append(@, pid)]
  <2>1. pid \in Pids
    BY <1>2, LaunchPid DEF Launches, Launch, LaunchDns
  <2> HIDE DEF pid
  <2>2. hand'[c] = Append(hand[c], pid)
    BY <1>1, <1>2
  <2>3. Len(hand'[c]) = Len(hand[c]) + 1 /\ Len(hand[c]) \in Nat
    BY <1>1, <2>1, <2>2, AppendFacts
  <2>4. i \in 1..Len(hand[c]) \/ i = Len(hand[c]) + 1
    BY <2>3
  <2> QED BY <1>1, <1>2, <2>1, <2>2, <2>3, <2>4, AppendFacts DEF pid
<1>3. CASE hand' = [hand EXCEPT ![c] = <<>>]
  <2>1. hand'[c] = <<>>
    BY <1>1, <1>3
  <2>2. Len(<<>>) = 0
    OBVIOUS
  <2> QED BY <2>1, <2>2
<1>4. CASE UNCHANGED hand
  BY <1>4
<1> QED BY <1>2, <1>3, <1>4, HandChanges

\* Who holds pids: a script that launches, and of the shells only one.
LEMMA HoldersFacts ==
  ASSUME IInv, NEW c \in Callers, NEW i \in 1..Len(hand[c])
  PROVE  pc[c] \in {"launch", "check", "note"} /\ ~Idle(c) /\ (c \in Admins => todo[c] = "start")
<1>1. hand[c] # <<>>
  <2>1. Len(<<>>) = 0
    OBVIOUS
  <2> QED BY <2>1
<1>2. pc[c] \in {"launch", "check", "note"}
  BY <1>1 DEF IInv, Handful
<1> QED BY <1>2 DEF IInv, Order, CalledRight, Called, Stopping, Idle, At

LEMMA OwnPidsStep ==
  ASSUME IInv, NEW c \in Callers, Acts(c)
  PROVE  OwnPids'
<1> DEFINE Fits(p, x) == IF p = "service" THEN x[1] = "service"
                         ELSE \E t \in Testers : NodeOf[t] = p /\ x[1] = t
<1>0. /\ file \in [Places -> SUBSET Pids] /\ Places = Nodes \cup {"service"}
      /\ "service" \notin Nodes
  BY ServiceAssumption DEF IInv, Typed, Places
<1>1. ASSUME NEW p \in Places, NEW x \in file'[p]
      PROVE  Fits(p, x)
  <2>0. x \in file[p] => Fits(p, x)
    BY <1>0 DEF IInv, Pidful, OwnPids
  <2>1. CASE Notes(c) /\ file' = [file EXCEPT ![Place(c)] = @ \cup {Last(hand[c])}]
    <3>1. Last(hand[c])[1] = Tag(c) /\ Place(c) \in Places
      BY <2>1, LastFacts, PlaceFacts DEF Notes, CheckGood, NoteDns
    <3>2. Fits(Place(c), Last(hand[c]))
      BY <3>1, PlaceFacts
    <3> DEFINE pid == Last(hand[c])
    <3>3. file' = [file EXCEPT ![Place(c)] = @ \cup {pid}] /\ Fits(Place(c), pid)
      BY <2>1, <3>2
    <3> HIDE DEF pid, Fits
    <3> QED BY <1>0, <2>0, <3>1, <3>3
  <2>2. CASE c \in Testers /\ file' = [file EXCEPT ![Place(c)] = {}]
    <3> HIDE DEF Fits
    <3> QED BY <1>0, <2>0, <2>2
  <2>3. CASE UNCHANGED file \/ file' = [q \in Places |-> {}]
    <3> HIDE DEF Fits
    <3> QED BY <2>0, <2>3
  <2> QED BY <2>1, <2>2, <2>3, FileChanges
<1>2. ASSUME NEW d \in Callers, NEW i \in 1..Len(hand'[d])
      PROVE  hand'[d][i][1] = Tag(d)
  <2>1. CASE d # c
    <3>1. hand'[d] = hand[d]
      BY <2>1, ActsForItself DEF OnlyOf
    <3> QED BY <3>1 DEF IInv, Pidful, OwnPids
  <2>2. CASE d = c
    <3>1. Launches(c) => FreshPid(Tag(c))[1] = Tag(c)
      BY LaunchPid DEF Launches, Launch, LaunchDns
    <3> QED BY <2>2, <3>1, HandPids DEF IInv, Pidful, OwnPids
  <2> QED BY <2>1, <2>2
<1>3. (\A x \in file["service"] : x[1] = "service")'
  <2>1. ASSUME NEW x \in file'["service"]
        PROVE  Fits("service", x)
    BY <1>0, <1>1, <2>1
  <2> QED BY <2>1
<1>4. (\A n \in Nodes : \A x \in file[n] : \E t \in Testers : NodeOf[t] = n /\ x[1] = t)'
  <2>1. ASSUME NEW n \in Nodes, NEW x \in file'[n]
        PROVE  Fits(n, x) /\ n # "service"
    BY <1>0, <1>1, <2>1
  <2> QED BY <2>1
<1> QED BY <1>2, <1>3, <1>4 DEF OwnPids, Tag

\* A pid that was noted stays noted until the files of its place are removed.
LEMMA NotedStays ==
  ASSUME IInv, NEW c \in Callers, Acts(c), NEW p \in Places
  PROVE  \/ file[p] \subseteq file'[p]
         \/ c \in Admins /\ StopRemoves(c)
         \/ c \in Testers /\ TestSweeps(c) /\ p = Place(c)
<1>0. file \in [Places -> SUBSET Pids] /\ Place(c) \in Places
  BY PlaceFacts DEF IInv, Typed
<1>1. CASE Notes(c) /\ file' = [file EXCEPT ![Place(c)] = @ \cup {Last(hand[c])}]
  <2> DEFINE pid == Last(hand[c])
  <2>1. file' = [file EXCEPT ![Place(c)] = @ \cup {pid}]
    BY <1>1
  <2> HIDE DEF pid
  <2> QED BY <1>0, <2>1
<1>2. CASE c \in Testers /\ TestSweeps(c) /\ file' = [file EXCEPT ![Place(c)] = {}]
  BY <1>0, <1>2
<1> QED BY <1>1, <1>2, FileChanges

\* A launcher that is not disturbed has all its pids noted but the last, and notes
\* that one when it has checked it.  What a start that was overrun cannot note is
\* lost.
LEMMA NotesAll ==
  ASSUME IInv, NEW c \in Callers \ disturbed, Notes(c), NEW x \in ToSet(hand[c])
  PROVE  x \in file'[Place(c)] \/ (c \in Admins /\ (x \in lost' \/ x \notin alive'))
<1>0. file \in [Places -> SUBSET Pids] /\ Place(c) \in Places
  BY PlaceFacts DEF IInv, Typed
<1>1. Acts(c) /\ Note(c) /\ UNCHANGED alive
  BY DEF Notes, Acts, Step, LauncherStep, StartStep, CheckGood, NoteDns
<1>2. /\ Last(hand[c]) = hand[c][Len(hand[c])]
      /\ pc[c] = "check" \/ (c \in Admins /\ pc[c] = "note" /\ Len(hand[c]) = 1)
  BY LastFacts DEF Notes, CheckGood, NoteDns, At, IInv, Handful
<1>3. \/ x = Last(hand[c])
      \/ x \in file[Place(c)]
      \/ c \in Admins /\ (x \in lost \/ x \notin alive)
  <2>1. PICK i \in 1..Len(hand[c]) : hand[c][i] = x
    BY InHandOf DEF IInv
  <2>2. CASE pc[c] = "check"
    BY <1>2, <2>1, <2>2 DEF IInv, Pidful, NotedSoFar, At
  <2>3. CASE Len(hand[c]) = 1
    BY <1>2, <2>1, <2>3
  <2> QED BY <1>2, <2>2, <2>3
<1>4. /\ file[Place(c)] \subseteq file'[Place(c)]
      /\ Place(c) \in dirs => Last(hand[c]) \in file'[Place(c)]
      /\ c \in overrun /\ Place(c) \notin dirs /\ Last(hand[c]) \in alive => Last(hand[c]) \in lost'
      /\ lost \subseteq lost'
  <2> DEFINE pid == Last(hand[c])
  <2>1. /\ file' = [file EXCEPT ![Place(c)] = IF Place(c) \in dirs THEN @ \cup {pid} ELSE @]
        /\ lost' = IF c \in overrun /\ Place(c) \notin dirs
                     THEN lost \cup ({pid} \cap alive) ELSE lost
    BY <1>1 DEF Note
  <2> HIDE DEF pid
  <2>2. file[Place(c)] \subseteq file'[Place(c)] /\ (Place(c) \in dirs => pid \in file'[Place(c)])
    BY <1>0, <2>1
  <2>3. /\ c \in overrun /\ Place(c) \notin dirs /\ pid \in alive => pid \in lost'
        /\ lost \subseteq lost'
    BY <2>1
  <2> QED BY <2>2, <2>3 DEF pid
<1>5. Place(c) \in dirs \/ (c \in Admins /\ c \in overrun)
  <2>1. c \in Admins => "service" \in dirs \/ c \in overrun
    BY <1>2 DEF IInv, Order, Housed, Preparing
  <2>2. c \in Testers => Place(c) \in dirs
    BY <1>2, PlaceFacts DEF IInv, Order, Housed, Idle, At
  <2> QED BY <2>1, <2>2, PlaceFacts
<1> QED BY <1>1, <1>3, <1>4, <1>5

LEMMA NotedStep ==
  ASSUME IInv, NEW c \in Callers, Acts(c)
  PROVE  NotedSoFar'
<1> DEFINE Known(d, x) ==
      x \in file'[Place(d)] \/ (d \in Admins /\ (x \in lost' \/ x \notin alive'))
<1> SUFFICES ASSUME NEW d \in Callers, d \notin disturbed', NEW i \in 1..Len(hand'[d])
             PROVE  \/ pc'[d] = "check" /\ i = Len(hand'[d])
                    \/ pc'[d] = "note"
                    \/ Known(d, hand'[d][i])
  BY DEF NotedSoFar, At, Place
<1>0. d \notin disturbed /\ Place(d) \in Places
  BY DisturbedChanges, PlaceFacts
\* What was accounted for stays so.
<1>1. ASSUME NEW x, Handed(x), i \in 1..Len(hand[d]), ~(d = c /\ Killed(c)),
             \/ x \in file[Place(d)]
             \/ d \in Admins /\ (x \in lost \/ x \notin alive)
      PROVE  Known(d, x)
  <2>1. lost \subseteq lost'
    BY LostChanges
  <2>2. ~Idle(d) /\ (d \in Admins => todo[d] = "start")
    BY <1>1, HoldersFacts
  <2>3. ASSUME x \notin alive
        PROVE  x \notin alive'
    <3>1. Launches(c) => FreshPid(Tag(c)) \notin InHand
      BY LaunchPid DEF Launches, Launch, LaunchDns
    <3>2. x \in InHand
      BY <1>1, InHandOf DEF IInv, Handed
    <3> QED BY <2>3, <3>1, <3>2, AliveChanges
  <2>4. ASSUME x \in file[Place(d)], c \in Admins, StopRemoves(c)
        PROVE  Known(d, x)
    <3>1. d \in Admins
      BY <1>0, <2>2, <2>4, DisturbedChanges, PlaceFacts
    <3>2. d # c /\ todo[c] # "start" /\ ~Idle(c) /\ ~At(c, "wait")
      BY <2>2, <2>4, <3>1 DEF StopRemoves, At, Idle, IInv, Order, CalledRight, Called, Preparing
    <3>3. overrun # {}
      BY <2>2, <2>4, <3>1, <3>2, StopAlone DEF IInv
    <3>4. UNCHANGED alive /\ lost' = lost \cup (file["service"] \cap alive)
      BY <2>4, <3>3 DEF StopRemoves
    <3>5. Place(d) = "service"
      BY <3>1, PlaceFacts
    <3> QED BY <2>4, <3>1, <3>4, <3>5
  <2>5. ASSUME x \in file[Place(d)], c \in Testers, TestSweeps(c), Place(d) = Place(c)
        PROVE  FALSE
    <3>1. d \in Testers
      BY <2>5, PlaceFacts
    <3>2. d # c
      BY <1>1, <2>5, HoldersFacts DEF TestSweeps, At
    <3> QED BY <2>2, <2>5, <3>1, <3>2, DisturbedChanges
  <2>6. CASE x \in file[Place(d)]
    BY <1>0, <2>4, <2>5, <2>6, NotedStays
  <2> QED BY <1>1, <2>1, <2>3, <2>6
<1>2. \A j \in 1..Len(hand[d]) : Handed(hand[d][j])
  BY DEF Handed
<1>3. CASE d # c
  <2>1. pc'[d] = pc[d] /\ hand'[d] = hand[d]
    BY <1>3, ActsForItself DEF OnlyOf
  <2>2. \/ pc[d] = "check" /\ i = Len(hand[d])
        \/ pc[d] = "note"
        \/ hand[d][i] \in file[Place(d)]
        \/ d \in Admins /\ (hand[d][i] \in lost \/ hand[d][i] \notin alive)
    BY <1>0, <2>1 DEF IInv, Pidful, NotedSoFar, At
  <2> HIDE DEF Known
  <2> QED BY <1>1, <1>2, <1>3, <2>1, <2>2
<1>4. CASE d = c /\ Launches(c)
  <2>1. CASE Launch(c)
    <3>1. pc[c] = "launch" /\ pc'[c] = "check"
      BY <2>1 DEF Launch, At, GoesTo, IInv, Typed
    <3>2. \/ i \in 1..Len(hand[c]) /\ hand'[c][i] = hand[c][i]
          \/ i = Len(hand'[c])
      BY <1>4, HandPids
    <3>3. i \in 1..Len(hand[c]) => \/ hand[c][i] \in file[Place(c)]
                                   \/ c \in Admins /\ (hand[c][i] \in lost \/ hand[c][i] \notin alive)
      BY <1>0, <1>4, <3>1 DEF IInv, Pidful, NotedSoFar, At
    <3>4. ~Killed(c)
      BY <2>1, <3>1 DEF Killed, GoesTo, IInv, Typed
    <3> HIDE DEF Known
    <3> QED BY <1>1, <1>2, <1>4, <3>1, <3>2, <3>3, <3>4
  <2>2. CASE LaunchDns(c)
    BY <1>4, <2>2 DEF LaunchDns, GoesTo, IInv, Typed
  <2> QED BY <1>4, <2>1, <2>2 DEF Launches
<1>5. CASE d = c /\ hand' = [hand EXCEPT ![c] = <<>>]
  <2>1. hand'[c] = <<>> /\ Len(<<>>) = 0
    BY <1>5 DEF IInv, Typed
  <2> QED BY <1>5, <2>1
<1>6. CASE d = c /\ ~Launches(c) /\ UNCHANGED hand
  <2>1. pc[c] \in {"launch", "check", "note"} /\ hand[c] \in Seq(Pids)
    BY <1>6, HoldersFacts DEF IInv, Typed
  <2>2. hand[c] # <<>>
    <3>1. Len(<<>>) = 0
      OBVIOUS
    <3> QED BY <1>6, <3>1
  <2>3. hand'[c] # <<>>
    BY <1>6, <2>2
  <2>4. ~Begins(c) /\ ~TestStep(c)
    BY <2>1 DEF Begins, StartBegins, StopBegins, TestBegins, TestStep, TestKills, TestSweeps,
                Idle, At
  <2>5. CASE Killed(c)
    BY <2>3, <2>5 DEF Killed, IInv, Typed
  <2>6. CASE CheckBad(c)
    BY <2>3, <2>6 DEF CheckBad, IInv, Typed
  <2>7. CASE Notes(c)
    <3>1. hand[c][i] \in ToSet(hand[c])
      BY <1>6, InHandOf DEF IInv
    <3> QED BY <1>0, <1>6, <2>7, <3>1, NotesAll
  <2>8. CASE c \in Admins /\ (StartStep(c) \/ StopStep(c))
    BY <1>6, <2>1, <2>7, <2>8 DEF StartStep, StopStep, Launches, Notes, StartPrepares, NextRule,
       UnsetLock, StartBegins, Unlock, StopKills, StopRemoves, StopCleans, Idle, At
  <2> QED BY <1>6, <2>4, <2>5, <2>6, <2>7, <2>8
          DEF Acts, Step, LauncherStep, Launches, Notes
<1> QED BY <1>3, <1>4, <1>5, <1>6, HandChanges

LEMMA KnownStep ==
  ASSUME IInv, Typed', NEW c \in Callers, Acts(c)
  PROVE  KnownOrDead'
<1> SUFFICES ASSUME NEW x \in alive', x[1] = "service",
                    x \notin file'["service"], x \notin lost'
             PROVE  \E d \in Admins : x \in ToSet(hand'[d])
  BY DEF KnownOrDead, ServicePids
<1>0. hand' \in [Callers -> Seq(Pids)] /\ hand \in [Callers -> Seq(Pids)]
  BY DEF IInv, Typed
<1>1. ASSUME NEW d \in Admins
      PROVE  x \in ToSet(hand'[d]) <=> \E i \in 1..Len(hand'[d]) : hand'[d][i] = x
  <2>1. d \in Callers
    BY PlaceFacts
  <2>2. hand'[d] \in Seq(Pids)
    BY <1>0, <2>1
  <2>3. DOMAIN hand'[d] = 1..Len(hand'[d])
    BY <2>2
  <2> QED BY <2>3 DEF ToSet
<1>2. CASE x \notin alive
  <2>1. Launches(c) /\ x = FreshPid(Tag(c))
    BY <1>2, AliveChanges
  <2>2. x \in Pids /\ Tag(c) = "service"
    BY <2>1, LaunchPid DEF Launches, Launch, LaunchDns
  <2>3. c \in Admins
    BY <2>2, PlaceFacts
  <2>4. hand' = [hand EXCEPT ![c] = Append(@, x)]
    BY <2>1, LaunchHand
  <2>5. hand'[c] = Append(hand[c], x) /\ hand[c] \in Seq(Pids)
    BY <1>0, <2>4
  <2>6. Len(hand'[c]) = Len(hand[c]) + 1 /\ Len(hand[c]) \in Nat /\ hand'[c][Len(hand[c]) + 1] = x
    BY <2>2, <2>5, AppendFacts
  <2>7. Len(hand[c]) + 1 \in 1..Len(hand'[c])
    BY <2>6
  <2> QED BY <1>1, <2>3, <2>6, <2>7
<1>3. CASE x \in alive
  <2>1. x \notin lost
    BY LostChanges
  <2>2. x \in file["service"] \/ \E d \in Admins : x \in ToSet(hand[d])
    BY <1>3, <2>1 DEF IInv, KnownOrDead, ServicePids
  <2>3. x \notin file["service"]
    <3> SUFFICES ASSUME x \in file["service"] PROVE FALSE
      OBVIOUS
    <3>1. c \in Admins /\ StopRemoves(c)
      BY NotedStays, PlaceFacts
    <3>2. overrun = {}
      BY <1>3, <3>1 DEF StopRemoves
    <3> QED BY <1>3, <3>1, <3>2 DEF StopRemoves, IInv, StopsSoFar
  <2>4. PICK d \in Admins : x \in ToSet(hand[d])
    BY <2>2, <2>3
  <2>5. CASE d # c
    <3>1. hand'[d] = hand[d]
      BY <2>5, ActsForItself, PlaceFacts DEF OnlyOf
    <3> QED BY <2>4, <3>1
  <2>6. CASE d = c
    <3>1. PICK i \in 1..Len(hand[c]) : hand[c][i] = x
      BY <2>4, <2>6, InHandOf DEF IInv
    <3>2. c \notin disturbed /\ Place(c) = "service"
      BY <2>6, PlaceFacts DEF IInv, Typed
    <3>3. ~Notes(c)
      BY <2>4, <2>6, <3>2, NotesAll
    <3>4. ~CheckBad(c)
      BY <2>4, <2>6 DEF CheckBad
    <3>5. ~Killed(c)
      <4>1. c \notin Testers
        BY <2>6, PlaceFacts
      <4>2. Killed(c) => lost' = lost \cup ((ToSet(hand[c]) \cap alive) \ file["service"])
        BY <4>1 DEF Killed
      <4> QED BY <1>3, <2>3, <2>4, <2>6, <4>2
    <3>6. CASE UNCHANGED hand
      BY <2>4, <3>6
    <3>7. CASE Launches(c) /\ hand' = [hand EXCEPT ![c] = Append(@, FreshPid(Tag(c)))]
      <4> DEFINE pid == FreshPid(Tag(c))
      <4>1. pid \in Pids
        BY <3>7, LaunchPid DEF Launches, Launch, LaunchDns
      <4>2. hand'[c] = Append(hand[c], pid) /\ hand[c] \in Seq(Pids)
        BY <1>0, <3>7
      <4> HIDE DEF pid
      <4>3. i \in 1..Len(hand'[c]) /\ hand'[c][i] = x
        BY <3>1, <4>1, <4>2, AppendFacts
      <4> QED BY <1>1, <2>6, <4>3
    <3> QED BY <3>3, <3>4, <3>5, <3>6, <3>7, HandChanges
  <2> QED BY <2>4, <2>5, <2>6
<1> QED BY <1>2, <1>3

-----------------------------------------------------------------------------
(***************************************************************************)
(* How far a stop and a test are, and what they leave.                     *)
(***************************************************************************)
\* A test leaves what the service is told and the files of the service alone.
LEMMA TesterSpares ==
  ASSUME IInv, NEW c \in Testers, Acts(c)
  PROVE  /\ file'["service"] = file["service"]
         /\ UNCHANGED <<net, lock, last, overrun>>
         /\ \A x \in alive' : x[1] = "service" => x \in alive
         /\ \A d \in Admins : pc'[d] = pc[d] /\ todo'[d] = todo[d]
<1>0. /\ c \in Callers /\ c \notin Admins /\ Place(c) # "service" /\ Place(c) \in Places
      /\ Tag(c) # "service" /\ "service" \in Places /\ file \in [Places -> SUBSET Pids]
  BY PlaceFacts DEF IInv, Typed
<1>1. file'["service"] = file["service"]
  <2> DEFINE pid == Last(hand[c])
  <2>1. \/ UNCHANGED file
        \/ file' = [file EXCEPT ![Place(c)] = @ \cup {pid}]
        \/ file' = [file EXCEPT ![Place(c)] = {}]
    BY <1>0, FileChanges
  <2> HIDE DEF pid
  <2> QED BY <1>0, <2>1
<1>2. UNCHANGED <<net, lock, last, overrun>>
  BY <1>0 DEF Acts, Begins, Step, LauncherStep, TestStep, TestBegins, Launch, past,
     CheckGood, CheckBad, TestKills, TestSweeps, Killed
<1>3. \A x \in alive' : x[1] = "service" => x \in alive
  <2>1. Launches(c) => FreshPid(Tag(c))[1] = Tag(c)
    BY <1>0, LaunchPid DEF Launches, Launch, LaunchDns
  <2> QED BY <1>0, <2>1, AliveChanges
<1>4. \A d \in Admins : pc'[d] = pc[d] /\ todo'[d] = todo[d]
  BY <1>0, ActsForItself, PlaceFacts DEF OnlyOf
<1> QED BY <1>1, <1>2, <1>3, <1>4

LEMMA StopsSoFarStep ==
  ASSUME IInv, NEW c \in Callers, Acts(c)
  PROVE  StopsSoFar'
<1> SUFFICES ASSUME overrun' = {}, NEW d \in Admins
             PROVE  /\ pc'[d] = "remove" => alive' \cap file'["service"] = {}
                    /\ pc'[d] = "clean" => file'["service"] = {}
                    /\ pc'[d] = "unlock" /\ todo'[d] # "start" =>
                         file'["service"] = {} /\ net' = {}
  BY DEF StopsSoFar, At
<1>0. d \in Callers /\ "service" \in Places /\ Called(d)
      /\ file \in [Places -> SUBSET Pids] /\ pc \in [Callers -> Pcs]
  BY PlaceFacts DEF IInv, Typed, Order, CalledRight
<1>1. overrun = {} \/ (c \in Admins /\ Unlock(c) /\ UnderWay(c) = {})
  BY DEF Acts, Begins, Step, LauncherStep, StartStep, StopStep, TestStep, past,
     StartBegins, StartPrepares, NextRule, Launch, CheckGood, CheckBad, LaunchDns, NoteDns,
     UnsetLock, StopBegins, Unlock, StopKills, StopRemoves, StopCleans, TestBegins,
     TestKills, TestSweeps, Killed
<1>2. CASE d # c
  <2>1. pc'[d] = pc[d] /\ todo'[d] = todo[d]
    BY <1>0, <1>2, ActsForItself DEF OnlyOf
  <2>2. CASE overrun # {}
    <3>1. Idle(d)
      BY <1>1, <1>2, <2>2 DEF UnderWay
    <3> QED BY <2>1, <3>1 DEF Idle, At
  <2>3. CASE overrun = {} /\ c \in Testers
    <3>1. \A x \in file["service"] : x[1] = "service"
      BY DEF IInv, Pidful, OwnPids
    <3>2. alive' \cap file'["service"] \subseteq alive \cap file["service"]
      BY <2>3, <3>1, TesterSpares
    <3> QED BY <2>1, <2>3, <3>2, TesterSpares DEF IInv, StopsSoFar, At
  <2>4. CASE overrun = {} /\ c \in Admins
    <3> SUFFICES ASSUME pc[d] \in {"remove", "clean"} \/ (pc[d] = "unlock" /\ todo[d] # "start")
                 PROVE  FALSE
      BY <2>1
    <3>1. todo[d] # "start" /\ ~Idle(d) /\ ~At(d, "wait")
      BY <1>0 DEF Called, Preparing, Idle, At
    <3>2. Idle(c)
      BY <1>2, <2>4, <3>1, StopAlone DEF IInv
    <3>3. \E e \in {"nothing", "start"} : OthersIdle(c, e)
      BY <2>4, <3>2, PlaceFacts DEF Acts, Begins, StartBegins, StopBegins, Step, LauncherStep,
         StartStep, StopStep, StartPrepares, NextRule, Launch, CheckGood, CheckBad, LaunchDns,
         NoteDns, UnsetLock, Unlock, StopKills, StopRemoves, StopCleans, Killed, Idle, At
    <3>4. todo[d] \in {"nothing", "start"}
      BY <1>2, <3>1, <3>3 DEF OthersIdle
    <3> QED BY <1>0, <3>1, <3>4 DEF Called, Idle, At
  <2> QED BY <2>2, <2>3, <2>4, PlaceFacts
<1>3. CASE d = c
  <2>1. CASE StopKills(c)
    BY <1>0, <1>3, <2>1 DEF StopKills, GoesTo, files
  <2>2. CASE StopRemoves(c)
    BY <1>0, <1>3, <2>2 DEF StopRemoves, GoesTo
  <2>3. CASE StopCleans(c)
    <3>1. overrun = {} /\ At(c, "clean")
      BY <1>1, <2>3 DEF StopCleans, Unlock, At
    <3>2. file["service"] = {}
      BY <1>3, <3>1 DEF IInv, StopsSoFar
    <3> QED BY <1>0, <1>3, <2>3, <3>2 DEF StopCleans, GoesTo, files
  <2>4. CASE StartPrepares(c) \/ NextRule(c)
    <3>1. todo'[c] = "start" /\ pc'[c] \in {"unlock", "rule", "launch"}
      BY <1>0, <1>3, <2>4 DEF StartPrepares, NextRule, GoesTo, At, Called, Preparing, Stopping
    <3> QED BY <1>3, <3>1
  <2>5. CASE ~StopKills(c) /\ ~StopRemoves(c) /\ ~StopCleans(c) /\ ~StartPrepares(c) /\ ~NextRule(c)
    <3>1. c \notin Testers
      BY <1>3, PlaceFacts
    <3>2. pc'[c] \notin {"remove", "clean", "unlock"}
      BY <1>0, <1>3, <2>5, <3>1 DEF Acts, Begins, StartBegins, StopBegins, Step, LauncherStep,
         StartStep, StopStep, Launch, CheckGood, CheckBad, LaunchDns, NoteDns, UnsetLock, Unlock,
         Killed, GoesTo, Launched, Failed
    <3> QED BY <1>3, <3>2
  <2> QED BY <2>1, <2>2, <2>3, <2>4, <2>5
<1> QED BY <1>2, <1>3

LEMMA StoppedStep ==
  ASSUME IInv, NEW c \in Callers, Acts(c)
  PROVE  StoppedClean'
<1> SUFFICES ASSUME last' = "stop", overrun' = {}
             PROVE  /\ \A d \in Admins : pc'[d] \in {"idle", "wait", "stopped"}
                    /\ \A x \in alive' : x[1] = "service" => x \in lost'
                    /\ net' = {} /\ ~lock' /\ file'["service"] = {}
  BY DEF StoppedClean, ServicePids
<1>0. c \in Callers /\ "service" \in Places
      /\ file \in [Places -> SUBSET Pids] /\ pc \in [Callers -> Pcs]
  BY PlaceFacts DEF IInv, Typed
<1>1. CASE c \in Admins /\ UnsetLock(c)
  <2>1. todo[c] # "start" /\ ~Idle(c) /\ ~At(c, "wait") /\ overrun = {}
    BY <1>1 DEF UnsetLock, Idle, At
  <2>2. \A d \in Admins \ {c} : Idle(d)
    BY <1>1, <2>1, StopAlone DEF IInv
  <2>3. \A d \in Admins : hand[d] = <<>>
    BY <1>1, <2>2, PlaceFacts DEF UnsetLock, Idle, At, IInv, Handful
  <2>4. ToSet(<<>>) = {}
    BY DEF ToSet
  <2>5. file["service"] = {} /\ net = {}
    BY <1>1, <2>1 DEF UnsetLock, At, IInv, StopsSoFar
  <2>6. \A x \in alive : x[1] = "service" => x \in lost
    BY <2>3, <2>4, <2>5 DEF IInv, KnownOrDead, ServicePids
  <2>7. pc'[c] \in {"idle", "stopped"} /\ \A d \in Admins \ {c} : pc'[d] = pc[d]
    BY <1>0, <1>1, PlaceFacts DEF UnsetLock, GoesTo
  <2>8. \A d \in Admins : pc'[d] \in {"idle", "wait", "stopped"}
    BY <2>2, <2>7 DEF Idle, At
  <2> QED BY <1>1, <2>5, <2>6, <2>8 DEF UnsetLock, files
<1>2. CASE ~(c \in Admins /\ UnsetLock(c))
  <2>1. last = "stop" /\ overrun = {}
    BY <1>2 DEF Acts, Begins, Step, LauncherStep, StartStep, StopStep, TestStep, past,
       StartBegins, StartPrepares, NextRule, Launch, CheckGood, CheckBad, LaunchDns, NoteDns,
       StopBegins, Unlock, StopKills, StopRemoves, StopCleans, TestBegins, TestKills,
       TestSweeps, Killed
  <2>2. /\ \A d \in Admins : pc[d] \in {"idle", "wait", "stopped"}
        /\ \A x \in alive : x[1] = "service" => x \in lost
        /\ net = {} /\ ~lock /\ file["service"] = {}
    BY <2>1 DEF IInv, StoppedClean, ServicePids
  <2>3. lost \subseteq lost'
    BY LostChanges
  <2>4. CASE c \in Admins
    <3>1. c \notin Testers /\ pc[c] \in {"idle", "wait", "stopped"}
      BY <2>2, <2>4, PlaceFacts
    <3>2. StopBegins(c) \/ Killed(c)
      BY <1>2, <2>4, <3>1 DEF Acts, Begins, Step, LauncherStep, StartStep, StopStep,
         StartBegins, StartPrepares, NextRule, Launch, CheckGood, CheckBad, LaunchDns, NoteDns,
         Unlock, StopKills, StopRemoves, StopCleans, At
    <3>3. UNCHANGED <<alive, net, lock, file>> /\ pc'[c] \in {"wait", "idle"}
      BY <1>0, <3>2 DEF StopBegins, Killed, GoesTo, files
    <3>4. \A d \in Admins \ {c} : pc'[d] = pc[d]
      BY ActsForItself, PlaceFacts DEF OnlyOf
    <3> QED BY <2>2, <2>3, <3>3, <3>4
  <2>5. CASE c \in Testers
    BY <2>2, <2>3, <2>5, TesterSpares
  <2> QED BY <2>4, <2>5, PlaceFacts
<1> QED BY <1>1, <1>2

LEMMA TestsSoFarStep ==
  ASSUME IInv, NEW c \in Callers, Acts(c)
  PROVE  TestsSoFar'
<1> SUFFICES ASSUME NEW n \in Testers, n \notin disturbed'
             PROVE  /\ pc'[n] \in {"idle", "sweep"} => \A x \in alive' : x[1] # n
                    /\ pc'[n] \in {"launch", "check"} =>
                         \A x \in alive' : x[1] = n => x \in ToSet(hand'[n])
                    /\ pc'[n] = "test" => \A x \in alive' : x[1] = n => x \in file'[Place(n)]
  BY DEF TestsSoFar, TestPids, At, Place
<1>0. /\ n \in Callers /\ n \notin Admins /\ Tag(n) = n /\ Place(n) \in Places
      /\ file \in [Places -> SUBSET Pids] /\ pc \in [Callers -> Pcs]
      /\ hand \in [Callers -> Seq(Pids)] /\ n \notin disturbed
  <2>1. /\ n \in Callers /\ n \notin Admins /\ Tag(n) = n /\ Place(n) \in Places
    BY PlaceFacts
  <2>2. n \notin disturbed
    BY DisturbedChanges
  <2> QED BY <2>1, <2>2 DEF IInv, Typed
<1>1. /\ pc[n] \in {"idle", "sweep"} => \A x \in alive : x[1] # n
      /\ pc[n] \in {"launch", "check"} => \A x \in alive : x[1] = n => x \in ToSet(hand[n])
      /\ pc[n] = "test" => \A x \in alive : x[1] = n => x \in file[Place(n)]
  BY <1>0 DEF IInv, TestsSoFar, TestPids, At
<1>2. CASE n # c
  <2>1. pc'[n] = pc[n] /\ hand'[n] = hand[n]
    BY <1>0, <1>2, ActsForItself DEF OnlyOf
  <2>2. \A x \in alive' : x[1] = n => x \in alive
    <3>1. Launches(c) => FreshPid(Tag(c))[1] = Tag(c)
      BY LaunchPid DEF Launches, Launch, LaunchDns
    <3>2. Tag(c) # n
      BY <1>0, <1>2, PlaceFacts
    <3> QED BY <3>1, <3>2, AliveChanges
  <2>3. pc[n] = "test" => file[Place(n)] \subseteq file'[Place(n)]
    <3> SUFFICES ASSUME pc[n] = "test" PROVE file[Place(n)] \subseteq file'[Place(n)]
      OBVIOUS
    <3>1. ~Idle(n)
      BY DEF Idle, At
    <3>2. ~(c \in Admins /\ StopRemoves(c))
      BY <3>1, DisturbedChanges
    <3>3. ~(c \in Testers /\ TestSweeps(c) /\ Place(n) = Place(c))
      BY <1>2, <3>1, DisturbedChanges
    <3> QED BY <1>0, <3>2, <3>3, NotedStays
  <2> QED BY <1>1, <2>1, <2>2, <2>3
<1>3. CASE n = c
  <2>1. CASE TestBegins(n)
    BY <1>0, <1>1, <2>1 DEF TestBegins, GoesTo, Idle, At
  <2>2. CASE Launch(n)
    <3>1. pc'[n] = "check" /\ pc[n] = "launch" /\ Launches(n)
      BY <1>0, <2>2 DEF Launch, GoesTo, At, Launches
    <3> DEFINE pid == FreshPid(Tag(n))
    <3>2. pid \in Pids /\ alive' \subseteq alive \cup {pid}
      BY <1>0, <1>3, <3>1, LaunchPid, AliveChanges DEF At
    <3>3. hand'[n] = Append(hand[n], pid) /\ hand[n] \in Seq(Pids)
      BY <1>0, <2>2 DEF Launch
    <3> HIDE DEF pid
    <3>4. hand'[n] \in Seq(Pids)
      BY <3>2, <3>3
    <3>5. DOMAIN hand'[n] = 1..(Len(hand[n]) + 1) /\ DOMAIN hand[n] = 1..Len(hand[n])
      BY <3>2, <3>3, <3>4, AppendFacts
    <3>6. \A x \in ToSet(hand[n]) \cup {pid} : x \in ToSet(hand'[n])
      BY <3>2, <3>3, <3>5, AppendFacts DEF ToSet
    <3> QED BY <1>1, <3>1, <3>2, <3>6
  <2>3. CASE CheckGood(n)
    <3>1. /\ UNCHANGED alive /\ pc[n] = "check"
          /\ pc'[n] = "test" \/ (pc'[n] = "launch" /\ hand'[n] = hand[n])
      BY <1>0, <2>3 DEF CheckGood, GoesTo, Launched, At
    <3>2. \A x \in ToSet(hand[n]) : x \in file'[Place(n)]
      BY <1>0, <2>3, NotesAll DEF Notes
    <3> QED BY <1>1, <3>1, <3>2
  <2>4. CASE CheckBad(n)
    BY <1>0, <1>1, <2>4 DEF CheckBad, GoesTo, Failed, At
  <2>5. CASE TestKills(n)
    BY <1>0, <1>1, <2>5 DEF TestKills, GoesTo, At
  <2>6. CASE TestSweeps(n)
    BY <1>0, <1>1, <2>6 DEF TestSweeps, GoesTo, At
  <2>7. CASE Killed(n)
    BY <2>7 DEF Killed
  <2> QED BY <1>0, <1>3, <2>1, <2>2, <2>3, <2>4, <2>5, <2>6, <2>7
          DEF Acts, Begins, Step, LauncherStep, TestStep
<1> QED BY <1>2, <1>3

-----------------------------------------------------------------------------
(***************************************************************************)
(* The invariant.                                                          *)
(***************************************************************************)
LEMMA IInvInit ==
  ASSUME Init
  PROVE  IInv
<1>0. Rules \in Nat /\ Checked \in Nat \ {0} /\ MaxMishaps \in Nat
  BY ServiceAssumption
<1>1. Typed
  <2>1. 0 \in 0..MaxMishaps /\ 0 \in 0..Rules /\ <<>> \in Seq(Pids)
    BY <1>0
  <2>2. /\ file \in [Places -> SUBSET Pids] /\ pc \in [Callers -> Pcs]
        /\ todo \in [Callers -> Calls] /\ rule \in [Callers -> 0..Rules]
        /\ ran \in [Callers -> BOOLEAN] /\ hand \in [Callers -> Seq(Pids)]
    BY <2>1 DEF Init, Pcs, Calls
  <2> QED BY <2>1, <2>2 DEF Init, Typed
<1>2. Len(<<>>) = 0 /\ 1..0 = {}
  OBVIOUS
<1>3. Handful
  BY DEF Init, Handful, At
<1>4. Order
  BY PlaceFacts DEF Init, Order, CalledRight, Called, Alone, Patient, Housed, Idle, At,
                    Preparing, Stopping
<1>5. Pidful
  BY <1>2, PlaceFacts DEF Init, Pidful, OwnPids, NotedSoFar, Places
<1>6. Counted
  <2> SUFFICES ASSUME NEW c \in Callers
               PROVE  ~Restarting(c) /\ Cardinality(Taken(Tag(c))) + Needs(c) <= MaxPids[Tag(c)]
    BY DEF Counted, Room
  <2>1. Needs(c) = 0 /\ ~Restarting(c)
    BY DEF Init, Needs, Restarting
  <2>2. Tag(c) \in Tags /\ MaxPids[Tag(c)] \in Nat
    BY PlaceFacts
  <2> QED BY <2>1, <2>2, TakenFacts
<1>7. KnownOrDead /\ StopsSoFar /\ StoppedClean /\ TestsSoFar
  BY PlaceFacts DEF Init, KnownOrDead, ServicePids, StopsSoFar, StoppedClean, TestsSoFar,
                    TestPids, At, Places
<1> QED BY <1>1, <1>3, <1>4, <1>5, <1>6, <1>7 DEF IInv

LEMMA IInvStep ==
  ASSUME IInv, Next
  PROVE  IInv'
<1>1. InOrder'
  BY TypedStep, OrderStep DEF InOrder
<1>2. PICK c \in Callers : Acts(c)
  BY SomebodyActs
<1>3. Counted'
  BY <1>1, <1>2, CountedStep
<1>4. Pidful'
  BY <1>2, OwnPidsStep, NotedStep DEF Pidful
<1>5. KnownOrDead' /\ StopsSoFar' /\ StoppedClean' /\ TestsSoFar'
  BY <1>1, <1>2, KnownStep, StopsSoFarStep, StoppedStep, TestsSoFarStep DEF InOrder
<1> QED BY <1>1, <1>3, <1>4, <1>5 DEF IInv, InOrder

LEMMA IInvStutter ==
  ASSUME IInv, UNCHANGED vars
  PROVE  IInv'
<1> USE DEF vars, files, script, past
<1>1. Typed' /\ Handful'
  BY DEF IInv, Typed, Handful, At
<1>2. Order'
  BY DEF IInv, Order, CalledRight, Called, Alone, Overlap, Patient, Housed, Idle, At, Place
<1>3. Pidful'
  BY DEF IInv, Pidful, OwnPids, NotedSoFar, At, Place, Tag
<1>4. Counted'
  <2>1. UNCHANGED <<alive, file, hand, pc, todo, rule, lost>>
    OBVIOUS
  <2>2. Used' = Used
    BY <2>1 DEF Used, Noted, InHand
  <2>3. \A c \in Callers : Room(Tag(c), Needs(c)) => Room(Tag(c), Needs(c))'
    <3>1. \A c \in Callers : Taken(Tag(c))' = Taken(Tag(c))
      BY <2>2 DEF Taken, Numbers, Tag
    <3>2. \A c \in Callers : Needs(c)' = Needs(c)
      BY <2>1 DEF Needs, Ahead, Whole
    <3> QED BY <3>1, <3>2 DEF Room, Tag
  <2>4. RoomToRestart' = RoomToRestart
    BY <2>1 DEF RoomToRestart, Numbers
  <2>5. \A c \in Callers : Restarting(c)' = Restarting(c)
    BY <2>1 DEF Restarting
  <2>6. Counted
    BY DEF IInv
  <2> QED BY <2>3, <2>4, <2>5, <2>6 DEF Counted
<1>5. KnownOrDead' /\ StopsSoFar' /\ StoppedClean' /\ TestsSoFar'
  BY DEF IInv, KnownOrDead, ServicePids, StopsSoFar, StoppedClean, TestsSoFar, TestPids, At, Place
<1> QED BY <1>1, <1>2, <1>3, <1>4, <1>5 DEF IInv

LEMMA ServiceInvariant == Spec => []IInv
<1>1. Init => IInv
  BY IInvInit
<1>2. IInv /\ [Next]_vars => IInv'
  BY IInvStep, IInvStutter
<1> QED BY <1>1, <1>2, PTL DEF Spec

-----------------------------------------------------------------------------
\* Every variable stays within its type, whatever scripts are killed or overrun: in
\* particular a launcher never holds more pids than the programs it checks, and
\* no pid is held by a script that does not launch (ssr-libev.sh:96-103).
THEOREM ServiceTypeCorrect == Spec => []TypeOK
<1>1. IInv => TypeOK
  <2> SUFFICES ASSUME IInv PROVE TypeOK
    OBVIOUS
  <2>1. ASSUME NEW c \in Callers
        PROVE  hand[c] \in BoundedSeq(Pids, Checked)
    <3>1. hand[c] \in Seq(Pids) /\ Checked \in Nat \ {0}
      BY ServiceAssumption DEF IInv, Typed
    <3>2. Len(hand[c]) \in 0..Checked
      <4>1. Len(<<>>) = 0 /\ Len(hand[c]) \in Nat
        BY <3>1
      <4>2. \/ Len(hand[c]) < Checked \/ Len(hand[c]) \in 1..Checked
            \/ Len(hand[c]) = 1 \/ Len(hand[c]) = 0
        BY <4>1 DEF IInv, Handful, At
      <4>3. \A k \in Nat : k < Checked \/ k \in 1..Checked \/ k = 1 \/ k = 0 => k \in 0..Checked
        BY ServiceAssumption
      <4> QED BY <4>1, <4>2, <4>3
    <3>3. hand[c] \in [1..Len(hand[c]) -> Pids]
      BY <3>1
    <3> QED BY <3>2, <3>3 DEF BoundedSeq, SeqOf
  <2>2. \A c \in Callers : hand[c] # <<>> => pc[c] \in {"launch", "check", "note"}
    BY DEF IInv, Handful
  <2> QED BY <2>1, <2>2 DEF TypeOK, IInv, Typed, Pcs, Calls
<1> QED BY <1>1, ServiceInvariant, PTL

\* The pid file is enough to stop the service, also while a stop overruns a start
\* (init.d/ssr-plus2:137-148): every program of the service that runs is noted in
\* it, or in the hand of a shell that is about to note it, or was lost by a script
\* that was killed or by a start that was overrun.
THEOREM ServiceKnowsItsPrograms == Spec => []KnownOrDead
<1>1. IInv => KnownOrDead
  BY DEF IInv
<1> QED BY <1>1, ServiceInvariant, PTL

\* A stop that took the lock when no start was under way leaves nothing of the
\* service but what was lost before, whatever was killed or overrun earlier.
THEOREM ServiceStopsClean == Spec => []StopsClean
<1>1. IInv => StopsClean
  BY DEF IInv, StoppedClean, StopsClean
<1> QED BY <1>1, ServiceInvariant, PTL

\* A latency test that was not killed, and whose directory was removed neither by a
\* stop nor by another test of the same node, leaves no program behind.
THEOREM ServiceTestsCleanUp == Spec => []TestsCleanUp
<1>1. IInv => TestsCleanUp
  BY DEF IInv, TestsSoFar, TestsCleanUp, Idle, At
<1> QED BY <1>1, ServiceInvariant, PTL

\* No test kills a program of the service or of a test of another node, and no
\* start, stop or restart one of a test.
THEOREM ServiceKillsItsOwn == Spec => KillsItsOwn
<1>1. ASSUME IInv, Next
      PROVE  SparesOthers
  <2>1. PICK c \in Callers : Acts(c)
    BY <1>1, SomebodyActs
  <2>2. \A d \in Callers : pc[d] # pc'[d] => d = c
    BY <1>1, <2>1, ActsForItself DEF OnlyOf
  <2>3. ASSUME NEW x \in alive, x \notin alive'
        PROVE  /\ c \in Admins => x[1] = "service"
               /\ c \in Testers => \E u \in Testers : NodeOf[u] = NodeOf[c] /\ x[1] = u
    <3>1. x \in ToSet(hand[c]) => x[1] = Tag(c)
      <4>1. \A i \in 1..Len(hand[c]) : hand[c][i][1] = Tag(c)
        BY <1>1 DEF IInv, Pidful, OwnPids
      <4>2. Typed
        BY <1>1 DEF IInv
      <4>3. x \in ToSet(hand[c]) => \E i \in 1..Len(hand[c]) : hand[c][i] = x
        BY <4>2, InHandOf
      <4> QED BY <4>1, <4>3
    <3>2. \/ x \in ToSet(hand[c])
          \/ c \in Admins /\ x \in file["service"]
          \/ c \in Testers /\ x \in file[Place(c)]
      BY <1>1, <2>1, <2>3, AliveChanges
    <3>3. x \in file["service"] => x[1] = "service"
      BY <1>1 DEF IInv, Pidful, OwnPids
    <3>4. c \in Testers /\ x \in file[Place(c)] =>
            \E u \in Testers : NodeOf[u] = NodeOf[c] /\ x[1] = u
      BY <1>1, PlaceFacts DEF IInv, Pidful, OwnPids
    <3> QED BY <3>1, <3>2, <3>3, <3>4, PlaceFacts
  <2>4. ASSUME NEW t \in Testers, pc[t] # pc'[t]
        PROVE  /\ ServicePids \subseteq alive'
               /\ \A u \in Testers : NodeOf[u] # NodeOf[t] => TestPids(u) \subseteq alive'
    <3>1. c = t
      BY <2>2, <2>4, PlaceFacts
    <3> QED BY <2>3, <3>1, PlaceFacts DEF ServicePids, TestPids
  <2>5. ASSUME NEW a \in Admins, pc[a] # pc'[a]
        PROVE  \A t \in Testers : TestPids(t) \subseteq alive'
    <3>1. c = a
      BY <2>2, <2>5, PlaceFacts
    <3> QED BY <2>3, <3>1, PlaceFacts DEF TestPids
  <2> QED BY <2>4, <2>5 DEF SparesOthers
<1>2. ASSUME UNCHANGED vars
      PROVE  SparesOthers
  BY <1>2 DEF vars, script, SparesOthers, ServicePids, TestPids
<1>3. IInv /\ [Next]_vars => [SparesOthers]_vars
  BY <1>1, <1>2
<1> QED BY <1>3, ServiceInvariant, PTL DEF Spec, KillsItsOwn
=============================================================================
