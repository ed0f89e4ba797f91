------------------------------ MODULE Service -------------------------------
(***************************************************************************)
(* The service script (init.d/ssr-plus2), the launcher of a proxy rule     *)
(* (protocol/ssr-libev.sh) and the latency test of a node (latency.sh).    *)
(* All three are shell scripts: every command is a step of its own, and    *)
(* what they share are files: the lock, the directory TEMP_PATH, and in it *)
(* the file the process ids of the programs are kept in.                   *)
(*                                                                         *)
(* set_lock takes the lock whether it is free or not, and stop waits for   *)
(* it about nine seconds, less than a start may need.  What else keeps the *)
(* calls apart is the way the service is called, assumed in OthersIdle.    *)
(* Nothing keeps two latency tests of the same node apart.                 *)
(***************************************************************************)
EXTENDS Integers, Sequences, FiniteSets, SequencesExt

CONSTANTS Admins,   \* shells that call start, stop or restart
          Starters, \* those of them that call start and restart
          Testers,  \* shells that test the latency of a node
          Nodes,    \* the nodes that can be tested
          NodeOf,   \* the node each of those shells tests
          Rules,    \* how many proxy rules are enabled
          Checked,  \* how many programs a launcher starts and checks
          MaxPids,  \* bound: process ids of the service, and of each test
          MaxBusy,  \* bound: scripts that are under way at a time
          MaxMishaps, \* bound: scripts that are killed, stops that do not wait
                      \* for a start's end
          MaxTrouble \* bound: mishaps and disturbed tests before a test begins

ASSUME ServiceAssumption ==
  /\ Starters \subseteq Admins
  /\ Admins \cap Testers = {}
  /\ NodeOf \in [Testers -> Nodes]
  /\ Rules \in Nat
  /\ Checked \in Nat \ {0}
  /\ MaxPids \in [Testers \cup {"service"} -> Nat]
  /\ MaxMishaps \in Nat
  /\ "service" \notin Nodes \cup Testers

Callers == Admins \cup Testers
Places  == Nodes \cup {"service"}

\* TEMP_PATH of a script: the service's, or one per node inside of it.
Place(c) == IF c \in Testers THEN NodeOf[c] ELSE "service"

\* A process id: who launched the program, the service or a test, and a number.
Tags   == Testers \cup {"service"}
Tag(c) == IF c \in Testers THEN c ELSE "service"
Pids   == UNION {{tag} \X (1..MaxPids[tag]) : tag \in Tags}

VARIABLES lock,   \* LOCK_FILE exists
          dirs,   \* the places whose directory exists
          file,   \* the process ids in the pid file of each place
          alive,  \* the programs that run
          net,    \* what is set up: the firewall table, the chains that
                  \* redirect, the configuration of dnsmasq
          pc, todo, rule, ran, hand,  \* of each script: where it is, what it
                  \* was called for, ruleIndex, runRuleIndex, tempPid
          mishaps,   \* how many scripts were killed or not waited for
          last,      \* history: the last thing the service was told
          overrun,   \* history: starts that were under way when the last stop
                     \* took the lock
          lost,      \* history: programs of the service that a script had not
                     \* noted when it was killed, and those of an overrun start
                     \* whose note the stop removed or left no place for
          disturbed  \* history: tests that were killed, or whose directory was
                     \* removed by another script

files  == <<dirs, file>>
script == <<pc, todo, rule, ran, hand>>
past   == <<mishaps, last, overrun, lost, disturbed>>
vars   == <<lock, files, alive, net, script, past>>

-----------------------------------------------------------------------------
At(c, place) == pc[c] = place
GoesTo(c, place) == pc' = [pc EXCEPT ![c] = place]

Idle(c)  == At(c, "idle")
Noted    == UNION {file[p] : p \in Places}
InHand   == UNION {ToSet(hand[c]) : c \in Callers}
Used     == alive \cup Noted \cup InHand \cup lost
Numbers(tag, pids) == {i \in 1..MaxPids[tag] : <<tag, i>> \in pids}
Taken(tag) == LET used == Used IN Numbers(tag, used)
FreshPid(tag) ==
  LET taken == Taken(tag) IN <<tag, CHOOSE i \in 1..MaxPids[tag] : i \notin taken>>

\* Bound: a call begins only if there are pids for what it launches.  A restart
\* can have those of the programs it stops.
Room(tag, n)  == Cardinality(Taken(tag)) + n <= MaxPids[tag]
RoomToStart   == Room("service", Rules * (Checked + 1))
RoomToRestart == Cardinality(Numbers("service", lost)) + Rules * (Checked + 1)
                   <= MaxPids["service"]

\* Bound: a call begins only if few others are under way, a test only if little
\* went wrong before.
Calm    == Cardinality({c \in Callers : ~Idle(c)}) < MaxBusy
Hopeful == mishaps + Cardinality(disturbed) <= MaxTrouble

\* Assumption: the service is told one thing at a time, except that a stop may
\* come while a start is under way.
OthersIdle(c, except) ==
  \A d \in Admins \ {c} : Idle(d) \/ todo[d] = except

-----------------------------------------------------------------------------
Init ==
  /\ lock = FALSE
  /\ dirs = {} /\ file = [p \in Places |-> {}]
  /\ alive = {}
  /\ net = {}
  /\ pc = [c \in Callers |-> "idle"]
  /\ todo = [c \in Callers |-> "nothing"]
  /\ rule = [c \in Callers |-> 0]
  /\ ran = [c \in Callers |-> FALSE]
  /\ hand = [c \in Callers |-> <<>>]
  /\ mishaps = 0 /\ last = "stop" /\ overrun = {} /\ lost = {} /\ disturbed = {}

\* start is called, or follows the stop of a restart: set_lock.
StartBegins(c) ==
  /\ \/ /\ Idle(c) /\ c \in Starters /\ OthersIdle(c, "nothing")
        /\ Calm /\ RoomToStart
     \/ At(c, "stopped")
  /\ lock' = TRUE
  /\ GoesTo(c, "status")
  /\ todo' = [todo EXCEPT ![c] = "start"]
  /\ last' = "start"
  /\ UNCHANGED <<files, alive, net, rule, ran, hand, mishaps, overrun, lost, disturbed>>

\* The status of the service; the empty pid file and no pid file are the same.
ServiceStatus == IF file["service"] = {} THEN "inactive"
                 ELSE IF lock THEN "starting" ELSE "running"

\* Nothing to do: it is running, or not enabled.  Otherwise the directory is
\* made, dnsmasq is configured and the firewall table is added.
StartPrepares(c) ==
  /\ At(c, "status")
  /\ \E enabled \in BOOLEAN :
       IF ServiceStatus = "running" \/ ~enabled
         THEN GoesTo(c, "unlock") /\ UNCHANGED <<dirs, net>>
         ELSE /\ GoesTo(c, "rule")
              /\ dirs' = dirs \cup {"service"}
              /\ net' = net \cup {"table", "dnsmasq"}
  /\ UNCHANGED <<lock, file, alive, todo, rule, ran, hand, past>>

\* The traffic is redirected if a rule runs.
Redirected(c) == IF ran[c] THEN net \cup {"redirect"} ELSE net

\* The next rule, or none is left.
NextRule(c) ==
  /\ At(c, "rule")
  /\ IF rule[c] < Rules THEN GoesTo(c, "launch") /\ UNCHANGED net
     ELSE /\ GoesTo(c, "unlock")
          /\ net' = Redirected(c)
  /\ rule' = [rule EXCEPT ![c] = IF @ < Rules THEN @ + 1 ELSE @]
  /\ UNCHANGED <<lock, files, alive, todo, ran, hand, past>>

\* A launcher starts its next program in the background.  Its output goes to a
\* file, so that without the directory there is no program; it may fail anyway.
Launch(c) ==
  /\ At(c, "launch")
  /\ hand' = [hand EXCEPT ![c] = Append(@, FreshPid(Tag(c)))]
  /\ \/ Place(c) \in dirs /\ alive' = alive \cup {FreshPid(Tag(c))}
     \/ UNCHANGED alive
  /\ GoesTo(c, "check")
  /\ UNCHANGED <<lock, files, net, todo, rule, ran, past>>

\* Where a launcher goes on when all its programs run, and when one does not.
Launched(c) == IF c \in Testers THEN "test" ELSE "dns"
Failed(c)   == IF c \in Testers THEN "sweep" ELSE "rule"

\* The last pid is appended to the pid file, if there is a directory for it.
Note(c) ==
  /\ file' = [file EXCEPT ![Place(c)] =
                IF Place(c) \in dirs THEN @ \cup {Last(hand[c])} ELSE @]
  /\ lost' = IF c \in overrun /\ Place(c) \notin dirs
               THEN lost \cup ({Last(hand[c])} \cap alive) ELSE lost

\* After a second the program seems to be there and its pid is noted.  It seems so
\* also if the pid is a part of a longer one.
CheckGood(c) ==
  /\ At(c, "check")
  /\ Note(c)
  /\ IF Len(hand[c]) = Checked
       THEN GoesTo(c, Launched(c)) /\ hand' = [hand EXCEPT ![c] = <<>>]
       ELSE GoesTo(c, "launch") /\ UNCHANGED hand
  /\ UNCHANGED <<lock, dirs, alive, net, todo, rule, ran, mishaps, last, overrun, disturbed>>

\* A defect for comparison: what was started before is left running.
CheckBadLeaves(c) ==
  /\ At(c, "check") /\ Last(hand[c]) \notin alive
  /\ GoesTo(c, Failed(c))
  /\ hand' = [hand EXCEPT ![c] = <<>>]
  /\ UNCHANGED <<lock, files, alive, net, todo, rule, ran, past>>

\* It is not, and what was started before it is killed.  Their pids stay noted.
CheckBad(c) ==
  /\ At(c, "check") /\ Last(hand[c]) \notin alive
  /\ alive' = alive \ ToSet(hand[c])
  /\ GoesTo(c, Failed(c))
  /\ hand' = [hand EXCEPT ![c] = <<>>]
  /\ UNCHANGED <<lock, files, net, todo, rule, ran, past>>

\* The resolver of a rule is started, and after that its pid is noted.
LaunchDns(c) ==
  /\ At(c, "dns")
  /\ hand' = [hand EXCEPT ![c] = <<FreshPid("service")>>]
  /\ \/ "service" \in dirs /\ alive' = alive \cup {FreshPid("service")}
     \/ UNCHANGED alive
  /\ GoesTo(c, "note")
  /\ UNCHANGED <<lock, files, net, todo, rule, ran, past>>

\* A defect for comparison: the pid of the resolver is not noted.
NoteDnsNot(c) ==
  /\ At(c, "note")
  /\ ran' = [ran EXCEPT ![c] = TRUE]
  /\ hand' = [hand EXCEPT ![c] = <<>>]
  /\ GoesTo(c, "rule")
  /\ UNCHANGED <<lock, files, alive, net, todo, rule, past>>

\* A defect for comparison: tempPid is not reset for the next rule.
NoteDnsHolds(c) ==
  /\ At(c, "note")
  /\ Note(c)
  /\ ran' = [ran EXCEPT ![c] = TRUE]
  /\ GoesTo(c, "rule")
  /\ UNCHANGED <<lock, dirs, alive, net, todo, rule, hand, mishaps, last, overrun, disturbed>>

NoteDns(c) ==
  /\ At(c, "note")
  /\ Note(c)
  /\ ran' = [ran EXCEPT ![c] = TRUE]
  /\ hand' = [hand EXCEPT ![c] = <<>>]
  /\ GoesTo(c, "rule")
  /\ UNCHANGED <<lock, dirs, alive, net, todo, rule, mishaps, last, overrun, disturbed>>

\* unset_lock at the end of start and of stop.
UnsetLock(c) ==
  /\ At(c, "unlock")
  /\ lock' = FALSE
  /\ IF todo[c] = "restart" THEN GoesTo(c, "stopped") /\ UNCHANGED todo
     ELSE GoesTo(c, "idle") /\ todo' = [todo EXCEPT ![c] = "nothing"]
  /\ rule' = [rule EXCEPT ![c] = 0] /\ ran' = [ran EXCEPT ![c] = FALSE]
  /\ last' = IF todo[c] = "start" THEN "start" ELSE "stop"
  /\ UNCHANGED <<files, alive, net, hand, mishaps, overrun, lost, disturbed>>

-----------------------------------------------------------------------------
\* stop or restart is called.
StopBegins(c) ==
  /\ Idle(c) /\ Calm
  /\ \/ OthersIdle(c, "start") /\ todo' = [todo EXCEPT ![c] = "stop"]
     \/ /\ c \in Starters /\ OthersIdle(c, "nothing")
        /\ RoomToRestart
        /\ todo' = [todo EXCEPT ![c] = "restart"]
  /\ GoesTo(c, "wait")
  /\ UNCHANGED <<lock, files, alive, net, rule, ran, hand, past>>

\* The starts that are under way beside a stop.
UnderWay(c) == {d \in Admins \ {c} : ~Idle(d)}

\* Bound: how often a stop does not wait.
Mishap(c) == IF UnderWay(c) = {} THEN UNCHANGED mishaps
             ELSE mishaps < MaxMishaps /\ mishaps' = mishaps + 1

\* A defect for comparison: the lock is looked at again and again without end.
UnlockWaits(c) ==
  /\ At(c, "wait")
  /\ IF lock THEN UNCHANGED vars
     ELSE /\ lock' = TRUE
          /\ GoesTo(c, "kill")
          /\ last' = "stopping" /\ overrun' = UnderWay(c)
          /\ Mishap(c)
          /\ UNCHANGED <<files, alive, net, todo, rule, ran, hand, lost, disturbed>>

\* unlock, which ends when the lock is free or about nine seconds are over, whoever
\* has the lock, and set_lock.
Unlock(c) ==
  /\ At(c, "wait")
  /\ lock' = TRUE
  /\ GoesTo(c, "kill")
  /\ last' = "stopping" /\ overrun' = UnderWay(c)
  /\ Mishap(c)
  /\ UNCHANGED <<files, alive, net, todo, rule, ran, hand, lost, disturbed>>

\* A defect for comparison: only a service that runs is stopped.
StopKillsRunning(c) ==
  /\ At(c, "kill")
  /\ alive' = IF ServiceStatus = "running" THEN alive \ file["service"] ELSE alive
  /\ GoesTo(c, "remove")
  /\ UNCHANGED <<lock, files, net, todo, rule, ran, hand, past>>

\* Every process in the pid file is killed.
StopKills(c) ==
  /\ At(c, "kill")
  /\ alive' = alive \ file["service"]
  /\ GoesTo(c, "remove")
  /\ UNCHANGED <<lock, files, net, todo, rule, ran, hand, past>>

\* rm -rf TEMP_PATH, and with it what the tests keep there.
StopRemoves(c) ==
  /\ At(c, "remove")
  /\ dirs' = {} /\ file' = [p \in Places |-> {}]
  /\ disturbed' = disturbed \cup {t \in Testers : ~Idle(t)}
  /\ lost' = IF overrun = {} THEN lost ELSE lost \cup (file["service"] \cap alive)
  /\ GoesTo(c, "clean")
  /\ UNCHANGED <<lock, alive, net, todo, rule, ran, hand, mishaps, last, overrun>>

\* The firewall and dnsmasq are as they were.
StopCleans(c) ==
  /\ At(c, "clean")
  /\ net' = {}
  /\ GoesTo(c, "unlock")
  /\ UNCHANGED <<lock, files, alive, todo, rule, ran, hand, past>>

-----------------------------------------------------------------------------
\* latency.sh makes its directory and starts the node's proxy.
TestBegins(t) ==
  /\ Idle(t)
  /\ Calm /\ Hopeful /\ Room(t, Checked)
  /\ dirs' = dirs \cup {"service", Place(t)}
  /\ GoesTo(t, "launch")
  /\ todo' = [todo EXCEPT ![t] = "test"]
  /\ UNCHANGED <<lock, file, alive, net, rule, ran, hand, past>>

\* A defect for comparison: the test uses the pid file of the service.
TestKillsService(t) ==
  /\ At(t, "test")
  /\ alive' = alive \ file["service"]
  /\ GoesTo(t, "sweep")
  /\ UNCHANGED <<lock, files, net, todo, rule, ran, hand, past>>

\* What a test kills when it has its result.
TestKills(t) ==
  /\ At(t, "test")
  /\ alive' = alive \ file[Place(t)]
  /\ GoesTo(t, "sweep")
  /\ UNCHANGED <<lock, files, net, todo, rule, ran, hand, past>>

\* The other tests of the same node that are under way.
Beside(t) == {u \in Testers \ {t} : NodeOf[u] = NodeOf[t] /\ ~Idle(u)}

\* rm -rf of the test's directory, also if the proxy did not start.
TestSweeps(t) ==
  /\ At(t, "sweep")
  /\ dirs' = dirs \ {Place(t)} /\ file' = [file EXCEPT ![Place(t)] = {}]
  /\ disturbed' = disturbed \cup Beside(t)
  /\ GoesTo(t, "idle")
  /\ todo' = [todo EXCEPT ![t] = "nothing"]
  /\ UNCHANGED <<lock, alive, net, rule, ran, hand, mishaps, last, overrun, lost>>

-----------------------------------------------------------------------------
\* A script is killed, and what it has launched runs on.
Killed(c) ==
  /\ ~Idle(c) /\ mishaps < MaxMishaps
  /\ mishaps' = mishaps + 1
  /\ GoesTo(c, "idle")
  /\ todo' = [todo EXCEPT ![c] = "nothing"]
  /\ hand' = [hand EXCEPT ![c] = <<>>]
  /\ rule' = [rule EXCEPT ![c] = 0] /\ ran' = [ran EXCEPT ![c] = FALSE]
  /\ IF c \in Testers
       THEN disturbed' = disturbed \cup {c} /\ UNCHANGED lost
       ELSE /\ lost' = lost \cup ((ToSet(hand[c]) \cap alive) \ file["service"])
            /\ UNCHANGED disturbed
  /\ UNCHANGED <<lock, files, alive, net, last, overrun>>

LauncherStep(c) == Launch(c) \/ CheckGood(c) \/ CheckBad(c)

StartStep(c) == \/ StartPrepares(c) \/ NextRule(c)
                \/ LaunchDns(c) \/ NoteDns(c) \/ UnsetLock(c)
                \/ At(c, "stopped") /\ StartBegins(c)

StopStep(c) == \/ Unlock(c)
               \/ StopKills(c)
               \/ StopRemoves(c)
               \/ StopCleans(c)

TestStep(t) == TestKills(t) \/ TestSweeps(t)

\* What a script does once it was called.
Step(c) == \/ LauncherStep(c)
           \/ c \in Admins /\ (StartStep(c) \/ StopStep(c))
           \/ c \in Testers /\ TestStep(c)

Next ==
  \/ \E c \in Admins : (Idle(c) /\ StartBegins(c)) \/ StopBegins(c)
  \/ \E t \in Testers : TestBegins(t)
  \/ \E c \in Callers : Step(c) \/ Killed(c)

\* A shell that was called runs.
Spec == Init /\ [][Next]_vars /\ \A c \in Callers : WF_vars(Step(c))

-----------------------------------------------------------------------------
ServicePids == {p \in alive : p[1] = "service"}
TestPids(t) == {p \in alive : p[1] = t}

\* Every variable stays within its type, and a script holds pids only while it
\* launches.
TypeOK ==
  /\ lock \in BOOLEAN
  /\ dirs \subseteq Places /\ file \in [Places -> SUBSET Pids]
  /\ alive \subseteq Pids
  /\ net \subseteq {"table", "dnsmasq", "redirect"}
  /\ pc \in [Callers -> {"idle", "status", "rule", "launch", "check", "dns",
                         "note", "unlock", "stopped", "wait", "kill", "remove",
                         "clean", "test", "sweep"}]
  /\ todo \in [Callers -> {"nothing", "start", "stop", "restart", "test"}]
  /\ rule \in [Callers -> 0..Rules] /\ ran \in [Callers -> BOOLEAN]
  /\ \A c \in Callers : /\ hand[c] \in BoundedSeq(Pids, Checked)
                        /\ hand[c] # <<>> => pc[c] \in {"launch", "check", "note"}
  /\ mishaps \in 0..MaxMishaps /\ last \in {"start", "stopping", "stop"}
  /\ overrun \subseteq Admins /\ lost \subseteq Pids /\ disturbed \subseteq Testers

(***************************************************************************)
(* The pid file is enough to stop the service: every program of it that    *)
(* runs is in the file, or in the hand of a script that is about to note   *)
(* it.  Two things take programs away from it: a script that is killed at  *)
(* the wrong moment, and a stop that does not wait for the end of a start. *)
(* A launcher that fails half-way and the second of two starts do not.     *)
(***************************************************************************)
KnownOrDead ==
  ServicePids \subseteq
    file["service"] \cup lost \cup UNION {ToSet(hand[c]) : c \in Admins}

(***************************************************************************)
(* When a stop was the last thing the service was told, and nothing is     *)
(* under way, then nothing runs, nothing is redirected and the lock is     *)
(* free, also after a start that was killed at any point, and after an     *)
(* earlier start that was overrun.  It is not so only if this very stop    *)
(* took the lock from a start under way.                                   *)
(***************************************************************************)
StopsClean ==
  (last = "stop" /\ overrun = {} /\ \A c \in Admins : Idle(c)) =>
    ServicePids \subseteq lost /\ net = {} /\ ~lock /\ file["service"] = {}

\* A test that nobody interfered with leaves no program behind, also if another
\* test of the same node ran beside it and did not end before it.
TestsCleanUp ==
  \A t \in Testers \ disturbed : Idle(t) => TestPids(t) = {}

\* "close the temporary proxy": a test leaves no program behind.
ClosesTemporaryProxy ==
  \A t \in Testers : Idle(t) /\ mishaps = 0 => TestPids(t) = {}

\* A step of a test leaves the programs of the service and of other nodes' tests
\* alone, one of a shell those of the tests.
SparesOthers ==
  /\ \A t \in Testers : pc[t] # pc'[t] =>
       /\ ServicePids \subseteq alive'
       /\ \A u \in Testers : NodeOf[u] # NodeOf[t] => TestPids(u) \subseteq alive'
  /\ \A c \in Admins : pc[c] # pc'[c] => \A t \in Testers : TestPids(t) \subseteq alive'

(***************************************************************************)
(* A test kills no program of the service or of another node's test, and a *)
(* stop none of a test, although the one keeps its files inside the        *)
(* directory of the other.                                                 *)
(***************************************************************************)
KillsItsOwn == [][SparesOthers]_vars

\* Every call ends, also when a script that was killed has left the lock.
CallsEnd == \A c \in Callers : ~Idle(c) ~> Idle(c)
=============================================================================
