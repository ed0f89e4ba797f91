------------------------------- MODULE Server -------------------------------
(***************************************************************************)
(* ssr-server as a whole (server/server.c): several TCP connections of     *)
(* several clients beside one resolver and one block list.  A connection   *)
(* is reduced to what Connection says of it, which TcpRelay implements;    *)
(* the resolver and the block list are the modules of their files.         *)
(***************************************************************************)
EXTENDS Resolver, BlockList

CONSTANTS Conns,    \* places for connections
          Trusted,  \* clients the ACL exempts from the block list
          Level     \* the level each kind of accusation is reported with

ASSUME LevelAssumption ==
  Level \in [{"malformed", "bad", "malicious", "suspicious"} -> 1..MaxLevel]

ASSUME NobodyAssumption == None \notin Conns /\ None \notin Queries

VARIABLES phase,  \* of each connection
          blame,  \* the last call about the client's address
          peer,   \* the client, or None
          owner,  \* the connection a query was made for (client_cb_data)
          handle, \* server->query, or None
          stray   \* history: the connections whose query is freed, although
                  \* they wait for it

queryVars == <<owner, handle, stray>>
connVars == <<phase, blame, peer, queryVars>>
vars == <<connVars, resolverVars, blockVars>>

Open(c) == phase[c] # "closed"
Resolving(c) == phase[c] = "resolving"

-----------------------------------------------------------------------------
\* The connection moves on.
Goes(c, to) == /\ phase' = [phase EXCEPT ![c] = to]
               /\ peer' = IF to = "closed" THEN [peer EXCEPT ![c] = None] ELSE peer

\* report_addr and reset_addr.  get_peer_name fails for a connection that the
\* client has reset, and then the block list is left alone.
ReportAddr(c, why) ==
  /\ blame' = [blame EXCEPT ![c] = why]
  /\ UpdateBlockList(peer[c], Level[why]) \/ UNCHANGED blockVars

ResetAddr(c) ==
  /\ blame' = [blame EXCEPT ![c] = "reset"]
  /\ RemoveFromBlockList(peer[c]) \/ UNCHANGED blockVars

NoReport == UNCHANGED <<blame, blockVars>>

NoQuery == ResolverQuiet /\ UNCHANGED queryVars

\* A defect for comparison: the query is not cancelled.
CancelQueryNot(c) ==
  /\ ResolverQuiet
  /\ handle' = [handle EXCEPT ![c] = None]
  /\ UNCHANGED <<owner, stray>>

(***************************************************************************)
(* resolv_cancel in close_and_free_server, if server->query is set.  What  *)
(* it does with a query that was freed is undefined.  Here it finds        *)
(* nothing to cancel there, or the query that has got the place since, of  *)
(* another connection which then waits in vain; or the process crashes.    *)
(***************************************************************************)
CancelQuery(c) ==
  LET q == handle[c]
  IN  /\ handle' = [handle EXCEPT ![c] = None]
      /\ IF q # None /\ Live(q)
           THEN /\ ResolvCancel(q)
                /\ stray' = (stray \cup {owner[q]}) \ {c}
                /\ owner' = [owner EXCEPT ![q] = None]
           ELSE /\ ResolverQuiet
                /\ stray' = stray \ {c}
                /\ UNCHANGED owner

-----------------------------------------------------------------------------
\* accept_cb closes what the block list refuses, and has touched the entry.
Refuse(a) ==
  /\ shell = "open"
  /\ a \notin Trusted /\ Blocked(a)
  /\ CheckBlockList(a)
  /\ UNCHANGED <<phase, blame, peer>> /\ NoQuery

Accept(c, a) ==
  /\ shell = "open" /\ ~Open(c)
  /\ IF a \in Trusted THEN UNCHANGED blockVars
                      ELSE ~Blocked(a) /\ CheckBlockList(a)
  /\ phase' = [phase EXCEPT ![c] = "header"]
  /\ blame' = [blame EXCEPT ![c] = "none"]
  /\ peer' = [peer EXCEPT ![c] = a]
  /\ NoQuery

\* server_recv_cb: an unknown address type, not reported in a later segment.
Malformed(c) ==
  /\ phase[c] = "header" /\ Goes(c, "error")
  /\ ReportAddr(c, "malformed") \/ NoReport
  /\ NoQuery

\* server_recv_cb: data that is refused and reported.
Reject(c) ==
  /\ \/ phase[c] = "header" /\ \E why \in {"malformed", "bad", "malicious"} :
                                  ReportAddr(c, why)
     \/ phase[c] = "stream" /\ \E why \in {"bad", "malicious"} : ReportAddr(c, why)
  /\ Goes(c, "closed")
  /\ NoQuery

\* A defect for comparison: the client is cleared before the connect succeeds.
DialResets(c) ==
  /\ phase[c] = "header" /\ Goes(c, "connecting")
  /\ ResetAddr(c) /\ NoQuery

\* server_recv_cb: a complete header with an address, and the connect begins.
Dial(c) ==
  /\ phase[c] = "header" /\ Goes(c, "connecting")
  /\ NoReport /\ NoQuery

\* server_recv_cb: a complete header with a name.  The handle is kept even if
\* the query was freed, and nobody will call back.
AskName(c) ==
  /\ phase[c] = "header" /\ Goes(c, "resolving")
  /\ \E q \in Queries, n \in DOMAIN Zone :
       /\ ResolvQuery(q, n)
       /\ handle' = [handle EXCEPT ![c] = q]
       /\ \/ Live(q)' /\ owner' = [owner EXCEPT ![q] = c] /\ UNCHANGED stray
          \/ ~Live(q)' /\ stray' = stray \cup {c} /\ UNCHANGED owner
  /\ NoReport

\* The first of the two answers concerns the resolver only.
FirstAnswered(q, f) ==
  FirstAnswer(q, f) /\ NoReport /\ UNCHANGED <<phase, peer, queryVars>>

\* server_resolve_cb: the connection goes on if there is an address and the
\* connect can begin, and is closed otherwise.
LastAnswered(q, f) ==
  /\ LastAnswer(q, f)
  /\ owner' = [owner EXCEPT ![q] = None]
  /\ handle' = [handle EXCEPT ![owner[q]] = None]
  /\ UNCHANGED stray
  /\ \/ told'[2] # None /\ Goes(owner[q], "connecting")
     \/ Goes(owner[q], "closed")
  /\ NoReport

ResolveCb(q) == \E f \in Families : FirstAnswered(q, f) \/ LastAnswered(q, f)

\* remote_send_cb: connected; the send that follows may fail.
Connected(c) ==
  /\ phase[c] = "connecting"
  /\ Goes(c, "stream") \/ Goes(c, "closed")
  /\ ResetAddr(c) /\ NoQuery

\* The stream of either side ends, a socket fails, the connect fails, the
\* plugins refuse a segment, or the idle timer fires: nobody is accused.
Close(c) ==
  /\ Open(c) /\ Goes(c, "closed")
  /\ NoReport /\ CancelQuery(c)

\* A defect for comparison: the wait for a name counts as an unfinished header.
TimeoutOfSlowName(c) ==
  /\ phase[c] \in {"header", "error", "resolving"} /\ Goes(c, "closed")
  /\ ReportAddr(c, "suspicious") /\ CancelQuery(c)

\* server_timeout_cb while there is no header, or after it was refused.  The
\* client is then reported a second time.
Timeout(c) ==
  /\ phase[c] \in {"header", "error"} /\ Goes(c, "closed")
  /\ ReportAddr(c, "suspicious") /\ CancelQuery(c)

\* block_list_clear_cb, every UPDATE_INTERVAL.
BlockListClearCb == ClearBlockList /\ UNCHANGED connVars /\ ResolverQuiet

Time == Tick /\ UNCHANGED connVars /\ ResolverQuiet

\* No connection is left, and no query.
Ends ==
  /\ phase' = [c \in Conns |-> "closed"]
  /\ peer' = [c \in Conns |-> None]
  /\ CancelAll
  /\ owner' = [q \in Queries |-> None]
  /\ handle' = [c \in Conns |-> None]
  /\ stray' = {}
  /\ UNCHANGED blame

\* main after ev_run: free_block_list, then free_connections.
Exit == FreeBlockList /\ Ends

\* The process is killed, or uses what it has freed.
Crash == LoseBlockList /\ Ends

-----------------------------------------------------------------------------
Init ==
  /\ phase = [c \in Conns |-> "closed"]
  /\ blame = [c \in Conns |-> "none"]
  /\ peer = [c \in Conns |-> None]
  /\ owner = [q \in Queries |-> None]
  /\ handle = [c \in Conns |-> None]
  /\ stray = {}
  /\ ResolverInit
  /\ BlockListInit

Next ==
  \/ \E a \in Peers : Refuse(a)
  \/ \E c \in Conns :
       \/ \E a \in Peers : Accept(c, a)
       \/ Malformed(c)
       \/ Reject(c)
       \/ Dial(c)
       \/ AskName(c)
       \/ Connected(c)
       \/ Close(c)
       \/ Timeout(c)
  \/ \E q \in Queries : ResolveCb(q)
  \/ shell = "open" /\ BlockListClearCb
  \/ shell = "open" /\ Time
  \/ Exit
  \/ Crash

(***************************************************************************)
(* udns answers or times out each of its queries; the request timer and    *)
(* the timer of the block list fire; time passes.  A connection that waits *)
(* in vain is closed by its timer, which nothing restarts in the meantime. *)
(* The others have that timer too, but what is said of them is that the    *)
(* resolver ends their waiting.                                            *)
(***************************************************************************)
Fairness ==
  /\ \A q \in Queries : WF_vars(ResolveCb(q))
  /\ \A c \in Conns : WF_vars(Timeout(c)) /\ WF_vars(c \in stray /\ Close(c))
  /\ WF_vars(shell = "open" /\ BlockListClearCb)
  /\ WF_vars(shell = "open" /\ Time)

Spec     == Init /\ [][Next]_vars
FairSpec == Spec /\ Fairness

-----------------------------------------------------------------------------
\* Every variable stays within its type.
TypeOK ==
  /\ ResolverTypeOK
  /\ BlockListTypeOK
  /\ phase \in [Conns -> {"header", "error", "resolving", "connecting",
                          "stream", "closed"}]
  /\ blame \in [Conns -> {"none", "reset"} \cup DOMAIN Level]
  /\ peer \in [Conns -> Peers \cup {None}]
  /\ owner \in [Queries -> Conns \cup {None}]
  /\ handle \in [Conns -> Queries \cup {None}]
  /\ stray \subseteq Conns

(***************************************************************************)
(* Every query of the resolver is one that a connection waits for and      *)
(* would cancel, so that an answer never finds a connection that is closed *)
(* or whose place was given away.  And a connection that waits has such a  *)
(* query, unless neither family could be asked, or it lost its query to    *)
(* the close of such a connection.                                         *)
(***************************************************************************)
Waits(c, q) == Resolving(c) /\ handle[c] = q /\ Live(q) /\ owner[q] = c

QueriesOwned ==
  /\ \A q \in Queries : Live(q) => \E c \in Conns : Waits(c, q)
  /\ \A c \in Conns : Resolving(c) /\ c \notin stray => \E q \in Queries : Waits(c, q)

\* Each connection, whatever the others do, behaves as Connection says.
C(c) == INSTANCE Connection WITH phase <- phase[c], blame <- blame[c]
ConnectionsBehave ==
  /\ \A c \in Conns : C(c)!ConnectionInit
  /\ [][\A c \in Conns : [C(c)!ConnectionNext]_(C(c)!connectionVars)]_<<phase, blame>>

(***************************************************************************)
(* A blocked client is let in again for one of four reasons: a connection  *)
(* of its own got through to its remote, it kept away for as long as       *)
(* clear_block_list asks, its entry was the quietest when a new offender   *)
(* needed room, or the server ends.                                        *)
(***************************************************************************)
GotThrough(a) == \E c \in Conns : peer[c] = a /\ phase[c] = "connecting"
                                  /\ blame'[c] = "reset"
KeptAway(a)   == Find(list, a).age > MaxAge
MadeRoom(a)   == Head(list).key = a /\ \E b \in Peers : b \notin Listed /\ b \in Listed'

StaysBlocked ==
  [][\A a \in Peers :
       Blocked(a) /\ ~Blocked(a)' =>
         GotThrough(a) \/ KeptAway(a) \/ MadeRoom(a) \/ shell' = "closed"]_vars

\* A connection does not wait for a name for ever.
NamesEnd == \A c \in Conns : Resolving(c) ~> ~Resolving(c)

(***************************************************************************)
(* A client is forgotten sooner or later unless it keeps coming: it has    *)
(* open connections again and again, or it is refused again and again,     *)
(* which is enough to stay on the list for ever.                           *)
(***************************************************************************)
Forgotten ==
  \A a \in Peers : \/ []<>(a \notin Listed)
                   \/ []<>(\E c \in Conns : peer[c] = a)
                   \/ []<><<Refuse(a)>>_vars
                   \/ <>(shell = "closed")
=============================================================================
