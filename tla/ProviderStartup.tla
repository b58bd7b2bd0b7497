--------------------------- MODULE ProviderStartup ---------------------------
(***************************************************************************)
(* How provider processes put themselves into ZooKeeper: RpcProvider::Run, *)
(* with ZkClient::Start, ZkClient::Create and global_watcher, for several  *)
(* processes that start, lose their connection or their session, crash and *)
(* start again.                                                            *)
(*                                                                         *)
(* Every call of the ZooKeeper client is one step of the process; between  *)
(* zoo_exists and zoo_create others go on.  The I/O thread of the client   *)
(* runs from zookeeper_init on and calls global_watcher.                   *)
(*                                                                         *)
(* ZooKeeper (external): a call on a connected session is carried out; its *)
(* answer may be lost with the connection, and a call without a connection *)
(* fails.  The session of a process that is gone, or is not connected, may *)
(* end, and its ephemeral znodes with it.                                  *)
(***************************************************************************)
EXTENDS Naturals, Sequences, FiniteSets

CONSTANTS
  Providers,      \* provider processes, each started again when it is gone
  Published,      \* per provider: the methods of its services, as <<service, method>>
  Address(_),     \* per provider: "ip:port" made of its configuration
  Configured(_),  \* per provider: what its configuration is meant to say
  MaxStarts,      \* bound: starts of processes, and so sessions
  MaxFaults       \* bound: lost connections and failed zookeeper_inits

Session == 1 .. MaxStarts
Methods == UNION {Published[p] : p \in Providers}
ServiceOf(method) == <<method[1]>>
ServicePaths == {ServiceOf(m) : m \in Methods}

ASSUME ProviderAssumption ==
  /\ MaxStarts \in Nat /\ MaxFaults \in Nat
  /\ \A p \in Providers : Published[p] # {}
  /\ ServicePaths \cap Methods = {}

VARIABLES
  (* ZooKeeper *)
  nodes,      \* the persistent znodes
  instances,  \* the ephemeral ones: [path, number, owner, data]; the number
              \* tells apart those of one session below one path
  server,     \* per session, what the server knows: "none", "alive", "ended"
  faults, starts,   \* used up of MaxFaults and MaxStarts
  (* per provider *)
  pc,         \* "off"; "init" (zookeeper_init has returned), "wait" (for the
              \* semaphore); "exists", "create" or "instance" (the call it is
              \* about to make); "serving"; "exited"
  session,    \* the session of the process
  link,       \* its connection: "connecting", "connected", "expired"
  sem,        \* m_connect_sem
  at,         \* the path Create works on
  todo,       \* the methods Run has not come to yet
  missed      \* history: the last event CONNECTED came before the context was
              \* set (zookeeperutil.cc:60-67)

zkVars == <<nodes, instances>>
runVars == <<pc, at, todo>>
sessionVars == <<session, link, sem, missed>>
vars == <<zkVars, server, faults, starts, runVars, sessionVars>>

Instance == [path : Methods, number : Nat \ {0}, owner : Session,
             data : {Address(p) : p \in Providers}]

\* The znodes of p's session for a method.
Mine(p, m) == {i \in instances : i.path = m /\ i.owner = session[p]}

Init ==
  /\ nodes = {} /\ instances = {}
  /\ server = [s \in Session |-> "none"]
  /\ faults = 0 /\ starts = 0
  /\ pc = [p \in Providers |-> "off"]
  /\ session = [p \in Providers |-> 0]
  /\ link = [p \in Providers |-> "connecting"]
  /\ sem = [p \in Providers |-> 0]
  /\ missed = [p \in Providers |-> FALSE]
  /\ at = [p \in Providers |-> <<>>]
  /\ todo = [p \in Providers |-> {}]

Goto(p, label) == pc' = [pc EXCEPT ![p] = label]
Running(p) == pc[p] \notin {"off", "exited"}
Registering(p) == pc[p] \in {"exists", "create", "instance"}

-----------------------------------------------------------------------------
(* ZkClient::Start and the I/O thread.                                     *)

\* A process starts; zookeeper_init returns a handle that is not connected yet.
Start(p) ==
  /\ ~Running(p)
  /\ starts < MaxStarts
  /\ starts' = starts + 1
  /\ Goto(p, "init")
  /\ session' = [session EXCEPT ![p] = starts + 1]
  /\ link' = [link EXCEPT ![p] = "connecting"]
  /\ sem' = [sem EXCEPT ![p] = 0]
  /\ missed' = [missed EXCEPT ![p] = FALSE]
  /\ todo' = [todo EXCEPT ![p] = Published[p]]
  /\ UNCHANGED <<zkVars, server, faults, at>>

\* A process starts, zookeeper_init returns nullptr, and the process ends.
InitFails(p) ==
  /\ ~Running(p)
  /\ faults < MaxFaults
  /\ faults' = faults + 1
  /\ Goto(p, "exited")
  /\ UNCHANGED <<zkVars, server, starts, at, todo, sessionVars>>

\* Slip used by a mutant run: the watcher looks for another state.
PostNever(p) ==
  /\ UNCHANGED sem
  /\ missed' = [missed EXCEPT ![p] = pc[p] = "init"]

\* global_watcher on a connected session: without a context nobody is told.
PostIfContext(p) ==
  /\ sem' = IF pc[p] = "init" THEN sem ELSE [sem EXCEPT ![p] = @ + 1]
  /\ missed' = [missed EXCEPT ![p] = pc[p] = "init"]

\* The session is established, or established again after a lost connection.
Connect(p) ==
  /\ Running(p) /\ link[p] = "connecting"
  /\ server[session[p]] # "ended"
  /\ server' = [server EXCEPT ![session[p]] = "alive"]
  /\ link' = [link EXCEPT ![p] = "connected"]
  /\ PostIfContext(p)
  /\ UNCHANGED <<zkVars, faults, starts, runVars, session>>

\* The server does not know the session any more; global_watcher looks for
\* ZOO_CONNECTED_STATE only.
LearnExpiry(p) ==
  /\ Running(p) /\ link[p] = "connecting"
  /\ server[session[p]] = "ended"
  /\ link' = [link EXCEPT ![p] = "expired"]
  /\ UNCHANGED <<zkVars, server, faults, starts, runVars, session, sem,
                 missed>>

SetContext(p) ==
  /\ pc[p] = "init"
  /\ Goto(p, "wait")
  /\ UNCHANGED <<zkVars, server, faults, starts, at, todo, sessionVars>>

-----------------------------------------------------------------------------
(* RpcProvider::Run: for each service Create its path, for each method of  *)
(* it Create its path and an instance below.  Both maps are unordered.     *)

\* The process goes on to Create the path.
Create(p, path) == Goto(p, "exists") /\ at' = [at EXCEPT ![p] = path]

\* The next method of the service at hand, or the next service, or the end of
\* the loops and server.start().
NextMethod(p, service, rest) ==
  LET mine == {m \in rest : ServiceOf(m) = service} IN
  \/ \E m \in mine : Create(p, m)
  \/ mine = {} /\ \E m \in rest : Create(p, ServiceOf(m))
  \/ rest = {} /\ Goto(p, "serving") /\ UNCHANGED at

\* Slip used by a mutant run: the instance goes below the service as well.
ProceedToInstance(p) ==
  \/ /\ pc[p] # "instance"
     /\ Goto(p, "instance")
     /\ UNCHANGED <<at, todo>>
  \/ /\ pc[p] = "instance"
     /\ todo' = [todo EXCEPT ![p] = @ \ {at[p]}]
     /\ NextMethod(p, ServiceOf(at[p]), todo[p] \ {at[p]})

\* What follows a Create of at[p] that has not ended the process.
Proceed(p) ==
  \/ /\ pc[p] # "instance" /\ at[p] \in ServicePaths
     /\ NextMethod(p, at[p], todo[p])
     /\ UNCHANGED todo
  \/ /\ pc[p] # "instance" /\ at[p] \notin ServicePaths
     /\ Goto(p, "instance")
     /\ UNCHANGED <<at, todo>>
  \/ /\ pc[p] = "instance"
     /\ todo' = [todo EXCEPT ![p] = @ \ {at[p]}]
     /\ NextMethod(p, ServiceOf(at[p]), todo[p] \ {at[p]})

\* The process is gone, its session is not (yet).
End(p, label) ==
  /\ Goto(p, label)
  /\ session' = [session EXCEPT ![p] = 0]
  /\ link' = [link EXCEPT ![p] = "connecting"]
  /\ sem' = [sem EXCEPT ![p] = 0]
  /\ at' = [at EXCEPT ![p] = <<>>]
  /\ todo' = [todo EXCEPT ![p] = {}]
  /\ missed' = [missed EXCEPT ![p] = FALSE]

Exit(p) == End(p, "exited")

\* sem_wait returns.
Wake(p) ==
  /\ pc[p] = "wait" /\ sem[p] > 0
  /\ sem' = [sem EXCEPT ![p] = @ - 1]
  /\ NextMethod(p, <<>>, todo[p])
  /\ UNCHANGED <<zkVars, server, faults, starts, todo, session, link, missed>>

\* The parent of a path exists.
HasParent(path) == path \in ServicePaths \/ ServiceOf(path) \in nodes

\* Slip used by a mutant run: Create does not look whether the znode exists.
ExistsSkipped(p) ==
  /\ pc[p] = "exists" /\ Goto(p, "create")
  /\ UNCHANGED <<zkVars, server, faults, starts, sessionVars, at, todo>>

\* zoo_exists; every error but ZNONODE passes for "it exists".
Exists(p) ==
  /\ pc[p] = "exists"
  /\ \/ link[p] = "connected" /\ at[p] \notin nodes /\ Goto(p, "create")
        /\ UNCHANGED <<at, todo>>
     \/ link[p] = "connected" /\ at[p] \in nodes /\ Proceed(p)
     \/ link[p] # "connected" /\ Proceed(p)
  /\ UNCHANGED <<zkVars, server, faults, starts, sessionVars>>

\* zoo_create of a persistent znode, at the server.
MakeNode(p) ==
  /\ at[p] \notin nodes /\ HasParent(at[p])
  /\ nodes' = nodes \cup {at[p]}
  /\ UNCHANGED instances

\* zoo_create with ZOO_EPHEMERAL | ZOO_SEQUENCE, at the server.
MakeInstance(p) ==
  /\ at[p] \in nodes
  /\ instances' = instances \cup
       {[path |-> at[p], number |-> Cardinality(Mine(p, at[p])) + 1,
         owner |-> session[p], data |-> Address(p)]}
  /\ UNCHANGED nodes

Make(p) ==
  \/ pc[p] = "create" /\ MakeNode(p)
  \/ pc[p] = "instance" /\ MakeInstance(p)

\* The znode cannot be made: it is there already, or its parent is not.
Unmakeable(p) ==
  \/ pc[p] = "create" /\ (at[p] \in nodes \/ ~HasParent(at[p]))
  \/ pc[p] = "instance" /\ at[p] \notin nodes

\* zoo_create; any error ends the process.
ZooCreate(p) ==
  /\ pc[p] \in {"create", "instance"}
  /\ \/ link[p] = "connected" /\ Make(p) /\ Proceed(p) /\ UNCHANGED sessionVars
     \/ link[p] = "connected" /\ Unmakeable(p) /\ Exit(p) /\ UNCHANGED zkVars
     \/ link[p] # "connected" /\ Exit(p) /\ UNCHANGED zkVars
  /\ UNCHANGED <<server, faults, starts>>

-----------------------------------------------------------------------------
(* Faults.                                                                 *)

LoseConnection(p) ==
  /\ faults < MaxFaults
  /\ faults' = faults + 1
  /\ link[p] = "connected"

\* The connection of a process that makes no call.
Disconnect(p) ==
  /\ Running(p) /\ LoseConnection(p)
  /\ link' = [link EXCEPT ![p] = "connecting"]
  /\ UNCHANGED <<zkVars, server, starts, runVars, session, sem, missed>>

\* Slip used by a mutant run: a create without an answer is tried again.
LoseAnswerRetries(p) ==
  /\ LoseConnection(p)
  /\ Make(p)
  /\ link' = [link EXCEPT ![p] = "connecting"]
  /\ UNCHANGED <<server, starts, runVars, session, sem, missed>>

\* The connection goes with the answer to a create that was carried out.
LoseAnswer(p) ==
  /\ LoseConnection(p)
  /\ Make(p) /\ Exit(p)
  /\ UNCHANGED <<server, starts>>

\* The session of a process that is gone, or is not connected, ends.
InUse(s) == \E p \in Providers : Running(p) /\ session[p] = s /\ link[p] = "connected"

EndSession(s) ==
  /\ server[s] = "alive" /\ ~InUse(s)
  /\ server' = [server EXCEPT ![s] = "ended"]
  /\ instances' = {i \in instances : i.owner # s}
  /\ UNCHANGED <<nodes, faults, starts, runVars, sessionVars>>

Crash(p) ==
  /\ Running(p)
  /\ End(p, "off")
  /\ UNCHANGED <<zkVars, server, faults, starts>>

-----------------------------------------------------------------------------
Step(p) == SetContext(p) \/ Wake(p) \/ Exists(p) \/ ZooCreate(p)
Io(p) == Connect(p) \/ LearnExpiry(p)

Next ==
  \/ \E p \in Providers :
       \/ Start(p) \/ InitFails(p) \/ Step(p) \/ Io(p)
       \/ Disconnect(p) \/ LoseAnswer(p) \/ Crash(p)
  \/ \E s \in Session : EndSession(s)

\* A process runs and its ZooKeeper client keeps trying to connect; nothing has
\* to fail, to end or to start again.
Fairness == \A p \in Providers : WF_vars(Step(p) \/ Io(p))

Spec == Init /\ [][Next]_vars /\ Fairness

-----------------------------------------------------------------------------
(* Properties.                                                             *)

TypeOK ==
  /\ nodes \subseteq ServicePaths \cup Methods
  /\ instances \subseteq Instance
  /\ server \in [Session -> {"none", "alive", "ended"}]
  /\ faults \in 0 .. MaxFaults /\ starts \in 0 .. MaxStarts
  /\ pc \in [Providers -> {"off", "init", "wait", "exists", "create", "instance",
                           "serving", "exited"}]
  /\ session \in [Providers -> 0 .. MaxStarts]
  /\ link \in [Providers -> {"connecting", "connected", "expired"}]
  /\ sem \in [Providers -> Nat] /\ missed \in [Providers -> BOOLEAN]
  /\ at \in [Providers -> ServicePaths \cup Methods \cup {<<>>}]
  /\ todo \in [Providers -> SUBSET Methods]
  /\ \A p \in Providers :
       /\ todo[p] \subseteq Published[p]
       /\ pc[p] \in {"init", "wait"} => todo[p] = Published[p]
       /\ pc[p] = "instance" => at[p] \in todo[p]
       /\ pc[p] = "serving" => todo[p] = {}

\* However processes race, fail and start again: a running provider is in
\* ZooKeeper exactly once for each method it has come past, and for no other,
\* as long as its session lives; one that serves is there for all its methods.
\* (After the end of its session it serves on and is not registered again:
\* rpcprovider.cc:93 creates the znode once.)
RegisteredOnce ==
  \A p \in Providers : Running(p) =>
    \A m \in Methods :
      Cardinality(Mine(p, m)) =
        IF m \in Published[p] \ todo[p] /\ server[session[p]] = "alive" THEN 1 ELSE 0

\* Two providers that find a znode missing both create it, and the second one
\* ends (zookeeperutil.cc:98-113).  Yet they never all end: as long as nothing
\* fails, whoever created last is still there.
NotAllExit ==
  faults = 0 => Providers = {} \/ \E p \in Providers : pc[p] # "exited"

\* What callers read out of ZooKeeper is what the configuration of its
\* provider means (mprpcconfig.cc:10-51, rpcprovider.cc:50-51).
AddressIsConfigured ==
  \A i \in instances : \A p \in Providers :
    session[p] = i.owner => i.data = Configured(p)

\* A process sleeps on the semaphore with nothing posted only as long as its
\* session has never been there, or when the I/O thread was too early to find
\* the context (zookeeperutil.cc:60-67): no other order of the two threads, no
\* lost connection and no ended session loses the post.
NoLostPost ==
  \A p \in Providers :
    pc[p] = "wait" /\ sem[p] = 0 => server[session[p]] = "none" \/ missed[p]

\* A process that starts serves, exits or crashes, unless it missed the event:
\* the I/O thread runs before the context is set (zookeeperutil.cc:60-67), and
\* after that only a new connection wakes the process.
EventuallyServes ==
  \A p \in Providers :
    Running(p) ~> pc[p] \in {"serving", "exited", "off"} \/ missed[p]

\* zookeeperutil.cc:97: looking first whether a znode exists avoids creating it
\* twice; so without faults nobody fails to create.
ExitsOnlyOnFault == faults = 0 => \A p \in Providers : pc[p] # "exited"
=============================================================================
