-------------------------- MODULE ServiceDiscovery --------------------------
(***************************************************************************)
(* The client's list of providers of one service.method                    *)
(* (src/src/servicediscovery.cc), the two reads of ZkClient it is built on *)
(* (GetChildrenWithWatch and GetDataWithWatch of src/src/zookeeperutil.cc) *)
(* and the part of ZooKeeper they use.                                     *)
(*                                                                         *)
(* Two kinds of threads refresh the list.  A thread in GetProvider that    *)
(* finds no provider calls WatchMethod, which refreshes once per method in *)
(* the life of the process; every later refresh runs on the completion     *)
(* thread of the ZooKeeper client, one per watch event and one at a time.  *)
(* A refresh is several synchronous ZooKeeper calls and then one           *)
(* assignment under m_mutex; nothing orders the refreshes of the two kinds *)
(* of threads.                                                             *)
(*                                                                         *)
(* ZooKeeper (external): watches are one-shot, a read that fails sets      *)
(* none, and events reach the client in the order of the changes.  The     *)
(* client's own session may end, once: its watches are gone, and every     *)
(* later call fails.  Provider znodes are ephemeral and sequential: each   *)
(* is created once and deleted for good.                                   *)
(***************************************************************************)
EXTENDS Naturals, Sequences, FiniteSets

CONSTANTS
  Callers,             \* threads that call GetProvider
  Zk,                  \* the completion thread of the ZooKeeper client
  MaxNode,             \* provider znodes are 1 .. MaxNode, by sequence number
  Hosts,               \* possible "ip:port" data of a znode
  MaxEdits,            \* bound: changes of a znode's data in a behaviour
  MaxLoss,             \* bound: ZooKeeper calls that fail with a lost connection
  MethodMayBeMissing   \* the client may start before the first provider

Thread == Callers \cup {Zk}
Node == 1 .. MaxNode

ASSUME DiscoveryAssumption ==
  /\ Zk \notin Callers
  /\ MaxNode \in Nat
  /\ MaxEdits \in Nat
  /\ MaxLoss \in Nat
  /\ MethodMayBeMissing \in BOOLEAN
  /\ {"unborn", "gone"} \cap Hosts = {}

VARIABLES
  (* ZooKeeper *)
  methodNode,        \* the znode /service/method exists (it is never deleted)
  znode,             \* per provider znode: "unborn", its host data, "gone"
  childWatch,        \* the child watch on the method znode is set
  dataWatch,         \* the provider znodes whose data watch is set
  events,            \* watch events the completion thread has not taken yet
  expired,           \* the session of the client has ended
  edits, losses,     \* used up of MaxEdits and MaxLoss
  (* ServiceDiscovery *)
  m_service_cache,   \* set of ProviderInfo; no entry and no provider are alike
  m_watched,         \* m_watched_methods[key]
  pc,                \* per thread: where it is, see TypeOK
  todo,              \* per thread in a refresh: children still to be read
  providers,         \* per thread in a refresh: the local vector
  result,            \* per caller: what its last GetProvider returned
  (* history *)
  overtaken          \* a caller's refresh installs, or has installed, a list
                     \* read before the one it overwrites

zkVars == <<methodNode, znode, childWatch, dataWatch, events, expired, edits>>
cacheVars == <<m_service_cache, m_watched>>
refreshVars == <<todo, providers>>
vars == <<zkVars, losses, cacheVars, pc, refreshVars, result, overtaken>>

Live == {n \in Node : znode[n] \in Hosts}
ProviderInfo == [node_name : Node, host_data : Hosts]
Registered == {[node_name |-> n, host_data |-> znode[n]] : n \in Live}

\* The watchers look at the path of an event only for the method it belongs to.
Event == {"child", "deleted", "changed"}

TypeOK ==
  /\ methodNode \in BOOLEAN
  /\ znode \in [Node -> {"unborn", "gone"} \cup Hosts]
  /\ childWatch \in BOOLEAN
  /\ dataWatch \in SUBSET Node
  /\ events \in Seq(Event)
  /\ expired \in BOOLEAN
  /\ edits \in 0 .. MaxEdits
  /\ losses \in 0 .. MaxLoss
  /\ m_service_cache \in SUBSET ProviderInfo
  /\ m_watched \in BOOLEAN
  /\ pc \in [Thread -> {"idle", "watch", "children", "data", "again"}]
  /\ todo \in [Thread -> SUBSET Node]
  /\ providers \in [Thread -> SUBSET ProviderInfo]
  /\ result \in [Callers -> {"none", "found", "failed"}]
  /\ overtaken \in BOOLEAN

Init ==
  /\ methodNode \in (IF MethodMayBeMissing THEN BOOLEAN ELSE {TRUE})
  /\ znode = [n \in Node |-> "unborn"]
  /\ childWatch = FALSE
  /\ dataWatch = {}
  /\ events = <<>>
  /\ expired = FALSE
  /\ edits = 0
  /\ losses = 0
  /\ m_service_cache = {}
  /\ m_watched = FALSE
  /\ pc = [t \in Thread |-> "idle"]
  /\ todo = [t \in Thread |-> {}]
  /\ providers = [t \in Thread |-> {}]
  /\ result = [c \in Callers |-> "none"]
  /\ overtaken = FALSE

Goto(t, label) == pc' = [pc EXCEPT ![t] = label]
Refreshing(t) == pc[t] \in {"children", "data"}

-----------------------------------------------------------------------------
(* ZooKeeper and the providers.                                            *)

\* The event a set child watch turns into, once.
FireChild == IF childWatch THEN <<"child">> ELSE <<>>
FireData(kind, n) == IF n \in dataWatch THEN <<kind>> ELSE <<>>

\* RpcProvider::Run of the first provider creates the method znode; no watch
\* can be set on a znode that does not exist.
CreateMethod ==
  /\ ~methodNode
  /\ methodNode' = TRUE
  /\ UNCHANGED <<znode, childWatch, dataWatch, events, expired, edits, losses,
                 cacheVars, pc, refreshVars, result, overtaken>>

\* A provider registers at host h: it creates the next sequential znode.
Register(n, h) ==
  /\ methodNode
  /\ znode[n] = "unborn"
  /\ \A m \in Node : m < n => znode[m] # "unborn"
  /\ znode' = [znode EXCEPT ![n] = h]
  /\ events' = events \o FireChild
  /\ childWatch' = FALSE
  /\ UNCHANGED <<methodNode, dataWatch, expired, edits, losses, cacheVars, pc,
                 refreshVars, result, overtaken>>

\* The session of the provider ends and its ephemeral znode with it.  The
\* server fires the data watch of the znode before the child watch of its
\* parent.
Expire(n) ==
  /\ n \in Live
  /\ znode' = [znode EXCEPT ![n] = "gone"]
  /\ events' = events \o FireData("deleted", n) \o FireChild
  /\ dataWatch' = dataWatch \ {n}
  /\ childWatch' = FALSE
  /\ UNCHANGED <<methodNode, expired, edits, losses, cacheVars, pc, refreshVars,
                 result, overtaken>>

\* Somebody rewrites the address in a provider znode.
Edit(n, h) ==
  /\ n \in Live
  /\ h # znode[n]
  /\ edits < MaxEdits
  /\ edits' = edits + 1
  /\ znode' = [znode EXCEPT ![n] = h]
  /\ events' = events \o FireData("changed", n)
  /\ dataWatch' = dataWatch \ {n}
  /\ UNCHANGED <<methodNode, childWatch, expired, losses, cacheVars, pc,
                 refreshVars, result, overtaken>>

\* The session of the client ends.  Both watchers are told, but look for other
\* types of events (servicediscovery.cc:140, 160).
EndSession ==
  /\ ~expired
  /\ expired' = TRUE
  /\ childWatch' = FALSE
  /\ dataWatch' = {}
  /\ UNCHANGED <<methodNode, znode, events, edits, losses, cacheVars, pc,
                 refreshVars, result, overtaken>>

-----------------------------------------------------------------------------
(* Slips used by the mutant runs only.                                     *)

\* GetChildren in the place of GetChildrenWithWatch.
GetChildrenPlain(children) ==
  /\ children = IF methodNode /\ ~expired THEN Live ELSE {}
  /\ UNCHANGED <<childWatch, losses>>

\* GetData in the place of GetDataWithWatch.
GetDataPlain(n, found) ==
  /\ found = {r \in Registered : r.node_name = n /\ ~expired}
  /\ UNCHANGED <<dataWatch, losses>>

\* WatchMethod that forgets to set m_watched_methods[key].
WatchEveryTime(c) ==
  /\ pc[c] = "watch"
  /\ Goto(c, "children")
  /\ UNCHANGED <<zkVars, losses, cacheVars, refreshVars, result, overtaken>>

\* MethodChildrenWatcher that does not list the type of the event.
IgnoreChildEvent ==
  /\ pc[Zk] = "idle"
  /\ events # <<>> /\ Head(events) = "child"
  /\ events' = Tail(events)
  /\ UNCHANGED <<methodNode, znode, childWatch, dataWatch, expired, edits,
                 losses, cacheVars, pc, refreshVars, result, overtaken>>

-----------------------------------------------------------------------------
(* ZkClient: one synchronous call is one step.  What the call returns is   *)
(* the operator's last argument; a call that fails, for lack of the znode, *)
(* of the connection or of the session, returns nothing and sets no watch. *)

GetChildrenWithWatch(children) ==
  \/ /\ methodNode /\ ~expired
     /\ children = Live
     /\ childWatch' = TRUE
     /\ UNCHANGED losses
  \/ /\ ~methodNode \/ expired
     /\ children = {}
     /\ UNCHANGED <<childWatch, losses>>
  \/ /\ losses < MaxLoss
     /\ losses' = losses + 1
     /\ children = {}
     /\ UNCHANGED childWatch

GetDataWithWatch(n, found) ==
  \/ /\ n \in Live /\ ~expired
     /\ found = {[node_name |-> n, host_data |-> znode[n]]}
     /\ dataWatch' = dataWatch \cup {n}
     /\ UNCHANGED losses
  \/ /\ n \notin Live \/ expired
     /\ found = {}
     /\ UNCHANGED <<dataWatch, losses>>
  \/ /\ losses < MaxLoss
     /\ losses' = losses + 1
     /\ found = {}
     /\ UNCHANGED dataWatch

-----------------------------------------------------------------------------
(* RefreshMethodProviders of thread t.                                     *)

GetChildren(t) ==
  /\ pc[t] = "children"
  /\ \E children \in SUBSET Node :
       /\ GetChildrenWithWatch(children)
       /\ todo' = [todo EXCEPT ![t] = children]
  /\ providers' = [providers EXCEPT ![t] = {}]
  /\ Goto(t, "data")
  /\ UNCHANGED <<methodNode, znode, dataWatch, events, expired, edits, cacheVars,
                 result, overtaken>>

\* The children are read in the order of their names.
GetData(t, n) ==
  /\ pc[t] = "data"
  /\ n \in todo[t]
  /\ \A m \in todo[t] : n <= m
  /\ \E found \in SUBSET ProviderInfo :
       /\ GetDataWithWatch(n, found)
       /\ providers' = [providers EXCEPT ![t] = @ \cup found]
  /\ todo' = [todo EXCEPT ![t] = @ \ {n}]
  /\ UNCHANGED <<methodNode, znode, childWatch, events, expired, edits,
                 cacheVars, pc, result, overtaken>>

\* Slip used by a mutant run: an empty list does not replace the cache.
InstallUnlessEmpty(t) ==
  /\ pc[t] = "data"
  /\ todo[t] = {}
  /\ m_service_cache' =
       IF providers[t] = {} THEN m_service_cache ELSE providers[t]
  /\ providers' = [providers EXCEPT ![t] = {}]
  /\ Goto(t, IF t = Zk THEN "idle" ELSE "again")
  /\ UNCHANGED <<zkVars, losses, m_watched, todo, result, overtaken>>

\* m_service_cache[key] = providers, and the refresh returns.
Install(t) ==
  /\ pc[t] = "data"
  /\ todo[t] = {}
  /\ m_service_cache' = providers[t]
  /\ providers' = [providers EXCEPT ![t] = {}]
  /\ Goto(t, IF t = Zk THEN "idle" ELSE "again")
  /\ overtaken' = IF t = Zk THEN \E c \in Callers : pc[c] = "data"
                            ELSE overtaken
  /\ UNCHANGED <<zkVars, losses, m_watched, todo, result>>

-----------------------------------------------------------------------------
(* GetProvider of caller c, with WatchMethod in its middle.                *)

Return(c, outcome) ==
  /\ Goto(c, "idle")
  /\ result' = [result EXCEPT ![c] = outcome]

\* First look into the cache, under m_mutex.
LookUp(c) ==
  /\ pc[c] = "idle"
  /\ IF m_service_cache # {}
       THEN Return(c, "found")
       ELSE Goto(c, "watch") /\ UNCHANGED result
  /\ UNCHANGED <<zkVars, losses, cacheVars, refreshVars, overtaken>>

\* WatchMethod up to the refresh: the flag is tested and set under m_mutex.
WatchMethod(c) ==
  /\ pc[c] = "watch"
  /\ m_watched' = TRUE
  /\ Goto(c, IF m_watched THEN "again" ELSE "children")
  /\ UNCHANGED <<zkVars, losses, m_service_cache, refreshVars, result,
                 overtaken>>

\* Second look into the cache.
LookAgain(c) ==
  /\ pc[c] = "again"
  /\ Return(c, IF m_service_cache # {} THEN "found" ELSE "failed")
  /\ UNCHANGED <<zkVars, losses, cacheVars, refreshVars, overtaken>>

-----------------------------------------------------------------------------
(* The completion thread hands the next event to the watcher it belongs    *)
(* to; both watchers refresh the method of the path.                       *)

TakeEvent ==
  /\ pc[Zk] = "idle"
  /\ events' = Tail(events)
  /\ Goto(Zk, "children")
  /\ UNCHANGED <<methodNode, znode, childWatch, dataWatch, expired, edits,
                 losses, cacheVars, refreshVars, result, overtaken>>

MethodChildrenWatcher ==
  /\ events # <<>> /\ Head(events) = "child"
  /\ TakeEvent

ProviderDataWatcher ==
  /\ events # <<>> /\ Head(events) # "child"
  /\ TakeEvent

-----------------------------------------------------------------------------
Environment ==
  \/ CreateMethod
  \/ EndSession
  \/ \E n \in Node : Expire(n) \/ \E h \in Hosts : Register(n, h) \/ Edit(n, h)

Refresh(t) == GetChildren(t) \/ (\E n \in Node : GetData(t, n)) \/ Install(t)
CallerStep(c) == LookUp(c) \/ WatchMethod(c) \/ Refresh(c) \/ LookAgain(c)
ZkStep == MethodChildrenWatcher \/ ProviderDataWatcher \/ Refresh(Zk)

Next == Environment \/ (\E c \in Callers : CallerStep(c)) \/ ZkStep

(* Threads run, and a synchronous ZooKeeper call returns (with an error if *)
(* need be).  No provider has to come, go or change.                       *)
Fairness ==
  /\ WF_vars(ZkStep)
  /\ \A c \in Callers : WF_vars(CallerStep(c))

SafetySpec == Init /\ [][Next]_vars
Spec == SafetySpec /\ Fairness

-----------------------------------------------------------------------------
(* Properties.                                                             *)

\* Once a method is watched, no change of its children can pass unnoticed as
\* long as the session lives: the child watch is set, or an event that leads to
\* setting it again waits, or some refresh is about to set it.  servicediscovery.cc:87 and 139: every
\* refresh sets the watch again, and the watcher is there for children that
\* change and for a node that is created.
NeverDeaf ==
  m_watched /\ ~expired =>
    childWatch \/ events # <<>> \/ \E t \in Thread : pc[t] = "children"

\* WatchMethod starts at most one refresh (servicediscovery.cc:40-47), so at
\* most one caller's refresh ever races the completion thread.
OneInitialRefresh ==
  \A c, d \in Callers : Refreshing(c) /\ Refreshing(d) => c = d

Quiet ==
  m_watched /\ ~expired /\ events = <<>> /\ \A t \in Thread : ~Refreshing(t)

\* When nothing is under way and the session lives, the cache holds exactly the
\* registered providers with the addresses they have now, unless a caller's
\* refresh has been overtaken by a newer one.
CacheCurrent == Quiet /\ ~overtaken => m_service_cache = Registered

\* An entry of the cache that is wrong (the provider is gone, or has another
\* address) is about to be replaced: an event waits or the completion thread
\* is refreshing.  It holds even when ZooKeeper calls fail, since an entry is
\* only made by a read that set its data watch; failed calls cost entries,
\* they never keep wrong ones (zookeeperutil.cc:178-191).  What the cache holds
\* when the session ends may stay for good.
WrongEntryIsNoticed ==
  \A r \in m_service_cache :
    \/ r \in Registered
    \/ events # <<>>
    \/ Refreshing(Zk)
    \/ overtaken
    \/ expired

\* servicediscovery.cc:87 says a refresh takes the latest list of providers;
\* so when nothing is under way the cache is that list.
CacheIsLatest == Quiet => m_service_cache = Registered

Cached(n) == \E r \in m_service_cache : r.node_name = n

\* A provider that is gone does not stay in the cache, unless a refresh has
\* been overtaken or the session has ended.
GoneIsEvicted ==
  \A n \in Node : znode[n] = "gone" ~> ~Cached(n) \/ overtaken \/ expired

\* A provider of a watched method gets into the cache, unless it goes first, a
\* refresh has been overtaken or the session has ended.
LiveIsDiscovered ==
  \A n \in Node :
    (m_watched /\ n \in Live) ~> Cached(n) \/ n \notin Live \/ overtaken \/ expired

=============================================================================
