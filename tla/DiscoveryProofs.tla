--------------------------- MODULE DiscoveryProofs ---------------------------
(***************************************************************************)
(* Theorems about ServiceDiscovery, for any number of callers, providers,  *)
(* addresses, changes and failed calls.                                    *)
(***************************************************************************)
EXTENDS ServiceDiscovery, TLAPS

-----------------------------------------------------------------------------
(* Type correctness.                                                       *)

LEMMA TypeInit == Init => TypeOK
<1> SUFFICES ASSUME Init
             PROVE  TypeOK
  OBVIOUS
<1>1. methodNode \in BOOLEAN
  BY DEF Init
<1>2. edits \in 0 .. MaxEdits /\ losses \in 0 .. MaxLoss
  BY DiscoveryAssumption DEF Init
<1>3. events \in Seq(Event)
  BY DEF Init
<1> QED
  BY <1>1, <1>2, <1>3 DEF Init, TypeOK

\* The events a change appends are watch events.
LEMMA EventTypes ==
  ASSUME NEW n \in Node, events \in Seq(Event), NEW kind \in {"deleted", "changed"}
  PROVE  /\ FireChild \in Seq(Event)
         /\ FireData(kind, n) \in Seq(Event)
         /\ events \o FireChild \in Seq(Event)
         /\ events \o FireData(kind, n) \in Seq(Event)
         /\ events \o FireData(kind, n) \o FireChild \in Seq(Event)
<1>1. FireChild \in Seq(Event)
  <2>1. "child" \in Event
    BY DEF Event
  <2>2. << >> \in Seq(Event) /\ <<"child">> \in Seq(Event)
    BY <2>1
  <2> QED
    BY <2>2 DEF FireChild
<1>2. FireData(kind, n) \in Seq(Event)
  <2>1. kind \in Event
    BY DEF Event
  <2>2. << >> \in Seq(Event) /\ <<kind>> \in Seq(Event)
    BY <2>1
  <2> QED
    BY <2>2 DEF FireData
<1> QED
  BY <1>1, <1>2

LEMMA TypeEnvironment == TypeOK /\ Environment => TypeOK'
<1> SUFFICES ASSUME TypeOK, Environment
             PROVE  TypeOK'
  OBVIOUS
<1> USE DiscoveryAssumption DEF TypeOK, cacheVars, refreshVars
<1>1. CASE CreateMethod
  BY <1>1 DEF CreateMethod
<1>2. ASSUME NEW n \in Node, NEW h \in Hosts, Register(n, h)
      PROVE  TypeOK'
  BY <1>2, EventTypes DEF Register
<1>3. ASSUME NEW n \in Node, Expire(n)
      PROVE  TypeOK'
  BY <1>3, EventTypes DEF Expire
<1>4. ASSUME NEW n \in Node, NEW h \in Hosts, Edit(n, h)
      PROVE  TypeOK'
  BY <1>4, EventTypes DEF Edit
<1>5. CASE EndSession
  BY <1>5 DEF EndSession
<1> QED
  BY <1>1, <1>2, <1>3, <1>4, <1>5 DEF Environment

LEMMA TypeRefresh ==
  ASSUME TypeOK, NEW t \in Thread, Refresh(t)
  PROVE  TypeOK'
<1> USE DiscoveryAssumption DEF TypeOK, cacheVars, zkVars, Goto
<1>1. CASE GetChildren(t)
  <2>1. PICK children \in SUBSET Node :
          /\ GetChildrenWithWatch(children)
          /\ todo' = [todo EXCEPT ![t] = children]
    BY <1>1 DEF GetChildren
  <2>2. childWatch' \in BOOLEAN
    BY <2>1, Zenon DEF GetChildrenWithWatch
  <2>3. losses' \in 0 .. MaxLoss
    <3>1. losses' = losses \/ (losses < MaxLoss /\ losses' = losses + 1)
      BY <2>1 DEF GetChildrenWithWatch
    <3> QED
      BY <3>1
  <2>4. /\ todo' \in [Thread -> SUBSET Node]
        /\ providers' \in [Thread -> SUBSET ProviderInfo]
    BY <1>1, <2>1 DEF GetChildren
  <2>5. pc' \in [Thread -> {"idle", "watch", "children", "data", "again"}]
    BY <1>1 DEF GetChildren
  <2> QED
    BY <1>1, <2>2, <2>3, <2>4, <2>5 DEF GetChildren
<1>2. ASSUME NEW n \in Node, GetData(t, n)
      PROVE  TypeOK'
  <2>1. PICK found \in SUBSET ProviderInfo :
          /\ GetDataWithWatch(n, found)
          /\ providers' = [providers EXCEPT ![t] = @ \cup found]
    BY <1>2 DEF GetData
  <2>2. providers' \in [Thread -> SUBSET ProviderInfo]
    BY <2>1
  <2>3. dataWatch' \in SUBSET Node /\ losses' \in 0 .. MaxLoss
    BY <2>1 DEF GetDataWithWatch
  <2>4. todo' \in [Thread -> SUBSET Node]
    BY <1>2 DEF GetData
  <2> QED
    BY <1>2, <2>2, <2>3, <2>4 DEF GetData
<1>3. CASE Install(t)
  BY <1>3 DEF Install
<1> QED
  BY <1>1, <1>2, <1>3 DEF Refresh

LEMMA TypeCaller ==
  ASSUME TypeOK, NEW c \in Callers, LookUp(c) \/ WatchMethod(c) \/ LookAgain(c)
  PROVE  TypeOK'
<1> USE DEF TypeOK, Thread, Goto, Return, zkVars, cacheVars, refreshVars
<1>1. CASE LookUp(c)
  BY <1>1 DEF LookUp
<1>2. CASE WatchMethod(c)
  BY <1>2 DEF WatchMethod
<1>3. CASE LookAgain(c)
  BY <1>3 DEF LookAgain
<1> QED
  BY <1>1, <1>2, <1>3

LEMMA TypeEvent ==
  ASSUME TypeOK, MethodChildrenWatcher \/ ProviderDataWatcher
  PROVE  TypeOK'
<1>1. events # <<>> /\ TakeEvent
  BY DEF MethodChildrenWatcher, ProviderDataWatcher
<1>2. Tail(events) \in Seq(Event)
  BY <1>1 DEF TypeOK
<1> QED
  BY <1>1, <1>2 DEF TypeOK, TakeEvent, Goto, Thread, cacheVars, refreshVars

LEMMA TypeStep == TypeOK /\ [Next]_vars => TypeOK'
<1> SUFFICES ASSUME TypeOK, [Next]_vars
             PROVE  TypeOK'
  OBVIOUS
<1>1. CASE Environment
  BY <1>1, TypeEnvironment
<1>2. ASSUME NEW c \in Callers, CallerStep(c)
      PROVE  TypeOK'
  BY <1>2, TypeRefresh, TypeCaller DEF CallerStep, Thread
<1>3. CASE ZkStep
  BY <1>3, TypeRefresh, TypeEvent DEF ZkStep, Thread
<1>4. CASE UNCHANGED vars
  BY <1>4 DEF vars, zkVars, cacheVars, refreshVars, TypeOK
<1> QED
  BY <1>1, <1>2, <1>3, <1>4 DEF Next

\* Every variable of the service discovery keeps its type, whatever calls fail.
THEOREM TypeCorrect == SafetySpec => []TypeOK
BY TypeInit, TypeStep, PTL DEF SafetySpec

-----------------------------------------------------------------------------
(* WatchMethod lets one caller refresh, once.                              *)

\* A caller that refreshes has set the flag, and no two callers refresh.
FlagInv ==
  /\ \A c \in Callers : Refreshing(c) => m_watched
  /\ OneInitialRefresh

\* The flag keeps its value and no caller starts to refresh.
LEMMA FlagKept ==
  ASSUME FlagInv, m_watched' = m_watched,
         \A c \in Callers : Refreshing(c)' => Refreshing(c)
  PROVE  FlagInv'
BY DEF FlagInv, OneInitialRefresh

LEMMA FlagStep == TypeOK /\ FlagInv /\ [Next]_vars => FlagInv'
<1> SUFFICES ASSUME TypeOK, FlagInv, [Next]_vars
             PROVE  FlagInv'
  OBVIOUS
<1> USE DEF cacheVars, Goto, Thread
<1>1. CASE Environment
  <2>1. UNCHANGED <<m_watched, pc>>
    BY <1>1 DEF Environment, CreateMethod, Expire, Register, Edit, EndSession
  <2> QED
    BY <2>1, FlagKept DEF Refreshing
<1>2. ASSUME NEW c \in Callers, WatchMethod(c)
      PROVE  FlagInv'
  <2>1. /\ m_watched' = TRUE
        /\ pc' = [pc EXCEPT ![c] = IF m_watched THEN "again" ELSE "children"]
    BY <1>2 DEF WatchMethod
  <2>2. CASE m_watched
    BY <2>1, <2>2, FlagKept DEF TypeOK, Refreshing
  <2>3. CASE ~m_watched
    <3>1. \A d \in Callers : ~Refreshing(d)
      BY <2>3 DEF FlagInv
    <3> QED
      BY <2>1, <3>1 DEF TypeOK, FlagInv, OneInitialRefresh, Refreshing
  <2> QED
    BY <2>2, <2>3 DEF TypeOK
<1>3. ASSUME NEW c \in Callers, LookUp(c) \/ LookAgain(c)
      PROVE  FlagInv'
  <2>1. /\ m_watched' = m_watched
        /\ pc' = [pc EXCEPT ![c] = "idle"] \/ pc' = [pc EXCEPT ![c] = "watch"]
           \/ pc' = pc
    BY <1>3 DEF LookUp, LookAgain, Return
  <2> QED
    BY <2>1, FlagKept DEF TypeOK, Refreshing
<1>4. ASSUME NEW t \in Thread, Refresh(t)
      PROVE  FlagInv'
  <2>1. /\ m_watched' = m_watched
        /\ \/ pc[t] = "children" /\ pc' = [pc EXCEPT ![t] = "data"]
           \/ pc' = [pc EXCEPT ![t] = IF t = Zk THEN "idle" ELSE "again"]
           \/ pc' = pc
    BY <1>4 DEF Refresh, GetChildren, GetData, Install
  <2> QED
    BY <2>1, FlagKept DEF TypeOK, Refreshing
<1>5. CASE MethodChildrenWatcher \/ ProviderDataWatcher
  <2>1. m_watched' = m_watched /\ pc' = [pc EXCEPT ![Zk] = "children"]
    BY <1>5 DEF MethodChildrenWatcher, ProviderDataWatcher, TakeEvent
  <2> QED
    BY <2>1, FlagKept, DiscoveryAssumption DEF TypeOK, Refreshing
<1>6. CASE UNCHANGED vars
  BY <1>6, FlagKept DEF vars, Refreshing
<1> QED
  BY <1>1, <1>2, <1>3, <1>4, <1>5, <1>6 DEF Next, CallerStep, ZkStep

\* m_watched_methods keeps a second caller from refreshing: the completion
\* thread never races more than one.
THEOREM OneCallerRefreshes == SafetySpec => []OneInitialRefresh
<1>1. Init => FlagInv
  BY DEF Init, FlagInv, OneInitialRefresh, Refreshing, Thread
<1>2. FlagInv => OneInitialRefresh
  BY DEF FlagInv
<1> QED
  BY <1>1, <1>2, FlagStep, TypeCorrect, PTL DEF SafetySpec


-----------------------------------------------------------------------------
(* A watched method is never left without a watch, as long as its znode is *)
(* there from the start and no ZooKeeper call fails.                       *)

LEMMA NeverDeafStep ==
  ASSUME MaxLoss = 0
  PROVE  TypeOK /\ methodNode /\ NeverDeaf /\ [Next]_vars
           => methodNode' /\ NeverDeaf'
<1> SUFFICES ASSUME TypeOK, methodNode, NeverDeaf, [Next]_vars
             PROVE  methodNode' /\ NeverDeaf'
  OBVIOUS
<1> USE DEF cacheVars, zkVars, Goto, Thread, NeverDeaf
<1>1. CASE Environment
  <2>1. UNCHANGED <<m_watched, pc>> /\ methodNode'
    BY <1>1 DEF Environment, CreateMethod, Expire, Register, Edit, EndSession
  <2>2. CASE events' # <<>> \/ EndSession
    BY <2>1, <2>2 DEF EndSession
  <2>3. CASE events' = <<>> /\ ~EndSession
    <3>1. ASSUME NEW n \in Node, NEW kind \in {"deleted", "changed"}
          PROVE  /\ events \o FireChild = <<>> => events = <<>> /\ ~childWatch
                 /\ events \o FireData(kind, n) = <<>> => events = <<>>
                 /\ events \o FireData(kind, n) \o FireChild = <<>>
                      => events = <<>> /\ ~childWatch
      <4>1. /\ events \in Seq(Event) /\ FireChild \in Seq(Event)
            /\ FireData(kind, n) \in Seq(Event)
        BY EventTypes DEF TypeOK
      <4>2. FireChild = <<>> => ~childWatch
        BY DEF FireChild
      <4> QED
        BY <4>1, <4>2
    <3>2. /\ events = <<>> /\ (childWatch' = childWatch \/ ~childWatch)
          /\ UNCHANGED expired
      BY <1>1, <2>3, <3>1 DEF Environment, CreateMethod, Expire, Register, Edit
    <3> QED
      BY <2>1, <3>2
  <2> QED
    BY <2>2, <2>3
<1>2. ASSUME NEW c \in Callers, WatchMethod(c)
      PROVE  methodNode' /\ NeverDeaf'
  BY <1>2 DEF WatchMethod, TypeOK
<1>3. ASSUME NEW c \in Callers, LookUp(c) \/ LookAgain(c)
      PROVE  methodNode' /\ NeverDeaf'
  <2>1. /\ UNCHANGED <<m_watched, childWatch, events, methodNode, expired>>
        /\ \A t \in Thread : pc[t] = "children" => pc'[t] = "children"
    BY <1>3 DEF LookUp, LookAgain, Return, TypeOK
  <2> QED
    BY <2>1
<1>4. ASSUME NEW t \in Thread, GetChildren(t)
      PROVE  methodNode' /\ NeverDeaf'
  <2>1. PICK children : GetChildrenWithWatch(children)
    BY <1>4 DEF GetChildren
  <2>2. childWatch' \/ expired
    BY <2>1 DEF GetChildrenWithWatch, TypeOK
  <2> QED
    BY <1>4, <2>2 DEF GetChildren
<1>5. ASSUME NEW t \in Thread, NEW n \in Node, GetData(t, n)
      PROVE  methodNode' /\ NeverDeaf'
  BY <1>5 DEF GetData
<1>6. ASSUME NEW t \in Thread, Install(t)
      PROVE  methodNode' /\ NeverDeaf'
  <2>1. /\ UNCHANGED <<m_watched, childWatch, events, methodNode, expired>>
        /\ \A u \in Thread : pc[u] = "children" => pc'[u] = "children"
    BY <1>6 DEF Install, TypeOK
  <2> QED
    BY <2>1
<1>7. CASE MethodChildrenWatcher \/ ProviderDataWatcher
  BY <1>7 DEF MethodChildrenWatcher, ProviderDataWatcher, TakeEvent, TypeOK
<1>8. CASE UNCHANGED vars
  BY <1>8 DEF vars
<1> QED
  BY <1>1, <1>2, <1>3, <1>4, <1>5, <1>6, <1>7, <1>8
     DEF Next, CallerStep, ZkStep, Refresh

\* With the method znode there and no failed call, a watched method has its
\* child watch set, an event waiting, or a refresh about to set the watch.
THEOREM WatchedIsNeverDeaf ==
  ASSUME MaxLoss = 0, MethodMayBeMissing = FALSE
  PROVE  SafetySpec => []NeverDeaf
<1>1. Init => methodNode /\ NeverDeaf
  BY DEF Init, NeverDeaf
<1>2. TypeOK /\ methodNode /\ NeverDeaf /\ [Next]_vars
        => methodNode' /\ NeverDeaf'
  BY NeverDeafStep
<1> QED
  BY <1>1, <1>2, TypeCorrect, PTL DEF SafetySpec

-----------------------------------------------------------------------------
(* Wrong entries are noticed, whatever ZooKeeper calls fail.               *)

\* What a successful GetDataWithWatch leaves behind: the entry is right and
\* its data watch is set.
Guarded(r) == r \in Registered /\ r.node_name \in dataWatch

\* An entry is guarded, or the change that made it wrong is in an event, or is
\* being acted on; a caller's list may also have been overtaken.  While the
\* completion thread reads, it takes no event, so what it reads is guarded or
\* an event waits.
NoticeInv ==
  /\ \A r \in m_service_cache :
       Guarded(r) \/ events # <<>> \/ Refreshing(Zk) \/ overtaken \/ expired
  /\ \A c \in Callers : \A r \in providers[c] :
       /\ pc[c] = "data"
       /\ Guarded(r) \/ events # <<>> \/ Refreshing(Zk) \/ overtaken \/ expired
  /\ \A r \in providers[Zk] :
       pc[Zk] = "data" /\ (Guarded(r) \/ events # <<>> \/ expired)

\* A change of a guarded entry puts an event into the queue.
LEMMA EnvironmentNotices ==
  ASSUME TypeOK, Environment
  PROVE  /\ events # <<>> => events' # <<>>
         /\ expired => expired'
         /\ \A r \in ProviderInfo :
              Guarded(r) => Guarded(r)' \/ events' # <<>> \/ expired'
         /\ UNCHANGED <<m_service_cache, providers, pc, overtaken>>
<1> USE DEF cacheVars, refreshVars
<1>1. CASE CreateMethod
  BY <1>1 DEF CreateMethod, Guarded, Registered, Live
<1>2. ASSUME NEW n \in Node, NEW h \in Hosts, Register(n, h)
      PROVE  /\ events # <<>> => events' # <<>>
             /\ \A r \in ProviderInfo : Guarded(r) => Guarded(r)'
  <2>1. events # <<>> => events' # <<>>
    BY <1>2, EventTypes DEF Register, TypeOK
  <2>2. n \notin Live
    BY <1>2, DiscoveryAssumption DEF Register, Live
  <2>3. \A r \in ProviderInfo : Guarded(r) => Guarded(r)'
    BY <1>2, <2>2 DEF Register, Guarded, Registered, Live, TypeOK
  <2> QED
    BY <2>1, <2>3
<1>3. ASSUME NEW n \in Node, NEW kind \in {"deleted", "changed"},
             events' = events \o FireData(kind, n)
               \/ events' = events \o FireData(kind, n) \o FireChild,
             NEW v, znode' = [znode EXCEPT ![n] = v],
             dataWatch' = dataWatch \ {n}
      PROVE  /\ events # <<>> => events' # <<>>
             /\ \A r \in ProviderInfo : Guarded(r) => Guarded(r)' \/ events' # <<>>
  <2>1. /\ events \in Seq(Event) /\ FireChild \in Seq(Event)
        /\ FireData(kind, n) \in Seq(Event)
    BY EventTypes DEF TypeOK
  <2>2. /\ events # <<>> => events' # <<>>
        /\ FireData(kind, n) # <<>> => events' # <<>>
    BY <1>3, <2>1
  <2>3. n \in dataWatch => FireData(kind, n) # <<>>
    BY DEF FireData
  <2>4. ASSUME NEW r \in ProviderInfo, Guarded(r)
        PROVE  Guarded(r)' \/ events' # <<>>
    <3>1. CASE r.node_name = n
      BY <2>2, <2>3, <2>4, <3>1 DEF Guarded
    <3>2. CASE r.node_name # n
      BY <1>3, <2>4, <3>2 DEF Guarded, Registered, Live, TypeOK
    <3> QED
      BY <3>1, <3>2
  <2> QED
    BY <2>2, <2>4
<1>4. ASSUME NEW n \in Node, Expire(n)
      PROVE  /\ events # <<>> => events' # <<>>
             /\ \A r \in ProviderInfo : Guarded(r) => Guarded(r)' \/ events' # <<>>
  BY <1>3, <1>4 DEF Expire
<1>5. ASSUME NEW n \in Node, NEW h \in Hosts, Edit(n, h)
      PROVE  /\ events # <<>> => events' # <<>>
             /\ \A r \in ProviderInfo : Guarded(r) => Guarded(r)' \/ events' # <<>>
  BY <1>3, <1>5 DEF Edit
<1>6. CASE EndSession
  BY <1>6 DEF EndSession
<1>7. /\ UNCHANGED <<m_service_cache, providers, pc, overtaken>>
      /\ expired => expired'
  BY DEF Environment, CreateMethod, Register, Expire, Edit, EndSession
<1> QED
  BY <1>1, <1>2, <1>4, <1>5, <1>6, <1>7 DEF Environment

\* Watches set and nothing else: what is guarded stays guarded.
LEMMA GuardedKept ==
  ASSUME UNCHANGED znode, dataWatch \subseteq dataWatch'
  PROVE  \A r : Guarded(r) => Guarded(r)'
BY DEF Guarded, Registered, Live

LEMMA NoticeStep == TypeOK /\ NoticeInv /\ [Next]_vars => NoticeInv'
<1> SUFFICES ASSUME TypeOK, NoticeInv, [Next]_vars
             PROVE  NoticeInv'
  OBVIOUS
<1> USE DEF cacheVars, refreshVars, zkVars, Goto, Thread
<1>1. CASE Environment
  BY <1>1, EnvironmentNotices DEF NoticeInv, Refreshing, TypeOK, Thread
<1>2. ASSUME NEW c \in Callers, LookUp(c) \/ WatchMethod(c) \/ LookAgain(c)
      PROVE  NoticeInv'
  <2>1. /\ pc[c] # "data"
        /\ \A t \in Thread : t # c => pc'[t] = pc[t]
        /\ UNCHANGED <<znode, dataWatch, events, m_service_cache, providers,
                       overtaken, expired>>
    BY <1>2 DEF LookUp, WatchMethod, LookAgain, Return, TypeOK
  <2>2. providers[c] = {}
    BY <2>1 DEF NoticeInv, TypeOK
  <2> QED
    BY <2>1, <2>2, GuardedKept, DiscoveryAssumption DEF NoticeInv, Refreshing
<1>3. ASSUME NEW t \in Thread, GetChildren(t)
      PROVE  NoticeInv'
  <2>1. /\ pc' = [pc EXCEPT ![t] = "data"]
        /\ pc[t] = "children"
        /\ providers' = [providers EXCEPT ![t] = {}]
        /\ UNCHANGED <<znode, dataWatch, events, m_service_cache, overtaken,
                       expired>>
    BY <1>3 DEF GetChildren
  <2>2. Refreshing(Zk) <=> Refreshing(Zk)'
    BY <2>1 DEF Refreshing, TypeOK
  <2> QED
    BY <2>1, <2>2, GuardedKept DEF NoticeInv, TypeOK
<1>4. ASSUME NEW t \in Thread, NEW n \in Node, GetData(t, n)
      PROVE  NoticeInv'
  <2>1. PICK found \in SUBSET ProviderInfo :
          /\ GetDataWithWatch(n, found)
          /\ providers' = [providers EXCEPT ![t] = @ \cup found]
    BY <1>4 DEF GetData
  <2>2. /\ UNCHANGED <<znode, events, m_service_cache, pc, overtaken, expired>>
        /\ dataWatch \subseteq dataWatch'
        /\ pc[t] = "data"
    BY <1>4, <2>1 DEF GetData, GetDataWithWatch
  <2>3. \A r \in found : Guarded(r)'
    BY <2>1, <2>2 DEF GetDataWithWatch, Guarded, Registered, Live
  <2>4. \A r : Guarded(r) => Guarded(r)'
    BY <2>2, GuardedKept
  <2> QED
    BY <2>1, <2>2, <2>3, <2>4 DEF NoticeInv, Refreshing, TypeOK
<1>5. CASE Install(Zk)
  <2>1. /\ pc' = [pc EXCEPT ![Zk] = "idle"]
        /\ m_service_cache' = providers[Zk]
        /\ providers' = [providers EXCEPT ![Zk] = {}]
        /\ overtaken' = \E c \in Callers : pc[c] = "data"
        /\ UNCHANGED <<znode, dataWatch, events, expired>>
    BY <1>5 DEF Install
  <2>2. \A r : Guarded(r) => Guarded(r)'
    BY <2>1, GuardedKept
  <2>3. \A r \in m_service_cache' : Guarded(r)' \/ events' # <<>> \/ expired'
    BY <2>1, <2>2 DEF NoticeInv
  <2>4. \A c \in Callers : \A r \in providers'[c] :
          pc'[c] = "data" /\ overtaken'
    BY <2>1, DiscoveryAssumption DEF NoticeInv, TypeOK
  <2>5. providers'[Zk] = {}
    BY <2>1 DEF TypeOK
  <2> QED
    BY <2>3, <2>4, <2>5 DEF NoticeInv
<1>6. ASSUME NEW c \in Callers, Install(c)
      PROVE  NoticeInv'
  <2>1. /\ pc' = [pc EXCEPT ![c] = "again"]
        /\ m_service_cache' = providers[c]
        /\ providers' = [providers EXCEPT ![c] = {}]
        /\ UNCHANGED <<znode, dataWatch, events, overtaken, expired>>
    BY <1>6, DiscoveryAssumption DEF Install
  <2>2. Refreshing(Zk) <=> Refreshing(Zk)'
    BY <2>1, DiscoveryAssumption DEF Refreshing, TypeOK
  <2> QED
    BY <2>1, <2>2, GuardedKept, DiscoveryAssumption DEF NoticeInv, TypeOK
<1>7. CASE MethodChildrenWatcher \/ ProviderDataWatcher
  <2>1. /\ pc[Zk] = "idle"
        /\ pc' = [pc EXCEPT ![Zk] = "children"]
        /\ UNCHANGED <<m_service_cache, providers>>
    BY <1>7 DEF MethodChildrenWatcher, ProviderDataWatcher, TakeEvent
  <2>2. Refreshing(Zk)' /\ providers[Zk] = {}
    BY <2>1 DEF Refreshing, NoticeInv, TypeOK
  <2> QED
    BY <2>1, <2>2, DiscoveryAssumption DEF NoticeInv, TypeOK
<1>8. CASE UNCHANGED vars
  BY <1>8 DEF vars, NoticeInv, Guarded, Registered, Live, Refreshing
<1> QED
  BY <1>1, <1>2, <1>3, <1>4, <1>5, <1>6, <1>7, <1>8
     DEF Next, CallerStep, ZkStep, Refresh

\* An entry of the cache that is no longer true is always about to be
\* replaced, unless a caller's refresh has been overtaken: lost connections and
\* a method that does not exist yet never make the cache keep a wrong entry.
THEOREM WrongEntriesAreNoticed == SafetySpec => []WrongEntryIsNoticed
<1>1. Init => NoticeInv
  BY DEF Init, NoticeInv, Thread
<1>2. NoticeInv => WrongEntryIsNoticed
  BY DEF NoticeInv, WrongEntryIsNoticed, Guarded
<1> QED
  BY <1>1, <1>2, NoticeStep, TypeCorrect, PTL DEF SafetySpec

-----------------------------------------------------------------------------
(* The cache is current when nothing is under way, as long as the method   *)
(* znode is there from the start and no ZooKeeper call fails.              *)

\* The providers found are right and watched, and together with the children
\* still to be read they are all there are.
Reads(found, rest) ==
  /\ childWatch
  /\ Live = {r.node_name : r \in found} \cup rest
  /\ \A r \in found : Guarded(r)

\* What the completion thread has read is right or an event waits.
ZkReads ==
  pc[Zk] = "data" /\ ~expired =>
    events # <<>> \/ Reads(providers[Zk], todo[Zk])

\* With the completion thread at rest, the first refresh is still to start, or
\* has read right so far, or is over and the cache is right.
CallersRead ==
  m_watched /\ ~expired /\ ~overtaken /\ ~Refreshing(Zk) /\ events = <<>> =>
    \/ \E c \in Callers : pc[c] = "children"
    \/ \E c \in Callers : pc[c] = "data" /\ Reads(providers[c], todo[c])
    \/ /\ \A c \in Callers : ~Refreshing(c)
       /\ Reads(m_service_cache, {})

CurrentInv == methodNode /\ ZkReads /\ CallersRead

\* A list that is right is the list of what is registered.
LEMMA ReadsAll ==
  ASSUME NEW found, Reads(found, {})
  PROVE  found = Registered
<1>1. ASSUME NEW r \in found
      PROVE  r \in Registered
  BY DEF Reads, Guarded
<1>2. ASSUME NEW r \in Registered
      PROVE  r \in found
  <2>1. PICK n \in Live : r = [node_name |-> n, host_data |-> znode[n]]
    BY DEF Registered
  <2>2. PICK q \in found : q.node_name = n
    BY <2>1 DEF Reads
  <2>3. q \in Registered
    BY <1>1
  <2>4. q = [node_name |-> n, host_data |-> znode[n]]
    BY <2>2, <2>3 DEF Registered
  <2> QED
    BY <2>1, <2>4
<1> QED
  BY <1>1, <1>2

\* What was read right stays right, or a change of it is in an event.
LEMMA EnvironmentReads ==
  ASSUME TypeOK, methodNode, Environment,
         NEW found \in SUBSET ProviderInfo, NEW rest, Reads(found, rest)
  PROVE  Reads(found, rest)' \/ events' # <<>> \/ expired'
<1>1. \A r \in found : Guarded(r)' \/ events' # <<>> \/ expired'
  BY EnvironmentNotices DEF Reads
<1>2. CASE CreateMethod \/ EndSession
  BY <1>2 DEF CreateMethod, EndSession
<1>3. ASSUME NEW n \in Node, NEW h \in Hosts, Register(n, h)
      PROVE  events' # <<>>
  BY <1>3, EventTypes DEF Register, FireChild, Reads, TypeOK
<1>4. ASSUME NEW n \in Node, Expire(n)
      PROVE  events' # <<>>
  <2>1. /\ events \in Seq(Event) /\ FireChild \in Seq(Event)
        /\ FireData("deleted", n) \in Seq(Event)
    BY EventTypes DEF TypeOK
  <2>2. FireChild # <<>>
    BY DEF FireChild, Reads
  <2> QED
    BY <1>4, <2>1, <2>2 DEF Expire
<1>5. ASSUME NEW n \in Node, NEW h \in Hosts, Edit(n, h)
      PROVE  childWatch' = childWatch /\ Live' = Live
  BY <1>5 DEF Edit, Live, TypeOK
<1> QED
  BY <1>1, <1>2, <1>3, <1>4, <1>5 DEF Environment, Reads

\* Watches set and nothing else: what was read right stays right.
LEMMA ReadsKept ==
  ASSUME UNCHANGED znode, dataWatch \subseteq dataWatch',
         childWatch => childWatch',
         NEW found, NEW rest, Reads(found, rest)
  PROVE  Reads(found, rest)'
BY GuardedKept DEF Reads, Live

\* The first call of a refresh sets the child watch and leaves all to be read.
LEMMA ChildrenRead ==
  ASSUME MaxLoss = 0, TypeOK, methodNode, ~expired,
         NEW t \in Thread, GetChildren(t)
  PROVE  Reads(providers[t], todo[t])'
<1>1. PICK children \in SUBSET Node :
        /\ GetChildrenWithWatch(children)
        /\ todo' = [todo EXCEPT ![t] = children]
  BY DEF GetChildren
<1>2. childWatch' /\ children = Live
  BY <1>1 DEF GetChildrenWithWatch, TypeOK
<1>3. todo'[t] = Live /\ providers'[t] = {} /\ znode' = znode
  BY <1>1, <1>2 DEF GetChildren, TypeOK
<1> QED
  BY <1>2, <1>3 DEF Reads, Live

\* Every later call moves a child from the rest to what was found.
LEMMA DataRead ==
  ASSUME MaxLoss = 0, TypeOK, ~expired,
         NEW t \in Thread, NEW n \in Node, GetData(t, n),
         Reads(providers[t], todo[t])
  PROVE  Reads(providers[t], todo[t])'
<1>1. PICK found \in SUBSET ProviderInfo :
        /\ GetDataWithWatch(n, found)
        /\ providers' = [providers EXCEPT ![t] = @ \cup found]
  BY DEF GetData
<1>2. /\ todo' = [todo EXCEPT ![t] = @ \ {n}] /\ n \in todo[t]
      /\ UNCHANGED <<znode, childWatch>>
  BY DEF GetData
<1>3. n \in Live
  BY <1>2 DEF Reads
<1>4. /\ found = {[node_name |-> n, host_data |-> znode[n]]}
      /\ dataWatch' = dataWatch \cup {n}
  BY <1>1, <1>3 DEF GetDataWithWatch, TypeOK
<1>5. /\ providers'[t] = providers[t] \cup found
      /\ todo'[t] = todo[t] \ {n}
  BY <1>1, <1>2 DEF TypeOK
<1>6. \A r \in found : Guarded(r)'
  BY <1>2, <1>3, <1>4 DEF Guarded, Registered, Live
<1>7. \A r \in providers[t] : Guarded(r)'
  BY <1>2, <1>4, GuardedKept DEF Reads
<1>8. {r.node_name : r \in providers[t] \cup found}
        = {r.node_name : r \in providers[t]} \cup {n}
  BY <1>4
<1>9. Live' = {r.node_name : r \in providers[t]} \cup todo[t]
  BY <1>2 DEF Reads, Live
<1>10. Live' = {r.node_name : r \in providers'[t]} \cup todo'[t]
  BY <1>2, <1>5, <1>8, <1>9
<1> QED
  BY <1>2, <1>5, <1>6, <1>7, <1>10 DEF Reads

\* A thread that stays out of the refreshes leaves what was read alone.
LEMMA CurrentKept ==
  ASSUME CurrentInv, UNCHANGED <<methodNode, znode, expired, overtaken, events,
                                 m_service_cache, m_watched, refreshVars>>,
         dataWatch \subseteq dataWatch', childWatch => childWatch',
         \A t \in Thread : /\ (pc[t] = "children") = (pc'[t] = "children")
                           /\ (pc[t] = "data") = (pc'[t] = "data")
  PROVE  CurrentInv'
BY ReadsKept DEF CurrentInv, ZkReads, CallersRead, Refreshing, refreshVars, Thread

LEMMA CurrentStep ==
  ASSUME MaxLoss = 0
  PROVE  TypeOK /\ FlagInv /\ CurrentInv /\ [Next]_vars => CurrentInv'
<1> SUFFICES ASSUME TypeOK, FlagInv, CurrentInv, [Next]_vars
             PROVE  CurrentInv'
  OBVIOUS
<1> USE DEF cacheVars, zkVars, Goto, Thread
<1>1. CASE Environment
  <2>1. /\ UNCHANGED <<m_service_cache, m_watched, pc, todo, providers, overtaken>>
        /\ methodNode' /\ (expired => expired')
    <3>1. UNCHANGED <<m_watched, todo>>
      BY <1>1 DEF Environment, CreateMethod, Expire, Register, Edit, EndSession,
         refreshVars
    <3>2. methodNode'
      BY <1>1 DEF Environment, CreateMethod, Expire, Register, Edit, EndSession,
         CurrentInv
    <3> QED
      BY <1>1, <3>1, <3>2, EnvironmentNotices
  <2>2. events # <<>> => events' # <<>>
    BY <1>1, EnvironmentNotices
  <2>3. ASSUME NEW found \in SUBSET ProviderInfo, NEW rest, Reads(found, rest)
        PROVE  Reads(found, rest)' \/ events' # <<>> \/ expired'
    BY <1>1, <2>3, EnvironmentReads DEF CurrentInv
  <2>4. ZkReads'
    BY <2>1, <2>2, <2>3 DEF CurrentInv, ZkReads, TypeOK
  <2>5. CallersRead'
    BY <2>1, <2>2, <2>3 DEF CurrentInv, CallersRead, Refreshing, TypeOK
  <2> QED
    BY <2>1, <2>4, <2>5 DEF CurrentInv
<1>2. ASSUME NEW c \in Callers, WatchMethod(c)
      PROVE  CurrentInv'
  <2>1. CASE m_watched
    BY <1>2, <2>1, CurrentKept DEF WatchMethod, TypeOK
  <2>2. CASE ~m_watched
    <3>1. pc'[c] = "children" /\ pc'[Zk] = pc[Zk]
      BY <1>2, <2>2, DiscoveryAssumption DEF WatchMethod, TypeOK
    <3>2. UNCHANGED <<methodNode, znode, childWatch, dataWatch, events, expired,
                      refreshVars>>
      BY <1>2 DEF WatchMethod
    <3> QED
      BY <3>1, <3>2, ReadsKept
         DEF CurrentInv, ZkReads, CallersRead, refreshVars
  <2> QED
    BY <2>1, <2>2
<1>3. ASSUME NEW c \in Callers, LookUp(c) \/ LookAgain(c)
      PROVE  CurrentInv'
  BY <1>3, CurrentKept DEF LookUp, LookAgain, Return, TypeOK
<1>4. ASSUME NEW t \in Thread, GetChildren(t)
      PROVE  CurrentInv'
  <2>1. /\ UNCHANGED <<methodNode, znode, dataWatch, events, expired,
                       m_service_cache, m_watched, overtaken>>
        /\ pc[t] = "children" /\ pc' = [pc EXCEPT ![t] = "data"]
        /\ childWatch => childWatch'
        /\ \A u \in Thread : u # t => /\ providers'[u] = providers[u]
                                      /\ todo'[u] = todo[u]
    BY <1>4 DEF GetChildren, GetChildrenWithWatch, TypeOK
  <2>2. ~expired => Reads(providers[t], todo[t])'
    BY <1>4, ChildrenRead DEF CurrentInv
  <2>3. CASE t = Zk
    BY <2>1, <2>2, <2>3 DEF CurrentInv, ZkReads, CallersRead, Refreshing, TypeOK
  <2>4. CASE t \in Callers
    <3>1. pc'[Zk] = pc[Zk] /\ pc'[t] = "data"
      BY <2>1, <2>4, DiscoveryAssumption DEF TypeOK
    <3>2. ZkReads'
      BY <2>1, <2>4, <3>1, ReadsKept, DiscoveryAssumption DEF CurrentInv, ZkReads
    <3>3. CallersRead'
      BY <2>1, <2>2, <2>4, <3>1 DEF CallersRead
    <3> QED
      BY <2>1, <3>2, <3>3 DEF CurrentInv
  <2> QED
    BY <2>3, <2>4
<1>5. ASSUME NEW t \in Thread, NEW n \in Node, GetData(t, n)
      PROVE  CurrentInv'
  <2>1. /\ UNCHANGED <<methodNode, znode, childWatch, events, expired,
                       m_service_cache, m_watched, pc, overtaken>>
        /\ pc[t] = "data"
        /\ dataWatch \subseteq dataWatch'
        /\ \A u \in Thread : u # t => /\ providers'[u] = providers[u]
                                      /\ todo'[u] = todo[u]
    BY <1>5 DEF GetData, GetDataWithWatch, TypeOK
  <2>2. ~expired /\ Reads(providers[t], todo[t]) => Reads(providers[t], todo[t])'
    BY <1>5, DataRead
  <2>3. ASSUME NEW u \in Thread, ~expired, Reads(providers[u], todo[u])
        PROVE  Reads(providers[u], todo[u])'
    <3>1. CASE u = t
      BY <2>2, <2>3, <3>1
    <3>2. CASE u # t
      BY <2>1, <2>3, <3>2, ReadsKept
    <3> QED
      BY <3>1, <3>2
  <2>4. Reads(m_service_cache, {}) => Reads(m_service_cache, {})'
    BY <2>1, ReadsKept
  <2>5. ZkReads'
    BY <2>1, <2>3 DEF CurrentInv, ZkReads
  <2>6. CallersRead'
    BY <2>1, <2>3, <2>4 DEF CurrentInv, CallersRead, Refreshing
  <2> QED
    BY <2>1, <2>5, <2>6 DEF CurrentInv
<1>6. CASE Install(Zk)
  <2>1. /\ UNCHANGED <<methodNode, znode, childWatch, dataWatch, events, expired,
                       m_watched>>
        /\ pc[Zk] = "data" /\ todo[Zk] = {}
        /\ pc' = [pc EXCEPT ![Zk] = "idle"]
        /\ m_service_cache' = providers[Zk]
        /\ overtaken' = \E c \in Callers : pc[c] = "data"
    BY <1>6 DEF Install
  <2>2. pc'[Zk] = "idle" /\ \A c \in Callers : pc'[c] = pc[c]
    BY <2>1, DiscoveryAssumption DEF TypeOK
  <2>3. ~expired => events # <<>> \/ Reads(m_service_cache, {})'
    BY <2>1, ReadsKept DEF CurrentInv, ZkReads
  <2>4. ZkReads'
    BY <2>2 DEF ZkReads
  <2>5. CallersRead'
    BY <2>1, <2>2, <2>3 DEF CallersRead, Refreshing
  <2> QED
    BY <2>1, <2>4, <2>5 DEF CurrentInv
<1>7. ASSUME NEW c \in Callers, Install(c)
      PROVE  CurrentInv'
  <2>1. /\ UNCHANGED <<methodNode, znode, childWatch, dataWatch, events, expired,
                       m_watched, todo, overtaken>>
        /\ pc[c] = "data" /\ todo[c] = {}
        /\ pc' = [pc EXCEPT ![c] = "again"]
        /\ m_service_cache' = providers[c]
        /\ providers' = [providers EXCEPT ![c] = {}]
    BY <1>7, DiscoveryAssumption DEF Install
  <2>2. pc'[Zk] = pc[Zk] /\ providers'[Zk] = providers[Zk]
    BY <2>1, DiscoveryAssumption DEF TypeOK
  <2>3. \A d \in Callers : Refreshing(d) => d = c
    BY <2>1 DEF FlagInv, OneInitialRefresh, Refreshing
  <2>4. \A d \in Callers : ~Refreshing(d)'
    BY <2>1, <2>3 DEF Refreshing, TypeOK
  <2>5. ZkReads'
    BY <2>1, <2>2, ReadsKept DEF CurrentInv, ZkReads
  <2>6. CallersRead'
    <3>1. SUFFICES ASSUME m_watched, ~expired, ~overtaken, ~Refreshing(Zk),
                          events = <<>>
                   PROVE  Reads(m_service_cache, {})'
      BY <2>1, <2>2, <2>4 DEF CallersRead, Refreshing
    <3>2. Reads(providers[c], {})
      BY <2>1, <2>3, <3>1 DEF CurrentInv, CallersRead, Refreshing
    <3> QED
      BY <2>1, <3>2, ReadsKept
  <2> QED
    BY <2>1, <2>5, <2>6 DEF CurrentInv
<1>8. CASE MethodChildrenWatcher \/ ProviderDataWatcher
  <2>1. pc' = [pc EXCEPT ![Zk] = "children"] /\ methodNode' = methodNode
    BY <1>8 DEF MethodChildrenWatcher, ProviderDataWatcher, TakeEvent
  <2> QED
    BY <2>1 DEF CurrentInv, ZkReads, CallersRead, Refreshing, TypeOK
<1>9. CASE UNCHANGED vars
  BY <1>9, CurrentKept DEF vars
<1> QED
  BY <1>1, <1>2, <1>3, <1>4, <1>5, <1>6, <1>7, <1>8, <1>9
     DEF Next, CallerStep, ZkStep, Refresh

\* With the method znode there and no failed call, a cache at rest holds
\* exactly the providers registered now, unless a caller's refresh has been
\* overtaken or the session has ended.
THEOREM CacheIsCurrent ==
  ASSUME MaxLoss = 0, MethodMayBeMissing = FALSE
  PROVE  SafetySpec => []CacheCurrent
<1>1. Init => FlagInv /\ CurrentInv
  BY DiscoveryAssumption
     DEF Init, FlagInv, OneInitialRefresh, CurrentInv, ZkReads, CallersRead,
         Refreshing, Thread
<1>2. CurrentInv => CacheCurrent
  BY ReadsAll DEF CurrentInv, CallersRead, CacheCurrent, Quiet, Refreshing, Thread
<1>3. TypeOK /\ CurrentInv /\ FlagInv /\ [Next]_vars => CurrentInv'
  BY CurrentStep
<1> QED
  BY <1>1, <1>2, <1>3, FlagStep, TypeCorrect, PTL DEF SafetySpec

=============================================================================
