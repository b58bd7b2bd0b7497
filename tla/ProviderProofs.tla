---------------------------- MODULE ProviderProofs ----------------------------
(* Theorems about ProviderStartup.                                            *)
EXTENDS ProviderStartup, FiniteSetTheorems, TLAPS

\* Sessions are handed out one after the other, to one process each, and an
\* ephemeral znode lives no longer than the session that made it.
SessionInv ==
  /\ \A p \in Providers :
       IF Running(p) THEN session[p] \in 1 .. starts ELSE session[p] = 0
  /\ \A p, q \in Providers : Running(p) /\ Running(q) /\ session[p] = session[q] => p = q
  /\ \A p \in Providers : Running(p) /\ link[p] = "connected" => server[session[p]] = "alive"
  /\ \A s \in Session : s > starts => server[s] = "none"
  /\ \A i \in instances : server[i.owner] = "alive"

\* A process goes on only after its session has been there.
NewInv ==
  \A p \in Providers :
    Running(p) /\ server[session[p]] = "none" => pc[p] \in {"init", "wait"} /\ sem[p] = 0

\* The path at hand is a service's, or a method the process has still to do.
AtInv ==
  \A p \in Providers :
    Registering(p) => at[p] \in ServicePaths \/ at[p] \in todo[p]

\* What RegisteredOnce counts.
Only(p, m) == [path |-> m, number |-> 1, owner |-> session[p], data |-> Address(p)]
OwnInv ==
  \A p \in Providers : Running(p) =>
    \A m \in Methods :
      Mine(p, m) = IF m \in Published[p] \ todo[p] /\ server[session[p]] = "alive"
                     THEN {Only(p, m)} ELSE {}

IInv == TypeOK /\ IsFiniteSet(instances) /\ SessionInv /\ NewInv /\ AtInv /\ OwnInv

LEMMA Paths ==
  /\ \A p \in Providers : Published[p] \subseteq Methods
  /\ \A m \in Methods : ServiceOf(m) \in ServicePaths /\ m \notin ServicePaths
  /\ \A m \in Methods : ServiceOf(m) # <<>>
  /\ \A p \in Providers : Published[p] # {}
  /\ MaxStarts \in Nat /\ MaxFaults \in Nat
BY ProviderAssumption DEF Methods, ServicePaths, ServiceOf

LEMMA InitIInv == Init => IInv
<1> SUFFICES ASSUME Init PROVE IInv
  OBVIOUS
<1>1. TypeOK
  BY Paths DEF Init, TypeOK, Session, Instance
<1>2. IsFiniteSet(instances)
  BY FS_EmptySet DEF Init
<1> QED
  BY <1>1, <1>2, Paths
     DEF Init, IInv, SessionInv, NewInv, AtInv, OwnInv, Running, Registering, Mine, Session

-----------------------------------------------------------------------------
(* What the loops of Run do to the control of one process.                   *)

\* Where a process is after a Create or after sem_wait.
Placed(p, rest) ==
  /\ at' \in [Providers -> ServicePaths \cup Methods \cup {<<>>}]
  /\ \/ pc' = [pc EXCEPT ![p] = "exists"] /\ (at'[p] \in ServicePaths \/ at'[p] \in rest)
     \/ pc' = [pc EXCEPT ![p] = "serving"] /\ rest = {}
  /\ \A q \in Providers \ {p} : at'[q] = at[q]

LEMMA NextMethodPlaces ==
  ASSUME TypeOK, NEW p \in Providers, NEW service, NEW rest,
         rest \subseteq Published[p], NextMethod(p, service, rest)
  PROVE  Placed(p, rest)
<1>1. rest \subseteq Methods
  BY Paths
<1>2. ASSUME NEW m \in rest, Create(p, m) PROVE Placed(p, rest)
  BY <1>1, <1>2 DEF Create, Goto, Placed, TypeOK
<1>3. ASSUME NEW m \in rest, Create(p, ServiceOf(m)) PROVE Placed(p, rest)
  BY <1>1, <1>3, Paths DEF Create, Goto, Placed, TypeOK
<1>4. ASSUME rest = {}, Goto(p, "serving"), UNCHANGED at PROVE Placed(p, rest)
  BY <1>4 DEF Goto, Placed, TypeOK
<1> QED
  BY <1>2, <1>3, <1>4 DEF NextMethod

\* Proceed takes the method at hand off the list exactly when its instance has
\* been made.
LEMMA ProceedPlaces ==
  ASSUME TypeOK, AtInv, NEW p \in Providers, Registering(p), Proceed(p)
  PROVE  \/ /\ pc[p] # "instance" /\ todo' = todo
            /\ \/ Placed(p, todo[p])
               \/ /\ pc' = [pc EXCEPT ![p] = "instance"] /\ at' = at
                  /\ at[p] \in todo[p]
         \/ /\ pc[p] = "instance" /\ todo' = [todo EXCEPT ![p] = @ \ {at[p]}]
            /\ Placed(p, todo[p] \ {at[p]})
<1>1. todo[p] \subseteq Published[p]
  BY DEF TypeOK
<1>2. CASE pc[p] # "instance" /\ at[p] \in ServicePaths
  BY <1>1, <1>2, NextMethodPlaces DEF Proceed
<1>3. CASE pc[p] # "instance" /\ at[p] \notin ServicePaths
  BY <1>3 DEF Proceed, Goto, AtInv
<1>4. CASE pc[p] = "instance"
  <2>1. todo[p] \ {at[p]} \subseteq Published[p]
    BY <1>1
  <2> QED
    BY <1>4, <2>1, NextMethodPlaces DEF Proceed
<1> QED
  BY <1>2, <1>3, <1>4

\* What TypeOK says of the control of the processes.
RunTypes ==
  /\ pc \in [Providers -> {"off", "init", "wait", "exists", "create", "instance",
                           "serving", "exited"}]
  /\ at \in [Providers -> ServicePaths \cup Methods \cup {<<>>}]
  /\ todo \in [Providers -> SUBSET Methods]
  /\ \A p \in Providers :
       /\ todo[p] \subseteq Published[p]
       /\ pc[p] \in {"init", "wait"} => todo[p] = Published[p]
       /\ pc[p] = "instance" => at[p] \in todo[p]
       /\ pc[p] = "serving" => todo[p] = {}

LEMMA PlacedTypes ==
  ASSUME TypeOK, AtInv, NEW p \in Providers, NEW rest, rest \subseteq todo[p],
         Placed(p, rest), todo' = [todo EXCEPT ![p] = rest]
  PROVE  RunTypes' /\ AtInv'
<1>1. /\ todo' \in [Providers -> SUBSET Methods] /\ todo'[p] = rest
      /\ \A q \in Providers \ {p} : todo'[q] = todo[q]
      /\ rest \subseteq Published[p]
  BY DEF TypeOK
<1>2. /\ pc' \in [Providers -> {"off", "init", "wait", "exists", "create", "instance",
                                "serving", "exited"}]
      /\ \A q \in Providers \ {p} : pc'[q] = pc[q] /\ at'[q] = at[q]
      /\ \/ pc'[p] = "exists" /\ (at'[p] \in ServicePaths \/ at'[p] \in rest)
         \/ pc'[p] = "serving" /\ rest = {}
  BY DEF TypeOK, Placed
<1>3. ASSUME NEW q \in Providers
      PROVE  /\ todo'[q] \subseteq Published[q]
             /\ pc'[q] \in {"init", "wait"} => todo'[q] = Published[q]
             /\ pc'[q] = "instance" => at'[q] \in todo'[q]
             /\ pc'[q] = "serving" => todo'[q] = {}
  <2>1. CASE q = p
    BY <1>1, <1>2, <2>1
  <2>2. CASE q # p
    BY <1>1, <1>2, <2>2 DEF TypeOK
  <2> QED
    BY <2>1, <2>2
<1>4. AtInv'
  BY <1>1, <1>2 DEF AtInv, Registering
<1> QED
  BY <1>1, <1>2, <1>3, <1>4 DEF RunTypes, Placed

-----------------------------------------------------------------------------
(* Steps that leave the znodes and the sessions alone.                       *)

LEMMA ControlStep ==
  ASSUME IInv, TypeOK', AtInv', NewInv',
         UNCHANGED <<instances, server, starts, session, todo>>,
         \A p \in Providers : Running(p)' <=> Running(p),
         \A p \in Providers : link'[p] = "connected" => link[p] = "connected"
  PROVE  IInv'
<1>1. IsFiniteSet(instances)' /\ SessionInv'
  BY DEF IInv, SessionInv
<1>2. OwnInv'
  BY DEF IInv, OwnInv, Mine, Only
<1> QED
  BY <1>1, <1>2 DEF IInv

LEMMA SetContextStep ==
  ASSUME IInv, NEW p \in Providers, SetContext(p) PROVE IInv'
<1>1. TypeOK' /\ AtInv' /\ NewInv'
  BY DEF IInv, TypeOK, AtInv, NewInv, Running, SetContext, Goto, Registering, zkVars, sessionVars
<1>2. /\ UNCHANGED <<instances, server, starts, session, todo, link>>
      /\ \A q \in Providers : Running(q)' <=> Running(q)
  BY DEF IInv, TypeOK, SetContext, Goto, Running, zkVars, sessionVars
<1> QED
  BY <1>1, <1>2, ControlStep

LEMMA WakeStep ==
  ASSUME IInv, NEW p \in Providers, Wake(p) PROVE IInv'
<1>1. Placed(p, todo[p]) /\ UNCHANGED <<instances, server, starts, session, todo, link>>
  BY NextMethodPlaces DEF Wake, IInv, TypeOK, zkVars
<1>2. RunTypes' /\ AtInv'
  <2>1. todo' = [todo EXCEPT ![p] = todo[p]]
    BY <1>1 DEF IInv, TypeOK
  <2> QED
    BY <1>1, <2>1, PlacedTypes DEF IInv
<1>2a. TypeOK'
  <2>1. sem' \in [Providers -> Nat]
    BY DEF IInv, TypeOK, Wake
  <2> QED
    BY <1>2, <2>1 DEF IInv, TypeOK, RunTypes, Wake, zkVars
<1>2b. NewInv'
  BY <1>1 DEF IInv, TypeOK, NewInv, Wake, Placed, Running
<1>3. \A q \in Providers : Running(q)' <=> Running(q)
  BY <1>1 DEF IInv, TypeOK, Placed, Wake, Running
<1> QED
  BY <1>1, <1>2, <1>2a, <1>2b, <1>3, ControlStep

LEMMA ExistsStep ==
  ASSUME IInv, NEW p \in Providers, Exists(p) PROVE IInv'
<1>0. pc[p] = "exists" /\ TypeOK /\ AtInv /\ UNCHANGED <<zkVars, server, faults, starts, sessionVars>>
  BY DEF Exists, IInv
<1>1. CASE Goto(p, "create") /\ UNCHANGED <<at, todo>>
  <2>1. TypeOK' /\ AtInv' /\ NewInv'
    BY <1>0, <1>1 DEF IInv, TypeOK, AtInv, NewInv, Running, Goto, Registering, zkVars, sessionVars
  <2>2. \A q \in Providers : Running(q)' <=> Running(q)
    BY <1>0, <1>1 DEF TypeOK, Goto, Running
  <2> QED
    BY <1>0, <1>1, <2>1, <2>2, ControlStep DEF zkVars, sessionVars
<1>2. CASE Proceed(p)
  <2>1. /\ todo' = todo
        /\ \/ Placed(p, todo[p])
           \/ /\ pc' = [pc EXCEPT ![p] = "instance"] /\ at' = at
              /\ at[p] \in todo[p]
    BY <1>0, <1>2, ProceedPlaces DEF Registering
  <2>2. RunTypes' /\ AtInv'
    <3>1. todo' = [todo EXCEPT ![p] = todo[p]]
      BY <2>1 DEF IInv, TypeOK
    <3>2. CASE Placed(p, todo[p])
      BY <1>0, <3>1, <3>2, PlacedTypes
    <3>3. CASE pc' = [pc EXCEPT ![p] = "instance"] /\ at' = at /\ at[p] \in todo[p]
      BY <1>0, <2>1, <3>3 DEF TypeOK, RunTypes, AtInv, Registering
    <3> QED
      BY <2>1, <3>2, <3>3
  <2>2a. TypeOK'
    BY <1>0, <2>2 DEF TypeOK, RunTypes, zkVars, sessionVars
  <2>2b. NewInv'
    BY <1>0, <2>1 DEF IInv, TypeOK, NewInv, Running, Placed, sessionVars
  <2>3. \A q \in Providers : Running(q)' <=> Running(q)
    BY <1>0, <2>1 DEF TypeOK, Placed, Running
  <2> QED
    BY <1>0, <2>1, <2>2, <2>2a, <2>2b, <2>3, ControlStep DEF zkVars, sessionVars
<1> QED
  BY <1>1, <1>2 DEF Exists

LEMMA LinkStep ==
  ASSUME IInv, NEW p \in Providers, LearnExpiry(p) \/ Disconnect(p) PROVE IInv'
<1>1. UNCHANGED <<instances, nodes, server, starts, runVars, session, sem, missed>>
  BY DEF LearnExpiry, Disconnect, zkVars
<1>2. TypeOK'
  <2>1. faults' \in 0 .. MaxFaults
    BY Paths DEF IInv, TypeOK, LearnExpiry, Disconnect, LoseConnection
  <2>2. link' \in [Providers -> {"connecting", "connected", "expired"}]
    BY DEF IInv, TypeOK, LearnExpiry, Disconnect
  <2> QED
    BY <1>1, <2>1, <2>2 DEF IInv, TypeOK, runVars
<1>3. AtInv' /\ NewInv' /\ \A q \in Providers : Running(q)' <=> Running(q)
  BY <1>1 DEF IInv, AtInv, NewInv, Registering, Running, runVars
<1>4. \A q \in Providers : link'[q] = "connected" => link[q] = "connected"
  BY DEF IInv, TypeOK, LearnExpiry, Disconnect
<1> QED
  BY <1>1, <1>2, <1>3, <1>4, ControlStep DEF runVars

LEMMA InitFailsStep ==
  ASSUME IInv, NEW p \in Providers, InitFails(p) PROVE IInv'
<1>1. /\ UNCHANGED <<zkVars, server, starts, at, todo, sessionVars>>
      /\ pc' = [pc EXCEPT ![p] = "exited"] /\ ~Running(p)
  BY DEF InitFails, Goto
<1>2. \A q \in Providers : /\ (Running(q)' <=> Running(q)) /\ (Registering(q)' <=> Registering(q))
                           /\ pc'[q] # "exited" => pc'[q] = pc[q]
  BY <1>1 DEF Running, Registering, IInv, TypeOK
<1>3. TypeOK'
  <2>1. faults' \in 0 .. MaxFaults
    BY Paths DEF IInv, TypeOK, InitFails
  <2> QED
    BY <1>1, <1>2, <2>1 DEF IInv, TypeOK, zkVars, sessionVars
<1>4. AtInv' /\ NewInv'
  BY <1>1, <1>2 DEF IInv, AtInv, NewInv, Running, sessionVars
<1> QED
  BY <1>1, <1>2, <1>3, <1>4, ControlStep DEF zkVars, sessionVars

-----------------------------------------------------------------------------
(* Steps on sessions.                                                        *)

LEMMA StartStep ==
  ASSUME IInv, NEW p \in Providers, Start(p) PROVE IInv'
<1> DEFINE new == starts + 1
<1>1. /\ new \in Session /\ server[new] = "none" /\ session' = [session EXCEPT ![p] = new]
      /\ UNCHANGED <<instances, server, at>> /\ starts' = new
      /\ pc' = [pc EXCEPT ![p] = "init"] /\ todo' = [todo EXCEPT ![p] = Published[p]]
      /\ link' = [link EXCEPT ![p] = "connecting"]
  <2>1. starts \in Nat /\ starts < MaxStarts /\ starts' = new
    BY Paths DEF IInv, TypeOK, Start
  <2>2. new \in Session /\ new > starts
    BY <2>1, Paths DEF Session
  <2>3. server[new] = "none"
    BY <2>2 DEF IInv, SessionInv
  <2> QED
    BY <2>1, <2>2, <2>3 DEF Start, Goto, zkVars
<1>2. TypeOK'
  BY <1>1, Paths DEF IInv, TypeOK, Start, Session, zkVars
<1>3. \A q \in Providers : q # p => (Running(q)' <=> Running(q)) /\ session'[q] = session[q]
                                     /\ session[q] # new
  <2>1. \A q \in Providers : session[q] \in 0 .. starts /\ starts \in Nat
    BY DEF IInv, SessionInv, TypeOK
  <2> QED
    BY <1>1, <2>1 DEF IInv, TypeOK, Running
<1>4. SessionInv' /\ NewInv'
  <2>1. \A q \in Providers : IF Running(q)' THEN session'[q] \in 1 .. starts' ELSE session'[q] = 0
    <3> SUFFICES ASSUME NEW q \in Providers
                 PROVE IF Running(q)' THEN session'[q] \in 1 .. starts' ELSE session'[q] = 0
      OBVIOUS
    <3>1. CASE q = p
      BY <1>1, <3>1 DEF IInv, TypeOK, Running, Session
    <3>2. CASE q # p
      <4>1. IF Running(q) THEN session[q] \in 1 .. starts ELSE session[q] = 0
        BY DEF IInv, SessionInv
      <4>2. starts \in Nat
        BY DEF IInv, TypeOK
      <4> QED
        BY <1>1, <1>3, <3>2, <4>1, <4>2
    <3> QED
      BY <3>1, <3>2
  <2>2. \A q, r \in Providers : Running(q)' /\ Running(r)' /\ session'[q] = session'[r] => q = r
    BY <1>1, <1>3 DEF IInv, SessionInv, TypeOK
  <2>3. \A q \in Providers : Running(q)' /\ link'[q] = "connected" => server'[session'[q]] = "alive"
    BY <1>1, <1>3 DEF IInv, SessionInv, TypeOK
  <2>4. \A s \in Session : s > starts' => server'[s] = "none"
    BY <1>1 DEF IInv, SessionInv, TypeOK, Session
  <2>5. NewInv'
    <3>1. sem' = [sem EXCEPT ![p] = 0]
      BY DEF Start
    <3> QED
      BY <1>1, <1>3, <3>1 DEF IInv, NewInv, TypeOK
  <2> QED
    BY <1>1, <2>1, <2>2, <2>3, <2>4, <2>5 DEF IInv, SessionInv
<1>5. AtInv'
  BY <1>1 DEF IInv, AtInv, TypeOK, Registering
<1>6. OwnInv'
  <2> SUFFICES ASSUME NEW q \in Providers, Running(q)', NEW m \in Methods
               PROVE  (Mine(q, m) = IF m \in Published[q] \ todo[q]
                                       /\ server[session[q]] = "alive"
                                     THEN {Only(q, m)} ELSE {})'
    BY DEF OwnInv
  <2>1. CASE q = p
    <3>1. session'[q] = new /\ todo'[q] = Published[q]
      BY <1>1, <2>1 DEF IInv, TypeOK
    <3>2. \A i \in instances : i.owner # new
      BY <1>1 DEF IInv, SessionInv
    <3>3. Mine(q, m)' = {}
      BY <1>1, <3>1, <3>2 DEF Mine
    <3> QED
      BY <3>1, <3>3
  <2>2. CASE q # p
    BY <1>1, <1>3, <2>2 DEF IInv, OwnInv, Mine, Only, TypeOK
  <2> QED
    BY <2>1, <2>2
<1> QED
  BY <1>1, <1>2, <1>4, <1>5, <1>6 DEF IInv

LEMMA ConnectStep ==
  ASSUME IInv, NEW p \in Providers, Connect(p) PROVE IInv'
<1>1. /\ UNCHANGED <<instances, nodes, faults, starts, pc, at, todo, session>>
      /\ server' = [server EXCEPT ![session[p]] = "alive"]
      /\ link' = [link EXCEPT ![p] = "connected"]
      /\ Running(p) /\ session[p] \in 1 .. starts /\ session[p] \in Session
  BY DEF IInv, TypeOK, SessionInv, Connect, runVars, zkVars, Session
<1>2. TypeOK'
  BY <1>1 DEF IInv, TypeOK, Connect, PostIfContext, Session
<1>3. SessionInv' /\ AtInv' /\ NewInv'
  <2>1. SessionInv'
    BY <1>1 DEF IInv, SessionInv, TypeOK, Running, Session
  <2>2. AtInv'
    BY <1>1 DEF IInv, AtInv, Registering
  <2>3. \A q \in Providers \ {p} : sem'[q] = sem[q]
    BY DEF IInv, TypeOK, Connect, PostIfContext
  <2>4. NewInv'
    BY <1>1, <2>3 DEF IInv, NewInv, TypeOK, Running
  <2> QED
    BY <2>1, <2>2, <2>4
<1>4. OwnInv'
  <2>1. CASE server[session[p]] = "alive"
    BY <1>1, <2>1 DEF IInv, OwnInv, Mine, Only, Running, TypeOK
  <2>2. CASE server[session[p]] # "alive"
    <3>1. \A i \in instances : i.owner # session[p]
      BY <2>2 DEF IInv, SessionInv
    <3>2. server[session[p]] = "none"
      BY <1>1, <2>2 DEF Connect, IInv, TypeOK
    <3>3. todo[p] = Published[p]
      BY <1>1, <3>2 DEF IInv, NewInv, TypeOK
    <3>4. \A q \in Providers : Running(q) /\ q # p => session[q] # session[p]
      BY <1>1 DEF IInv, SessionInv
    <3> QED
      BY <1>1, <3>1, <3>3, <3>4 DEF IInv, OwnInv, Mine, Only, Running, TypeOK
  <2> QED
    BY <2>1, <2>2
<1> QED
  BY <1>1, <1>2, <1>3, <1>4 DEF IInv
-----------------------------------------------------------------------------
(* Steps that make znodes, end processes and end sessions.                   *)

\* What of the invariant is about the znodes of the processes other than p.
OthersKeep(p) ==
  /\ nodes' \subseteq ServicePaths \cup Methods
  /\ instances' \subseteq Instance /\ IsFiniteSet(instances')
  /\ \A i \in instances' : server[i.owner] = "alive"
  /\ \A q \in Providers \ {p}, m \in Methods :
       Running(q) => {i \in instances' : i.path = m /\ i.owner = session[q]} = Mine(q, m)

LEMMA KeptNodes ==
  ASSUME IInv, NEW p \in Providers, UNCHANGED zkVars PROVE OthersKeep(p)
BY DEF IInv, TypeOK, SessionInv, OthersKeep, Mine, zkVars

\* A call on a connected session makes a node, or the one instance the process
\* does not have yet.
LEMMA MadeNodes ==
  ASSUME IInv, NEW p \in Providers, Running(p), link[p] = "connected", Make(p)
  PROVE  /\ OthersKeep(p) /\ pc[p] \in {"create", "instance"}
         /\ pc[p] = "create" => instances' = instances
         /\ pc[p] = "instance" => instances' = instances \cup {Only(p, at[p])}
<1>1. CASE pc[p] = "create" /\ MakeNode(p)
  <2>1. at[p] \in ServicePaths \cup Methods
    BY <1>1, Paths DEF IInv, AtInv, Registering, TypeOK
  <2> QED
    BY <1>1, <2>1 DEF IInv, TypeOK, SessionInv, MakeNode, OthersKeep, Mine
<1>2. CASE pc[p] = "instance" /\ MakeInstance(p)
  <2>1. at[p] \in todo[p] /\ at[p] \in Methods
    BY <1>2 DEF IInv, TypeOK
  <2>2. session[p] \in 1 .. starts /\ session[p] \in Session /\ server[session[p]] = "alive"
    BY DEF IInv, SessionInv, TypeOK, Session
  <2>3. Cardinality(Mine(p, at[p])) = 0
    <3>1. Mine(p, at[p]) = {}
      BY <2>1 DEF IInv, OwnInv
    <3> QED
      BY <3>1, FS_EmptySet
  <2>4. instances' = instances \cup {Only(p, at[p])} /\ nodes' = nodes
    BY <1>2, <2>3 DEF MakeInstance, Only
  <2>5. Only(p, at[p]) \in Instance
    BY <2>1, <2>2 DEF Only, Instance
  <2>6. IsFiniteSet(instances')
    BY <2>4, FS_AddElement DEF IInv
  <2>7. \A i \in instances' : server[i.owner] = "alive"
    BY <2>2, <2>4 DEF IInv, SessionInv, Only
  <2>8. ASSUME NEW q \in Providers \ {p}, NEW m \in Methods, Running(q)
        PROVE  {i \in instances' : i.path = m /\ i.owner = session[q]} = Mine(q, m)
    <3>1. session[q] # session[p]
      BY <2>8 DEF IInv, SessionInv
    <3> QED
      BY <2>4, <3>1 DEF Mine, Only
  <2> QED
    BY <1>2, <2>4, <2>5, <2>6, <2>7, <2>8 DEF IInv, TypeOK, OthersKeep
<1> QED
  BY <1>1, <1>2 DEF Make

\* The process ends, whatever it has made before.
LEMMA EndStep ==
  ASSUME IInv, NEW p \in Providers, NEW label \in {"off", "exited"}, End(p, label),
         OthersKeep(p), faults' \in 0 .. MaxFaults, UNCHANGED <<server, starts>>
  PROVE  IInv'
<1>1. /\ pc' = [pc EXCEPT ![p] = label] /\ session' = [session EXCEPT ![p] = 0]
      /\ link' = [link EXCEPT ![p] = "connecting"] /\ sem' = [sem EXCEPT ![p] = 0]
      /\ at' = [at EXCEPT ![p] = <<>>] /\ todo' = [todo EXCEPT ![p] = {}]
      /\ missed' = [missed EXCEPT ![p] = FALSE]
  BY DEF End, Goto
<1>2. ~Running(p)' /\ ~Registering(p)'
  BY <1>1 DEF Running, Registering, IInv, TypeOK
<1>3. \A q \in Providers \ {p} :
        /\ (Running(q)' <=> Running(q)) /\ (Registering(q)' <=> Registering(q))
        /\ pc'[q] = pc[q] /\ session'[q] = session[q] /\ link'[q] = link[q]
        /\ sem'[q] = sem[q] /\ at'[q] = at[q] /\ todo'[q] = todo[q]
  BY <1>1 DEF Running, Registering, IInv, TypeOK
<1>4. TypeOK'
  <2>1. /\ session' \in [Providers -> 0 .. MaxStarts]
        /\ link' \in [Providers -> {"connecting", "connected", "expired"}]
        /\ sem' \in [Providers -> Nat] /\ missed' \in [Providers -> BOOLEAN]
    BY <1>1, Paths DEF IInv, TypeOK
  <2>2. RunTypes'
    BY <1>1 DEF IInv, TypeOK, RunTypes
  <2>3. /\ nodes' \subseteq ServicePaths \cup Methods /\ instances' \subseteq Instance
        /\ server' \in [Session -> {"none", "alive", "ended"}]
        /\ faults' \in 0 .. MaxFaults /\ starts' \in 0 .. MaxStarts
    BY DEF IInv, TypeOK, OthersKeep
  <2> QED
    BY <2>1, <2>2, <2>3 DEF TypeOK, RunTypes
<1>5. SessionInv'
  <2>1. \A q \in Providers :
          IF Running(q)' THEN session'[q] \in 1 .. starts' ELSE session'[q] = 0
    BY <1>1, <1>2, <1>3 DEF IInv, SessionInv, TypeOK
  <2>2. /\ \A q, r \in Providers :
             Running(q)' /\ Running(r)' /\ session'[q] = session'[r] => q = r
        /\ \A q \in Providers :
             Running(q)' /\ link'[q] = "connected" => server'[session'[q]] = "alive"
    BY <1>2, <1>3 DEF IInv, SessionInv
  <2> QED
    BY <2>1, <2>2 DEF IInv, SessionInv, OthersKeep
<1>6. NewInv' /\ AtInv'
  BY <1>2, <1>3 DEF IInv, NewInv, AtInv
<1>7. OwnInv'
  BY <1>2, <1>3 DEF IInv, OwnInv, OthersKeep, Mine, Only
<1> QED
  BY <1>4, <1>5, <1>6, <1>7 DEF IInv, OthersKeep

\* A create that was carried out, and answered.
LEMMA MadeStep ==
  ASSUME IInv, NEW p \in Providers, Running(p), link[p] = "connected", Make(p), Proceed(p),
         UNCHANGED <<sessionVars, server, faults, starts>>
  PROVE  IInv'
<1>1. /\ OthersKeep(p) /\ pc[p] \in {"create", "instance"}
      /\ pc[p] = "create" => instances' = instances
      /\ pc[p] = "instance" => instances' = instances \cup {Only(p, at[p])}
      /\ server[session[p]] = "alive"
  BY MadeNodes DEF IInv, SessionInv
<1>2. /\ UNCHANGED <<session, link, sem, missed>>
      /\ TypeOK /\ AtInv /\ Registering(p)
  BY <1>1 DEF sessionVars, IInv, Registering
<1>3. \/ /\ pc[p] # "instance" /\ todo' = todo
         /\ \/ Placed(p, todo[p])
            \/ pc' = [pc EXCEPT ![p] = "instance"] /\ at' = at /\ at[p] \in todo[p]
      \/ /\ pc[p] = "instance" /\ todo' = [todo EXCEPT ![p] = @ \ {at[p]}]
         /\ Placed(p, todo[p] \ {at[p]})
  BY <1>2, ProceedPlaces
<1>4. RunTypes' /\ AtInv'
  <2>1. CASE pc[p] # "instance" /\ todo' = todo /\ Placed(p, todo[p])
    <3>1. todo' = [todo EXCEPT ![p] = todo[p]]
      BY <2>1 DEF IInv, TypeOK
    <3> QED
      BY <1>2, <2>1, <3>1, PlacedTypes
  <2>2. CASE todo' = todo /\ pc' = [pc EXCEPT ![p] = "instance"] /\ at' = at /\ at[p] \in todo[p]
    BY <1>2, <2>2 DEF TypeOK, RunTypes, AtInv, Registering
  <2>3. CASE todo' = [todo EXCEPT ![p] = @ \ {at[p]}] /\ Placed(p, todo[p] \ {at[p]})
    BY <1>2, <2>3, PlacedTypes
  <2> QED
    BY <1>3, <2>1, <2>2, <2>3
<1>5. TypeOK'
  BY <1>1, <1>2, <1>4 DEF TypeOK, RunTypes, OthersKeep
<1>6. \A q \in Providers : Running(q)' <=> Running(q)
  BY <1>2, <1>3 DEF Placed, Running, TypeOK
<1>7. SessionInv'
  BY <1>1, <1>2, <1>6 DEF IInv, SessionInv, OthersKeep
<1>8. NewInv'
  BY <1>1, <1>2, <1>3, <1>6 DEF IInv, NewInv, Placed, TypeOK
<1>9. OwnInv'
  <2> SUFFICES ASSUME NEW q \in Providers, Running(q), NEW m \in Methods
               PROVE  (Mine(q, m) = IF m \in Published[q] \ todo[q]
                                       /\ server[session[q]] = "alive"
                                     THEN {Only(q, m)} ELSE {})'
    BY <1>6 DEF OwnInv
  <2>1. Mine(q, m) = IF m \in Published[q] \ todo[q] /\ server[session[q]] = "alive"
                       THEN {Only(q, m)} ELSE {}
    BY DEF IInv, OwnInv
  <2>2. CASE q # p
    <3>1. todo'[q] = todo[q]
      BY <1>2, <1>3, <2>2 DEF TypeOK
    <3>2. Mine(q, m)' = Mine(q, m)
      BY <1>1, <1>2, <2>2 DEF OthersKeep, Mine
    <3> QED
      BY <1>2, <2>1, <3>1, <3>2 DEF Only
  <2>3. CASE q = p /\ pc[p] = "create"
    <3>1. todo' = todo /\ instances' = instances
      BY <1>1, <1>3, <2>3
    <3> QED
      BY <1>2, <2>1, <3>1 DEF Mine, Only
  <2>4. CASE q = p /\ pc[p] = "instance"
    <3>1. /\ todo'[p] = todo[p] \ {at[p]} /\ instances' = instances \cup {Only(p, at[p])}
          /\ at[p] \in todo[p] /\ todo[p] \subseteq Published[p]
      BY <1>1, <1>3, <2>4 DEF IInv, TypeOK
    <3>2. CASE m = at[p]
      <4>1. Mine(p, m) = {}
        BY <2>1, <2>4, <3>1, <3>2
      <4>2. Mine(p, m)' = {Only(p, m)}
        BY <1>2, <3>1, <3>2, <4>1 DEF Mine, Only
      <4> QED
        BY <1>1, <1>2, <2>4, <3>1, <3>2, <4>2 DEF Only
    <3>3. CASE m # at[p]
      <4>1. Mine(p, m)' = Mine(p, m)
        BY <1>2, <3>1, <3>3 DEF Mine, Only
      <4> QED
        BY <1>2, <2>1, <2>4, <3>1, <3>3, <4>1 DEF Only
    <3> QED
      BY <3>2, <3>3
  <2> QED
    BY <1>1, <2>2, <2>3, <2>4
<1> QED
  BY <1>1, <1>4, <1>5, <1>7, <1>8, <1>9 DEF IInv, OthersKeep

LEMMA ZooCreateStep ==
  ASSUME IInv, NEW p \in Providers, ZooCreate(p) PROVE IInv'
<1>1. /\ Running(p) /\ UNCHANGED <<server, faults, starts>> /\ faults' \in 0 .. MaxFaults
  BY DEF ZooCreate, Running, IInv, TypeOK
<1>2. CASE link[p] = "connected" /\ Make(p) /\ Proceed(p) /\ UNCHANGED sessionVars
  BY <1>1, <1>2, MadeStep
<1>3. CASE Exit(p) /\ UNCHANGED zkVars
  BY <1>1, <1>3, KeptNodes, EndStep DEF Exit
<1> QED
  BY <1>2, <1>3 DEF ZooCreate

LEMMA LoseAnswerStep ==
  ASSUME IInv, NEW p \in Providers, LoseAnswer(p) PROVE IInv'
<1>1. Running(p)
  BY DEF LoseAnswer, Make, Running
<1>2. faults' \in 0 .. MaxFaults
  BY Paths DEF LoseAnswer, LoseConnection, IInv, TypeOK
<1>3. OthersKeep(p)
  BY <1>1, MadeNodes DEF LoseAnswer, LoseConnection
<1> QED
  BY <1>2, <1>3, EndStep DEF LoseAnswer, Exit

LEMMA CrashStep ==
  ASSUME IInv, NEW p \in Providers, Crash(p) PROVE IInv'
<1>1. OthersKeep(p) /\ faults' \in 0 .. MaxFaults
  BY KeptNodes DEF Crash, IInv, TypeOK
<1> QED
  BY <1>1, EndStep DEF Crash

LEMMA EndSessionStep ==
  ASSUME IInv, NEW s \in Session, EndSession(s) PROVE IInv'
<1>1. /\ server' = [server EXCEPT ![s] = "ended"] /\ server[s] = "alive"
      /\ instances' = {i \in instances : i.owner # s}
      /\ UNCHANGED <<nodes, faults, starts, pc, at, todo, session, link, sem, missed>>
      /\ \A p \in Providers : Running(p) /\ link[p] = "connected" => session[p] # s
  BY DEF EndSession, InUse, runVars, sessionVars
<1>2. TypeOK'
  BY <1>1 DEF IInv, TypeOK
<1>3. IsFiniteSet(instances)'
  BY <1>1, FS_Subset DEF IInv
<1>4. \A q \in Providers : (Running(q)' <=> Running(q)) /\ (Registering(q)' <=> Registering(q))
  BY <1>1 DEF Running, Registering
<1>5. \A q \in Providers : Running(q) => session[q] \in Session
  BY DEF IInv, SessionInv, TypeOK, Session
<1>6. SessionInv'
  <2>1. \A q \in Providers : Running(q)' /\ link'[q] = "connected" => server'[session'[q]] = "alive"
    BY <1>1, <1>4, <1>5 DEF IInv, SessionInv, TypeOK
  <2>2. \A t \in Session : t > starts' => server'[t] = "none"
    BY <1>1 DEF IInv, SessionInv, TypeOK
  <2>3. \A i \in instances' : server'[i.owner] = "alive"
    BY <1>1 DEF IInv, SessionInv, TypeOK, Instance
  <2> QED
    BY <1>1, <1>4, <2>1, <2>2, <2>3 DEF IInv, SessionInv
<1>7. NewInv' /\ AtInv'
  BY <1>1, <1>4, <1>5 DEF IInv, NewInv, AtInv, TypeOK
<1>8. OwnInv'
  <2> SUFFICES ASSUME NEW q \in Providers, Running(q), NEW m \in Methods
               PROVE  (Mine(q, m) = IF m \in Published[q] \ todo[q]
                                       /\ server[session[q]] = "alive"
                                     THEN {Only(q, m)} ELSE {})'
    BY <1>4 DEF OwnInv
  <2>1. CASE session[q] = s
    BY <1>1, <1>5, <2>1 DEF Mine, IInv, TypeOK
  <2>2. CASE session[q] # s
    <3>1. Mine(q, m)' = Mine(q, m) /\ server'[session'[q]] = server[session[q]]
      BY <1>1, <1>5, <2>2 DEF Mine, IInv, TypeOK
    <3> QED
      BY <1>1, <3>1 DEF IInv, OwnInv, Only
  <2> QED
    BY <2>1, <2>2
<1> QED
  BY <1>2, <1>3, <1>6, <1>7, <1>8 DEF IInv

LEMMA StutterStep == ASSUME IInv, UNCHANGED vars PROVE IInv'
BY DEF IInv, TypeOK, SessionInv, NewInv, AtInv, OwnInv, Mine, Only, Running, Registering,
       vars, zkVars, runVars, sessionVars

LEMMA NextIInv == IInv /\ [Next]_vars => IInv'
BY SetContextStep, WakeStep, ExistsStep, LinkStep, StartStep, InitFailsStep, ConnectStep,
   ZooCreateStep, LoseAnswerStep, CrashStep, EndSessionStep, StutterStep DEF Next, Step, Io

LEMMA SpecIInv == Spec => []IInv
BY InitIInv, NextIInv, PTL DEF Spec

\* Every variable stays in its set, and the list of what a process has still to
\* do fits where it is.
THEOREM ProviderTypes == Spec => []TypeOK
<1>1. IInv => TypeOK
  BY DEF IInv
<1> QED
  BY <1>1, SpecIInv, PTL

\* A running provider is in ZooKeeper exactly once for each method it has come
\* past, and for no other, as long as its session lives.
THEOREM ProvidersRegisterOnce == Spec => []RegisteredOnce
<1>1. IInv => RegisteredOnce
  <2> SUFFICES ASSUME IInv, NEW p \in Providers, Running(p), NEW m \in Methods
               PROVE  Cardinality(Mine(p, m)) =
                        IF m \in Published[p] \ todo[p] /\ server[session[p]] = "alive"
                          THEN 1 ELSE 0
    BY DEF RegisteredOnce
  <2>1. Mine(p, m) = IF m \in Published[p] \ todo[p] /\ server[session[p]] = "alive"
                       THEN {Only(p, m)} ELSE {}
    BY DEF IInv, OwnInv
  <2>2. Cardinality({Only(p, m)}) = 1 /\ Cardinality({}) = 0
    BY FS_EmptySet, FS_Singleton
  <2> QED
    BY <2>1, <2>2
<1> QED
  BY <1>1, SpecIInv, PTL

\* Every address that callers find in ZooKeeper under the session of a process
\* is the one that this process made of its own configuration.
AddressIsOwn ==
  \A i \in instances : \A p \in Providers : session[p] = i.owner => i.data = Address(p)

THEOREM AddressesAreOwn == Spec => []AddressIsOwn
<1>1. IInv => AddressIsOwn
  <2> SUFFICES ASSUME IInv, NEW i \in instances, NEW p \in Providers, session[p] = i.owner
               PROVE  i.data = Address(p)
    BY DEF AddressIsOwn
  <2>1. i \in Instance /\ i.path \in Methods /\ i.owner \in Session
    BY DEF IInv, TypeOK, Instance
  <2>2. Running(p)
    BY <2>1 DEF IInv, SessionInv, Session
  <2>3. i \in Mine(p, i.path)
    BY DEF Mine
  <2>4. i = Only(p, i.path)
    BY <2>1, <2>2, <2>3 DEF IInv, OwnInv
  <2> QED
    BY <2>4 DEF Only
<1> QED
  BY <1>1, SpecIInv, PTL

\* If the text of every configuration file is read as it is meant, callers are
\* sent to the addresses that were meant, whatever processes do and however
\* they fail.
THEOREM AddressesAreConfigured ==
  ASSUME \A p \in Providers : Address(p) = Configured(p)
  PROVE  Spec => []AddressIsConfigured
<1>1. AddressIsOwn => AddressIsConfigured
  BY DEF AddressIsOwn, AddressIsConfigured
<1> QED
  BY <1>1, AddressesAreOwn, PTL

-----------------------------------------------------------------------------
(* The semaphore of ZkClient::Start.                                         *)

\* Before SetContext the post is missed, after it the post is there.
PostInv ==
  \A p \in Providers :
    pc[p] \in {"init", "wait"} /\ sem[p] = 0 => server[session[p]] = "none" \/ missed[p]

\* Steps that change neither what the semaphores nor what the server knows, and
\* take no process to sem_wait.
LEMMA PostKept ==
  ASSUME PostInv, UNCHANGED <<server, sem, missed, session>>,
         \A p \in Providers : pc'[p] \in {"init", "wait"} => pc[p] \in {"init", "wait"}
  PROVE  PostInv'
BY DEF PostInv

\* The step of one process, which is not at sem_wait afterwards.
LEMMA PostLeft ==
  ASSUME PostInv, NEW p \in Providers, UNCHANGED server,
         pc'[p] \notin {"init", "wait"},
         \A q \in Providers \ {p} :
           /\ pc'[q] = pc[q] /\ sem'[q] = sem[q]
           /\ session'[q] = session[q] /\ missed'[q] = missed[q]
  PROVE  PostInv'
<1> SUFFICES ASSUME NEW q \in Providers, pc'[q] \in {"init", "wait"}, sem'[q] = 0
             PROVE  server'[session'[q]] = "none" \/ missed'[q]
  BY DEF PostInv
<1>1. q # p
  OBVIOUS
<1> QED
  BY <1>1 DEF PostInv

LEMMA NextPost == IInv /\ PostInv /\ [Next]_vars => PostInv'
<1> SUFFICES ASSUME IInv, PostInv, [Next]_vars PROVE PostInv'
  OBVIOUS
<1>1. CASE UNCHANGED vars
  BY <1>1 DEF PostInv, vars, runVars, sessionVars
<1>2. ASSUME NEW p \in Providers, Start(p) PROVE PostInv'
  <2>1. server[starts + 1] = "none"
    <3>1. starts + 1 \in Session /\ starts + 1 > starts
      BY <1>2, Paths DEF Start, Session, IInv, TypeOK
    <3> QED
      BY <3>1 DEF IInv, SessionInv
  <2> QED
    BY <1>2, <2>1 DEF Start, Goto, PostInv, IInv, TypeOK
<1>3. ASSUME NEW p \in Providers, SetContext(p) PROVE PostInv'
  BY <1>3, PostKept DEF SetContext, Goto, sessionVars, IInv, TypeOK
<1>4. ASSUME NEW p \in Providers, Connect(p) PROVE PostInv'
  <2>1. /\ server \in [Session -> {"none", "alive", "ended"}] /\ sem \in [Providers -> Nat]
        /\ missed \in [Providers -> BOOLEAN]
        /\ \A q \in Providers : Running(q) => session[q] \in Session
    BY DEF IInv, TypeOK, SessionInv, Session
  <2>2. /\ pc' = pc /\ session' = session /\ session[p] \in Session
        /\ server' = [server EXCEPT ![session[p]] = "alive"]
        /\ \A q \in Providers \ {p} : Running(q) => session[q] # session[p]
    BY <1>4, <2>1 DEF Connect, runVars, IInv, SessionInv
  <2>3. \A q \in Providers \ {p} : sem'[q] = sem[q] /\ missed'[q] = missed[q]
    BY <1>4, <2>1 DEF Connect, PostIfContext
  <2>4. sem'[p] # 0 \/ missed'[p]
    <3>1. missed'[p] = (pc[p] = "init")
      BY <1>4, <2>1 DEF Connect, PostIfContext
    <3>2. CASE pc[p] # "init"
      BY <1>4, <2>1, <3>2 DEF Connect, PostIfContext
    <3> QED
      BY <3>1, <3>2
  <2>5. ASSUME NEW q \in Providers, pc'[q] \in {"init", "wait"}, sem'[q] = 0
        PROVE  server'[session'[q]] = "none" \/ missed'[q]
    <3>1. CASE q = p
      BY <2>4, <2>5, <3>1
    <3>2. CASE q # p
      <4>1. server'[session[q]] = server[session[q]]
        BY <2>1, <2>2, <2>5, <3>2 DEF Running
      <4> QED
        BY <2>2, <2>3, <2>5, <3>2, <4>1 DEF PostInv
    <3> QED
      BY <3>1, <3>2
  <2> QED
    BY <2>5 DEF PostInv
<1>5. ASSUME NEW p \in Providers, LearnExpiry(p) PROVE PostInv'
  BY <1>5, PostKept DEF LearnExpiry, runVars
<1>6. ASSUME NEW p \in Providers, Wake(p) PROVE PostInv'
  <2>1. Placed(p, todo[p])
    BY <1>6, NextMethodPlaces DEF Wake, IInv, TypeOK
  <2>2. /\ \A q \in Providers \ {p} : pc'[q] = pc[q] /\ sem'[q] = sem[q]
        /\ pc'[p] \in {"exists", "serving"} /\ UNCHANGED <<server, session, missed>>
    BY <1>6, <2>1 DEF Wake, Placed, IInv, TypeOK
  <2> QED
    BY <2>2, PostLeft
<1>7. ASSUME NEW p \in Providers, Registering(p), Proceed(p),
             UNCHANGED <<server, sem, missed, session>>
      PROVE  PostInv'
  <2>1. \A q \in Providers : pc'[q] \in {"init", "wait"} => pc[q] \in {"init", "wait"}
    BY <1>7, ProceedPlaces DEF Placed, IInv, TypeOK
  <2> QED
    BY <1>7, <2>1, PostKept
<1>8. ASSUME NEW p \in Providers, Exists(p) PROVE PostInv'
  <2>1. CASE Goto(p, "create")
    BY <1>8, <2>1, PostKept DEF Exists, Goto, sessionVars, IInv, TypeOK
  <2> QED
    BY <1>7, <1>8, <2>1 DEF Exists, Registering, sessionVars
<1>9. ASSUME NEW p \in Providers, NEW label \in {"off", "exited"}, End(p, label),
             UNCHANGED server
      PROVE  PostInv'
  BY <1>9, PostLeft DEF End, Goto, IInv, TypeOK
<1>10. ASSUME NEW p \in Providers, ZooCreate(p) PROVE PostInv'
  BY <1>7, <1>9, <1>10 DEF ZooCreate, Registering, sessionVars, Exit
<1>11. ASSUME NEW p \in Providers, Disconnect(p) PROVE PostInv'
  BY <1>11, PostKept DEF Disconnect, runVars
<1>12. ASSUME NEW p \in Providers, LoseAnswer(p) \/ Crash(p) PROVE PostInv'
  BY <1>9, <1>12 DEF LoseAnswer, Exit, Crash
<1>13. ASSUME NEW s \in Session, EndSession(s) PROVE PostInv'
  BY <1>13 DEF EndSession, PostInv, runVars, sessionVars, IInv, TypeOK
<1>14. ASSUME NEW p \in Providers, InitFails(p) PROVE PostInv'
  BY <1>14, PostKept DEF InitFails, Goto, sessionVars, IInv, TypeOK
<1> QED
  BY <1>1, <1>2, <1>3, <1>4, <1>5, <1>6, <1>8, <1>10, <1>11, <1>12, <1>13, <1>14
     DEF Next, Step, Io

\* Whatever fails, and in whatever order the two threads run, no post of the
\* semaphore is lost but the one that came before the context.
THEOREM PostsAreNotLost == Spec => []NoLostPost
<1>1. Init => PostInv
  BY DEF Init, PostInv
<1>2. PostInv => NoLostPost
  BY DEF PostInv, NoLostPost
<1> QED
  BY <1>1, <1>2, NextPost, SpecIInv, PTL DEF Spec

-----------------------------------------------------------------------------
(* Without faults: what keeps the last process from its exit.                *)

\* A session is new, or connected and alive.
Connected(p) ==
  /\ Running(p) => \/ server[session[p]] = "none" /\ link[p] = "connecting"
                   \/ server[session[p]] = "alive" /\ link[p] = "connected"

\* A method's path is worked on when its service's is there, and an instance
\* when the method's path is there.
HasParents(p) ==
  /\ Registering(p) => at[p] \in ServicePaths \/ ServiceOf(at[p]) \in nodes
  /\ pc[p] = "instance" => at[p] \in nodes

\* This process will not fail to create what it is about to create.
Safe(p) == pc[p] # "exited" /\ (pc[p] = "create" => at[p] \notin nodes)

LastStays ==
  faults = 0 => /\ \A p \in Providers : Connected(p) /\ HasParents(p)
                /\ Providers = {} \/ \E p \in Providers : Safe(p)

\* Only a process itself changes where it is.
OthersStay(p) == \A q \in Providers \ {p} : pc'[q] = pc[q] /\ at'[q] = at[q]

LEMMA NextMethodParents ==
  ASSUME TypeOK, NEW p \in Providers, NEW service, NEW rest,
         rest \subseteq Published[p], NextMethod(p, service, rest)
  PROVE  /\ OthersStay(p) /\ pc'[p] \in {"exists", "serving"}
         /\ pc'[p] = "exists" => at'[p] \in ServicePaths \/ ServiceOf(at'[p]) = service
BY Paths DEF NextMethod, Create, Goto, OthersStay, TypeOK

LEMMA ProceedParents ==
  ASSUME TypeOK, AtInv, NEW p \in Providers, Registering(p), Proceed(p),
         HasParents(p), nodes \subseteq nodes', at[p] \in nodes'
  PROVE  /\ OthersStay(p) /\ pc'[p] \in {"exists", "instance", "serving"}
         /\ HasParents(p)'
<1>0. todo[p] \subseteq Published[p] /\ todo[p] \ {at[p]} \subseteq Published[p]
  BY DEF TypeOK
<1>1. CASE pc[p] # "instance" /\ at[p] \in ServicePaths
  <2>1. NextMethod(p, at[p], todo[p])
    BY <1>1 DEF Proceed
  <2> QED
    BY <1>0, <2>1, NextMethodParents DEF HasParents, Registering
<1>2. CASE pc[p] # "instance" /\ at[p] \notin ServicePaths
  BY <1>2 DEF Proceed, Goto, OthersStay, HasParents, Registering, TypeOK
<1>3. CASE pc[p] = "instance"
  <2>1. NextMethod(p, ServiceOf(at[p]), todo[p] \ {at[p]}) /\ ServiceOf(at[p]) \in nodes'
    <3>1. at[p] \in Methods
      BY <1>3, Paths DEF TypeOK
    <3> QED
      BY <1>3, <3>1, Paths DEF Proceed, HasParents, Registering
  <2> QED
    BY <1>0, <2>1, NextMethodParents DEF HasParents, Registering
<1> QED
  BY <1>1, <1>2, <1>3

\* A step of p after which all have parents, and one of them is safe.
LEMMA StaysStep ==
  ASSUME LastStays, faults = 0, NEW p \in Providers, OthersStay(p), UNCHANGED nodes,
         HasParents(p)', Safe(p) => Safe(p)',
         \A q \in Providers : Connected(q)'
  PROVE  LastStays'
<1>1. \A q \in Providers : HasParents(q)'
  BY DEF LastStays, HasParents, Registering, OthersStay
<1>2. \A q \in Providers : Safe(q) => Safe(q)'
  BY DEF Safe, OthersStay
<1> QED
  BY <1>1, <1>2 DEF LastStays

\* Sessions and connections of processes that neither start nor end.
LEMMA ConnectedKept ==
  ASSUME TypeOK, \A p \in Providers : Connected(p), UNCHANGED <<server, session, link>>,
         NEW p \in Providers, OthersStay(p), Running(p)
  PROVE  \A q \in Providers : Connected(q)'
BY DEF Connected, Running, OthersStay

LEMMA StartStays ==
  ASSUME IInv, LastStays, faults = 0, NEW p \in Providers, Start(p) PROVE LastStays'
<1>1. /\ pc'[p] = "init" /\ OthersStay(p) /\ UNCHANGED nodes
      /\ \A q \in Providers \ {p} : session'[q] = session[q] /\ link'[q] = link[q]
      /\ session'[p] = starts + 1 /\ link'[p] = "connecting" /\ UNCHANGED server
  BY DEF Start, Goto, OthersStay, zkVars, IInv, TypeOK
<1>2. server[starts + 1] = "none"
  <2>1. starts + 1 \in Session /\ starts + 1 > starts
    BY Paths DEF Start, Session, IInv, TypeOK
  <2> QED
    BY <2>1 DEF IInv, SessionInv
<1>3. \A q \in Providers : Connected(q)'
  BY <1>1, <1>2 DEF LastStays, Connected, Running, OthersStay
<1>4. HasParents(p)' /\ Safe(p)'
  BY <1>1 DEF HasParents, Safe, Registering
<1> QED
  BY <1>1, <1>3, <1>4, StaysStep

LEMMA SetContextStays ==
  ASSUME IInv, LastStays, faults = 0, NEW p \in Providers, SetContext(p) PROVE LastStays'
<1>1. /\ pc[p] = "init" /\ pc'[p] = "wait" /\ OthersStay(p)
      /\ UNCHANGED <<nodes, server, session, link>>
  BY DEF SetContext, Goto, OthersStay, zkVars, sessionVars, IInv, TypeOK
<1>2. \A q \in Providers : Connected(q)'
  BY <1>1, ConnectedKept DEF LastStays, IInv, Running
<1>3. HasParents(p)' /\ Safe(p)'
  BY <1>1 DEF HasParents, Safe, Registering
<1> QED
  BY <1>1, <1>2, <1>3, StaysStep

LEMMA ConnectStays ==
  ASSUME IInv, LastStays, faults = 0, NEW p \in Providers, Connect(p) PROVE LastStays'
<1>1. /\ UNCHANGED <<nodes, pc, at, session>> /\ Running(p) /\ session[p] \in Session
      /\ server' = [server EXCEPT ![session[p]] = "alive"]
      /\ link' = [link EXCEPT ![p] = "connected"]
  BY DEF IInv, TypeOK, SessionInv, Connect, runVars, zkVars, Session
<1>2. \A q \in Providers \ {p} : Running(q) => session[q] # session[p]
  BY <1>1 DEF IInv, SessionInv
<1>3. \A q \in Providers : Connected(q)'
  BY <1>1, <1>2 DEF LastStays, Connected, Running, IInv, TypeOK
<1>4. OthersStay(p) /\ (Safe(p) => Safe(p)') /\ HasParents(p)'
  BY <1>1 DEF OthersStay, Safe, HasParents, Registering, LastStays
<1> QED
  BY <1>1, <1>3, <1>4, StaysStep

\* The server has not ended the session of a running process.
LEMMA NoExpiry ==
  ASSUME IInv, LastStays, faults = 0, NEW p \in Providers PROVE ~LearnExpiry(p)
BY DEF LastStays, LearnExpiry, Connected

LEMMA WakeStays ==
  ASSUME IInv, LastStays, faults = 0, NEW p \in Providers, Wake(p) PROVE LastStays'
<1>1. /\ pc[p] = "wait" /\ NextMethod(p, <<>>, todo[p]) /\ UNCHANGED <<server, session, link>>
      /\ nodes' = nodes /\ todo[p] \subseteq Published[p] /\ TypeOK
  BY DEF Wake, zkVars, IInv, TypeOK
<1>2. /\ OthersStay(p) /\ pc'[p] \in {"exists", "serving"}
      /\ pc'[p] = "exists" => at'[p] \in ServicePaths \/ ServiceOf(at'[p]) = <<>>
  BY <1>1, NextMethodParents
<1>3. pc'[p] = "exists" => at'[p] \in ServicePaths
  <2>1. pc'[p] = "exists" => at'[p] \in ServicePaths \cup todo[p]
    <3>1. Placed(p, todo[p])
      BY <1>1, NextMethodPlaces
    <3>2. pc \in [Providers -> {"off", "init", "wait", "exists", "create", "instance",
                               "serving", "exited"}]
      BY <1>1 DEF TypeOK
    <3> QED
      BY <3>1, <3>2 DEF Placed
  <2> QED
    BY <1>1, <1>2, <2>1, Paths
<1>4. \A q \in Providers : Connected(q)'
  BY <1>1, <1>2, ConnectedKept DEF LastStays, Running
<1>5. HasParents(p)' /\ Safe(p)'
  BY <1>2, <1>3 DEF HasParents, Safe, Registering
<1> QED
  BY <1>1, <1>2, <1>4, <1>5, StaysStep

\* A running process that is past sem_wait is connected.
LEMMA PastWait ==
  ASSUME IInv, LastStays, faults = 0, NEW p \in Providers, Registering(p)
  PROVE  link[p] = "connected" /\ Running(p)
BY DEF LastStays, Connected, IInv, NewInv, Registering, Running

LEMMA ExistsStays ==
  ASSUME IInv, LastStays, faults = 0, NEW p \in Providers, Exists(p) PROVE LastStays'
<1>1. /\ pc[p] = "exists" /\ Registering(p) /\ UNCHANGED <<nodes, server, session, link>>
      /\ TypeOK /\ AtInv /\ HasParents(p)
  BY DEF Exists, Registering, zkVars, sessionVars, IInv, LastStays
<1>2. link[p] = "connected" /\ Running(p)
  BY <1>1, PastWait
<1>3. CASE at[p] \notin nodes /\ Goto(p, "create") /\ UNCHANGED <<at, todo>>
  <2>1. OthersStay(p) /\ HasParents(p)' /\ Safe(p)'
    BY <1>1, <1>3 DEF Goto, OthersStay, HasParents, Safe, Registering, TypeOK
  <2> QED
    BY <1>1, <1>2, <2>1, ConnectedKept, StaysStep DEF LastStays
<1>4. CASE at[p] \in nodes /\ Proceed(p)
  <2>1. /\ OthersStay(p) /\ pc'[p] \in {"exists", "instance", "serving"}
        /\ HasParents(p)'
    BY <1>1, <1>4, ProceedParents
  <2>2. Safe(p)'
    BY <2>1 DEF Safe
  <2> QED
    BY <1>1, <1>2, <2>1, <2>2, ConnectedKept, StaysStep DEF LastStays
<1> QED
  BY <1>2, <1>3, <1>4 DEF Exists

\* Whoever has just created is safe; whoever fails to create was not.
LEMMA ZooCreateStays ==
  ASSUME IInv, LastStays, faults = 0, NEW p \in Providers, ZooCreate(p) PROVE LastStays'
<1>1. /\ pc[p] \in {"create", "instance"} /\ Registering(p) /\ UNCHANGED server
      /\ TypeOK /\ AtInv /\ HasParents(p)
  BY DEF ZooCreate, Registering, IInv, LastStays
<1>2. link[p] = "connected" /\ Running(p)
  BY <1>1, PastWait
<1>3. CASE Make(p) /\ Proceed(p) /\ UNCHANGED sessionVars
  <2>1. nodes \subseteq nodes' /\ at[p] \in nodes'
    BY <1>3 DEF Make, MakeNode, MakeInstance
  <2>2. /\ OthersStay(p) /\ pc'[p] \in {"exists", "instance", "serving"}
        /\ HasParents(p)'
    BY <1>1, <1>3, <2>1, ProceedParents
  <2>3. Safe(p)'
    BY <2>2 DEF Safe
  <2>4. \A q \in Providers : Connected(q)'
    BY <1>1, <1>2, <1>3, <2>2, ConnectedKept DEF LastStays, sessionVars
  <2>5. \A q \in Providers : HasParents(q)'
    BY <2>1, <2>2 DEF LastStays, HasParents, Registering, OthersStay
  <2> QED
    BY <2>3, <2>4, <2>5 DEF LastStays
<1>4. CASE Unmakeable(p) /\ Exit(p) /\ UNCHANGED zkVars
  <2>1. ~Safe(p)
    BY <1>1, <1>4 DEF Unmakeable, Safe, HasParents, HasParent, Registering
  <2>2. /\ OthersStay(p) /\ pc'[p] = "exited" /\ UNCHANGED nodes
        /\ \A q \in Providers \ {p} : session'[q] = session[q] /\ link'[q] = link[q]
    BY <1>4 DEF Exit, End, Goto, OthersStay, zkVars, IInv, TypeOK
  <2>3. \A q \in Providers : Connected(q)'
    BY <1>1, <2>2 DEF LastStays, Connected, Running, OthersStay
  <2>4. HasParents(p)'
    BY <2>2 DEF HasParents, Registering
  <2> QED
    BY <2>1, <2>2, <2>3, <2>4, StaysStep
<1> QED
  BY <1>2, <1>3, <1>4 DEF ZooCreate

LEMMA CrashStays ==
  ASSUME IInv, LastStays, faults = 0, NEW p \in Providers, Crash(p) PROVE LastStays'
<1>1. /\ OthersStay(p) /\ pc'[p] = "off" /\ UNCHANGED <<nodes, server>>
      /\ \A q \in Providers \ {p} : session'[q] = session[q] /\ link'[q] = link[q]
  BY DEF Crash, End, Goto, OthersStay, zkVars, IInv, TypeOK
<1>2. \A q \in Providers : Connected(q)'
  BY <1>1 DEF LastStays, Connected, Running, OthersStay
<1>3. HasParents(p)' /\ Safe(p)'
  BY <1>1 DEF HasParents, Safe, Registering
<1> QED
  BY <1>1, <1>2, <1>3, StaysStep

LEMMA EndSessionStays ==
  ASSUME IInv, LastStays, faults = 0, NEW s \in Session, EndSession(s) PROVE LastStays'
<1>1. /\ server' = [server EXCEPT ![s] = "ended"] /\ server[s] = "alive"
      /\ UNCHANGED <<nodes, pc, at, session, link>>
      /\ \A p \in Providers : Running(p) /\ link[p] = "connected" => session[p] # s
  BY DEF EndSession, InUse, runVars, sessionVars
<1>2. \A q \in Providers : Connected(q)'
  BY <1>1 DEF LastStays, Connected, Running, IInv, TypeOK
<1>3. \A q \in Providers : (HasParents(q) => HasParents(q)') /\ (Safe(q) => Safe(q)')
  BY <1>1 DEF HasParents, Safe, Registering
<1> QED
  BY <1>2, <1>3 DEF LastStays

LEMMA NextStays == IInv /\ LastStays /\ [Next]_vars => LastStays'
<1> SUFFICES ASSUME IInv, LastStays, [Next]_vars PROVE LastStays'
  OBVIOUS
<1>1. CASE UNCHANGED vars
  BY <1>1 DEF LastStays, Connected, HasParents, Safe, Running, Registering,
              vars, zkVars, runVars, sessionVars
<1>2. ASSUME NEW p \in Providers, InitFails(p) \/ Disconnect(p) \/ LoseAnswer(p)
      PROVE  LastStays'
  BY <1>2 DEF InitFails, Disconnect, LoseAnswer, LoseConnection, LastStays, IInv, TypeOK
<1>3. faults' = 0 => faults = 0
  BY DEF Next, Start, InitFails, Step, Io, Disconnect, LoseAnswer, Crash, LoseConnection, EndSession,
         SetContext, Wake, Exists, ZooCreate, Connect, LearnExpiry, vars, IInv, TypeOK
<1>4. CASE faults # 0
  BY <1>3, <1>4 DEF LastStays
<1>5. CASE faults = 0
  BY <1>1, <1>2, <1>5, StartStays, SetContextStays, ConnectStays, NoExpiry, WakeStays,
     ExistsStays, ZooCreateStays, CrashStays, EndSessionStays DEF Next, Step, Io
<1> QED
  BY <1>4, <1>5

\* As long as nothing fails, providers that race to create the same znodes never
\* all end.
THEOREM SomeProviderStays == Spec => []NotAllExit
<1>1. Init => LastStays
  BY DEF Init, LastStays, Connected, HasParents, Safe, Running, Registering
<1>2. LastStays => NotAllExit
  BY DEF LastStays, Safe, NotAllExit
<1> QED
  BY <1>1, <1>2, NextStays, SpecIInv, PTL DEF Spec

-----------------------------------------------------------------------------
(* Providers that have no service in common.                                 *)

OwnServices(p) == {ServiceOf(m) : m \in Published[p]}
OwnPath(p) == Registering(p) => at[p] \in OwnServices(p) \cup Published[p]

Apart ==
  \A p, q \in Providers : p # q => OwnServices(p) \cap OwnServices(q) = {}

\* Every process works on its own paths, and no other makes them meanwhile.
AloneInv == faults = 0 => \A p \in Providers : OwnPath(p) /\ Safe(p)

LEMMA OwnPathsDiffer ==
  ASSUME Apart, NEW p \in Providers, NEW q \in Providers, p # q,
         OwnPath(p), OwnPath(q), Registering(p), Registering(q)
  PROVE  at[p] # at[q]
<1>1. /\ OwnServices(p) \subseteq ServicePaths /\ OwnServices(q) \subseteq ServicePaths
      /\ Published[p] \subseteq Methods /\ Published[q] \subseteq Methods
  BY Paths DEF OwnServices
<1>2. ServicePaths \cap Methods = {}
  BY ProviderAssumption
<1>3. Published[p] \cap Published[q] = {}
  BY DEF Apart, OwnServices
<1> QED
  BY <1>1, <1>2, <1>3 DEF Apart, OwnPath

LEMMA NextMethodOwn ==
  ASSUME TypeOK, NEW p \in Providers, NEW service, NEW rest,
         rest \subseteq Published[p], NextMethod(p, service, rest)
  PROVE  OthersStay(p) /\ pc'[p] \in {"exists", "serving"} /\ OwnPath(p)'
<1>1. OthersStay(p) /\ pc'[p] \in {"exists", "serving"}
  BY NextMethodParents
<1>2. ASSUME NEW m \in rest, Create(p, m) \/ Create(p, ServiceOf(m)) PROVE OwnPath(p)'
  BY <1>2 DEF Create, OwnPath, OwnServices, TypeOK
<1>3. ASSUME Goto(p, "serving") PROVE OwnPath(p)'
  BY <1>3 DEF Goto, OwnPath, Registering, TypeOK
<1> QED
  BY <1>1, <1>2, <1>3 DEF NextMethod

LEMMA ProceedOwn ==
  ASSUME TypeOK, NEW p \in Providers, OwnPath(p), Registering(p), Proceed(p)
  PROVE  OthersStay(p) /\ pc'[p] \in {"exists", "instance", "serving"} /\ OwnPath(p)'
<1>1. todo[p] \subseteq Published[p] /\ todo[p] \ {at[p]} \subseteq Published[p]
  BY DEF TypeOK
<1>2. CASE NextMethod(p, at[p], todo[p])
  BY <1>1, <1>2, NextMethodOwn
<1>3. CASE Goto(p, "instance") /\ UNCHANGED at
  BY <1>3 DEF Goto, OthersStay, OwnPath, TypeOK
<1>4. CASE NextMethod(p, ServiceOf(at[p]), todo[p] \ {at[p]})
  BY <1>1, <1>4, NextMethodOwn
<1> QED
  BY <1>2, <1>3, <1>4 DEF Proceed

\* A step of p that makes no znode, or the one p works on.
LEMMA AloneStep ==
  ASSUME Apart, AloneInv, faults = 0, NEW p \in Providers, OthersStay(p),
         nodes' = nodes \/ (Registering(p) /\ nodes' \subseteq nodes \cup {at[p]}),
         OwnPath(p)', Safe(p)'
  PROVE  AloneInv'
<1> SUFFICES ASSUME NEW q \in Providers, q # p PROVE OwnPath(q)' /\ Safe(q)'
  BY DEF AloneInv
<1>1. pc'[q] = pc[q] /\ at'[q] = at[q] /\ OwnPath(q) /\ Safe(q) /\ OwnPath(p)
  BY DEF OthersStay, AloneInv
<1>2. OwnPath(q)'
  BY <1>1 DEF OwnPath, Registering
<1>3. pc[q] = "create" => at[q] \notin nodes'
  BY <1>1, OwnPathsDiffer DEF Safe, Registering
<1> QED
  BY <1>1, <1>2, <1>3 DEF Safe

LEMMA NextAlone ==
  ASSUME Apart, IInv, LastStays, AloneInv, [Next]_vars PROVE AloneInv'
<1>1. faults' = 0 => faults = 0
  BY DEF Next, Start, InitFails, Step, Io, Disconnect, LoseAnswer, Crash, LoseConnection, EndSession,
         SetContext, Wake, Exists, ZooCreate, Connect, LearnExpiry, vars, IInv, TypeOK
<1>2. SUFFICES ASSUME faults = 0, faults' = 0 PROVE AloneInv'
  BY <1>1 DEF AloneInv
<1>3. TypeOK
  BY DEF IInv
<1>4. ASSUME UNCHANGED <<nodes, pc, at>> PROVE AloneInv'
  BY <1>2, <1>4 DEF AloneInv, OwnPath, Safe, Registering
<1>5. ASSUME NEW p \in Providers, NEW label \in {"off", "init", "wait"},
             Goto(p, label), UNCHANGED nodes, \A q \in Providers \ {p} : at'[q] = at[q]
      PROVE  AloneInv'
  <2>1. OthersStay(p) /\ OwnPath(p)' /\ Safe(p)'
    BY <1>3, <1>5 DEF Goto, OthersStay, OwnPath, Safe, Registering, TypeOK
  <2> QED
    BY <1>2, <1>5, <2>1, AloneStep
<1>6. ASSUME NEW p \in Providers, Wake(p) PROVE AloneInv'
  <2>1. NextMethod(p, <<>>, todo[p]) /\ nodes' = nodes /\ todo[p] \subseteq Published[p]
    BY <1>3, <1>6 DEF Wake, zkVars, TypeOK
  <2>2. OthersStay(p) /\ pc'[p] \in {"exists", "serving"} /\ OwnPath(p)'
    BY <1>3, <2>1, NextMethodOwn
  <2> QED
    BY <1>2, <2>1, <2>2, AloneStep DEF Safe
<1>7. ASSUME NEW p \in Providers, Registering(p), Proceed(p),
             nodes' \subseteq nodes \cup {at[p]}
      PROVE  AloneInv'
  <2>1. OthersStay(p) /\ pc'[p] \in {"exists", "instance", "serving"} /\ OwnPath(p)'
    BY <1>2, <1>3, <1>7, ProceedOwn DEF AloneInv
  <2> QED
    BY <1>2, <1>7, <2>1, AloneStep DEF Safe
<1>8. ASSUME NEW p \in Providers, Exists(p) PROVE AloneInv'
  <2>1. link[p] = "connected" /\ Registering(p) /\ nodes' = nodes
    BY <1>2, <1>8, PastWait DEF Exists, Registering, zkVars
  <2>2. CASE at[p] \notin nodes /\ Goto(p, "create") /\ UNCHANGED at
    <3>1. OthersStay(p) /\ OwnPath(p)' /\ Safe(p)'
      BY <1>2, <1>3, <2>1, <2>2
         DEF Goto, OthersStay, OwnPath, Safe, Registering, TypeOK, AloneInv
    <3> QED
      BY <1>2, <2>1, <3>1, AloneStep
  <2> QED
    BY <1>7, <1>8, <2>1, <2>2 DEF Exists
<1>9. ASSUME NEW p \in Providers, ZooCreate(p) PROVE AloneInv'
  <2>1. link[p] = "connected" /\ Registering(p)
    BY <1>2, <1>9, PastWait DEF ZooCreate, Registering
  <2>2. ~Unmakeable(p)
    BY <1>2, <2>1
       DEF Unmakeable, Safe, HasParents, HasParent, AloneInv, LastStays, Registering
  <2>3. Make(p) => nodes' \subseteq nodes \cup {at[p]}
    BY DEF Make, MakeNode, MakeInstance
  <2> QED
    BY <1>7, <1>9, <2>1, <2>2, <2>3 DEF ZooCreate
<1>10. ASSUME NEW p \in Providers, Start(p) PROVE AloneInv'
  BY <1>5, <1>10 DEF Start, zkVars
<1>11. ASSUME NEW p \in Providers, SetContext(p) PROVE AloneInv'
  BY <1>5, <1>11 DEF SetContext, zkVars
<1>12. ASSUME NEW p \in Providers, Crash(p) PROVE AloneInv'
  BY <1>3, <1>5, <1>12 DEF Crash, End, zkVars, TypeOK
<1>13. ASSUME NEW p \in Providers PROVE ~InitFails(p) /\ ~Disconnect(p) /\ ~LoseAnswer(p)
  BY <1>2 DEF InitFails, Disconnect, LoseAnswer, LoseConnection
<1>14. ASSUME NEW p \in Providers, Io(p) PROVE AloneInv'
  BY <1>4, <1>14 DEF Io, Connect, LearnExpiry, zkVars, runVars
<1>15. ASSUME NEW s \in Session, EndSession(s) PROVE AloneInv'
  BY <1>4, <1>15 DEF EndSession, runVars
<1>16. CASE UNCHANGED vars
  BY <1>4, <1>16 DEF vars, zkVars, runVars
<1> QED
  BY <1>6, <1>8, <1>9, <1>10, <1>11, <1>12, <1>13, <1>14, <1>15, <1>16 DEF Next, Step

\* Looking first whether a znode exists is enough between providers that have no
\* service in common, and against a process's own earlier starts: without a
\* fault none of them ends (zookeeperutil.cc:97-113).
THEOREM OnlyCommonServicesRace ==
  ASSUME Apart PROVE Spec => []ExitsOnlyOnFault
<1>1. Init => LastStays /\ AloneInv
  BY DEF Init, LastStays, Connected, HasParents, AloneInv, OwnPath, Safe, Running, Registering
<1>2. AloneInv => ExitsOnlyOnFault
  BY DEF AloneInv, Safe, ExitsOnlyOnFault
<1>3. IInv /\ LastStays /\ AloneInv /\ [Next]_vars => AloneInv'
  BY NextAlone
<1> QED
  BY <1>1, <1>2, <1>3, NextStays, SpecIInv, PTL DEF Spec
=============================================================================
