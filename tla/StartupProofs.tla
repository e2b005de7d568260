---------------------------- MODULE StartupProofs ----------------------------
(***************************************************************************)
(* For any number of attempts and of connections: the types of Startup,    *)
(* that no thread waits for a mutex it holds, that join_network returns    *)
(* with a listening server and a first peer, and that it connects to one   *)
(* peer only.                                                              *)
(***************************************************************************)
EXTENDS Startup, FiniteSetTheorems, TLAPS

MainSteps == {"join", "connect", "counting", "ask", "wait", "sleep", "ready",
              "returned"}
ConnSteps == {"none", "start", "receive", "lock", "locked", "closed"}

\* Every kind of thread keeps to its own code.
Places ==
    /\ pc[Main] \in MainSteps
    /\ pc[Server] \in {"none", "bind", "accept"}
    /\ \A c \in Conn : pc[c] \in ConnSteps

\* What join_network has seen: it connects only while there is no peer, and
\* what it found it has not lost since.
Seen ==
    /\ pc[Main] \in {"connect", "counting"} => peers_count = 0
    /\ pc[Main] \in {"ask", "wait", "sleep", "ready", "returned"}
           => peers_count = 1
    /\ pc[Main] = "ready" => server_ready = 1
    /\ pc[Main] = "returned" => server_ready = 1

Phases == TypeOK /\ Places /\ Seen

\* The steps at which peers_mutex is held are the ones between lock and
\* unlock.
Held ==
    /\ mutex = Main <=> pc[Main] \in {"connect", "counting", "sleep", "ready"}
    /\ \A c \in Conn : mutex = c <=> pc[c] = "locked"
    /\ mutex # Server

\* The threads are different from each other and from no owner.
LEMMA Threads ==
    /\ Main \in Thread /\ Server \in Thread /\ Main # Server
    /\ Conn \subseteq Thread /\ Main \notin Conn /\ Server \notin Conn
    /\ None # Main /\ None # Server /\ None \notin Conn
    /\ Client \subseteq Conn /\ Guest \subseteq Conn
    /\ \A th \in Thread : th = Main \/ th = Server \/ th \in Conn
BY StartupConstants DEF Thread, Conn

\* The first step of every thread.
LEMMA PhasesInit == Init => Phases
<1>. SUFFICES ASSUME Init PROVE Phases
  OBVIOUS
<1>1. TypeOK
  <2>1. peers_count \in {0, 1} /\ connfd \in BOOLEAN
    BY DEF Init
  <2>2. tries \in 0..MaxTries
    BY StartupConstants DEF Init
  <2>. QED
    BY <2>1, <2>2, Threads DEF Init, TypeOK
<1>2. Places /\ Seen
  BY Threads DEF Init, Places, Seen, MainSteps, ConnSteps
<1>. QED
  BY <1>1, <1>2 DEF Phases

\* join_network keeps the phases.
LEMMA PhasesMain == ASSUME Phases, MainStep PROVE Phases'
<1>. USE Threads DEF Phases, TypeOK, Places, Seen, MainSteps, ConnSteps, Goto, netVars
<1>1. CASE JoinTest
  BY <1>1 DEF JoinTest, AfterBreak
<1>2. ASSUME NEW ok \in BOOLEAN, JoinConnect(ok) PROVE Phases'
  <2>1. tries' \in 0..MaxTries /\ connfd' \in BOOLEAN
    BY <1>2, StartupConstants DEF JoinConnect, Descriptor
  <2>2. /\ pc'[Main] = "counting" /\ pc'[Server] = pc[Server]
        /\ \A c \in Conn : pc'[c] \in {"start", pc[c]}
        /\ DOMAIN pc' = Thread
        /\ pc' = [th \in Thread |-> pc'[th]]
    <3>1. tries + 1 \in Client
      BY <1>2, StartupConstants DEF JoinConnect, Client
    <3>2. tries + 1 # Server /\ tries + 1 # Main
      BY <3>1
    <3>. QED
      BY <1>2, <3>2 DEF JoinConnect
  <2>. QED
    BY <1>2, <2>1, <2>2 DEF JoinConnect
<1>3. CASE JoinCount
  BY <1>3 DEF JoinCount, Counted
<1>4. CASE JoinAsk
  BY <1>4 DEF JoinAsk, fatal
<1>5. CASE WaitLock
  BY <1>5 DEF WaitLock, LooksReady
<1>6. CASE WaitUnlock
  BY <1>6 DEF WaitUnlock, AfterWait
<1>. QED
  BY <1>1, <1>2, <1>3, <1>4, <1>5, <1>6 DEF MainStep

\* The server keeps them.
LEMMA PhasesServer ==
    ASSUME Phases, \/ Listen \/ ServerFails \/ \E g \in Guest : Accept(g)
    PROVE  Phases'
<1>. USE Threads DEF Phases, TypeOK, Places, Seen, MainSteps, ConnSteps, Goto, netVars
<1>1. CASE Listen
  BY <1>1 DEF Listen
<1>2. CASE ServerFails
  BY <1>2 DEF ServerFails, fatal
<1>3. ASSUME NEW g \in Guest, Accept(g) PROVE Phases'
  BY <1>3 DEF Accept
<1>. QED
  BY <1>1, <1>2, <1>3

\* The connections keep them.
LEMMA PhasesConn ==
    ASSUME Phases, NEW c \in Conn,
           \/ HandlerStep(c) \/ Receive(c) \/ SendFails(c) \/ Close(c)
    PROVE  Phases'
<1>. USE Threads DEF Phases, TypeOK, Places, Seen, MainSteps, ConnSteps, Goto, netVars
<1>1. CASE HandlerStart(c)
  BY <1>1 DEF HandlerStart, fatal
<1>2. CASE HandlerLock(c)
  BY <1>2 DEF HandlerLock
<1>3. CASE HandlerUnlock(c)
  BY <1>3 DEF HandlerUnlock, Released
<1>4. CASE Receive(c)
  BY <1>4 DEF Receive
<1>5. CASE SendFails(c)
  BY <1>5 DEF SendFails, fatal
<1>6. CASE Close(c)
  BY <1>6 DEF Close
<1>. QED
  BY <1>1, <1>2, <1>3, <1>4, <1>5, <1>6 DEF HandlerStep

LEMMA PhasesStep == Phases /\ [Next]_vars => Phases'
<1>. SUFFICES ASSUME Phases, [Next]_vars PROVE Phases'
  OBVIOUS
<1>1. CASE UNCHANGED vars
  BY <1>1 DEF Phases, TypeOK, Places, Seen, vars, netVars
<1>2. CASE MainStep
  BY <1>2, PhasesMain
<1>3. CASE \/ Listen \/ ServerFails \/ \E g \in Guest : Accept(g)
  BY <1>3, PhasesServer
<1>4. CASE \E c \in Conn : HandlerStep(c) \/ Receive(c) \/ SendFails(c) \/ Close(c)
  BY <1>4, PhasesConn
<1>. QED
  BY <1>1, <1>2, <1>3, <1>4 DEF Next

LEMMA AlwaysPhases == Spec => []Phases
  BY PhasesInit, PhasesStep, PTL DEF Spec

\* Every behaviour of joining the network keeps the types, with any of its
\* statements repaired or not (network.c:21 to 62, 269 to 350).
THEOREM StartupTyped == Spec => []TypeOK
<1>1. Phases => TypeOK
  BY DEF Phases
<1>. QED
  BY <1>1, AlwaysPhases, PTL

LEMMA HeldInit == Init => Held
  BY Threads DEF Init, Held

LEMMA HeldMain ==
    ASSUME "break_unlock" \in Repaired, Phases, Held, MainStep PROVE Held'
<1>. USE Threads DEF Phases, TypeOK, Places, Held, MainSteps, ConnSteps, Goto, netVars
<1>1. CASE JoinTest
  BY <1>1 DEF JoinTest, AfterBreak, Free
<1>2. ASSUME NEW ok \in BOOLEAN, JoinConnect(ok) PROVE Held'
  <2>1. tries + 1 # Server /\ tries + 1 # Main
    BY <1>2, StartupConstants DEF JoinConnect, Client
  <2>2. /\ pc'[Main] = "counting"
        /\ \A c \in Conn : pc'[c] = pc[c] \/ pc'[c] = "start"
    BY <1>2, <2>1 DEF JoinConnect
  <2>3. mutex' = mutex /\ mutex = Main
    BY <1>2 DEF JoinConnect
  <2>. QED
    BY <2>2, <2>3
<1>3. CASE JoinCount
  BY <1>3 DEF JoinCount
<1>4. CASE JoinAsk
  BY <1>4 DEF JoinAsk, fatal
<1>5. CASE WaitLock
  BY <1>5 DEF WaitLock, Free
<1>6. CASE WaitUnlock
  BY <1>6 DEF WaitUnlock, AfterWait
<1>. QED
  BY <1>1, <1>2, <1>3, <1>4, <1>5, <1>6 DEF MainStep

LEMMA HeldOthers ==
    ASSUME Phases, Held,
           \/ Listen \/ ServerFails \/ \E g \in Guest : Accept(g)
           \/ \E c \in Conn : \/ HandlerStep(c) \/ Receive(c)
                              \/ SendFails(c) \/ Close(c)
    PROVE  Held'
<1>. USE Threads DEF Phases, TypeOK, Places, Held, MainSteps, ConnSteps, Goto, netVars
<1>1. CASE Listen \/ ServerFails
  BY <1>1 DEF Listen, ServerFails, fatal
<1>2. ASSUME NEW g \in Guest, Accept(g) PROVE Held'
  BY <1>2 DEF Accept
<1>3. ASSUME NEW c \in Conn, HandlerStart(c) PROVE Held'
  BY <1>3 DEF HandlerStart, fatal
<1>4. ASSUME NEW c \in Conn, HandlerLock(c) PROVE Held'
  BY <1>4 DEF HandlerLock, Free
<1>5. ASSUME NEW c \in Conn, HandlerUnlock(c) PROVE Held'
  BY <1>5 DEF HandlerUnlock, Released
<1>6. ASSUME NEW c \in Conn, Receive(c) \/ SendFails(c) \/ Close(c) PROVE Held'
  BY <1>6 DEF Receive, SendFails, Close, fatal
<1>. QED
  BY <1>1, <1>2, <1>3, <1>4, <1>5, <1>6 DEF HandlerStep

LEMMA HeldStep ==
    ASSUME "break_unlock" \in Repaired
    PROVE  Phases /\ Held /\ [Next]_vars => Held'
<1>. SUFFICES ASSUME Phases, Held, [Next]_vars PROVE Held'
  OBVIOUS
<1>1. CASE UNCHANGED vars
  BY <1>1 DEF Held, vars
<1>2. CASE MainStep
  BY <1>2, HeldMain
<1>3. CASE \/ Listen \/ ServerFails \/ \E g \in Guest : Accept(g)
           \/ \E c \in Conn : \/ HandlerStep(c) \/ Receive(c)
                              \/ SendFails(c) \/ Close(c)
  BY <1>3, HeldOthers
<1>. QED
  BY <1>1, <1>2, <1>3 DEF Next

\* With the mutex released on the break of network.c:35, no thread ever
\* waits for a mutex that it holds, whatever else is as written and however
\* many connections there are.
THEOREM StartupNoSelfWait ==
    ASSUME "break_unlock" \in Repaired
    PROVE  Spec => []NoSelfWait
<1>1. Phases /\ Held => NoSelfWait
  BY Threads DEF Phases, Places, Held, NoSelfWait, ConnSteps, MainSteps
<1>2. Phases /\ Held /\ [Next]_vars => Held'
  BY HeldStep
<1>. QED
  BY <1>1, <1>2, HeldInit, AlwaysPhases, PTL DEF Spec

------------------------------------------------------------------------------
(* One first peer.                                                         *)

Running(c) == pc[c] # "none"

\* At most one attempt has got a thread, and only once it is counted or about
\* to be.
OneRuns ==
    /\ \A c, d \in Client : Running(c) /\ Running(d) => c = d
    /\ \A c \in Client : Running(c) =>
           peers_count = 1 \/ (pc[Main] = "counting" /\ connfd)

LEMMA OneRunsStep ==
    ASSUME "connfd_set" \in Repaired, Phases, OneRuns, [Next]_vars
    PROVE  OneRuns'
<1>. USE Threads DEF Running, Goto, netVars
<1>1. CASE UNCHANGED vars
  BY <1>1 DEF vars, OneRuns
<1>2. ASSUME NEW ok \in BOOLEAN, JoinConnect(ok) PROVE OneRuns'
  <2>1. \A c \in Client : ~ Running(c)
    BY <1>2 DEF JoinConnect, OneRuns, Phases, Seen
  <2>2. /\ pc'[Main] = "counting" /\ connfd' = ok
        /\ \A c \in Client : pc'[c] # "none" => c = tries + 1 /\ ok
    <3>1. \A c \in Client : c # Main /\ c \in Thread
      OBVIOUS
    <3>2. \A c \in Client : pc'[c] = IF c = tries + 1 /\ ok THEN "start" ELSE pc[c]
      BY <1>2, <3>1 DEF JoinConnect
    <3>3. pc'[Main] = "counting" /\ connfd' = ok
      <4>1. tries + 1 \in Client
        BY <1>2, StartupConstants DEF JoinConnect, Client, Phases, TypeOK
      <4>2. tries + 1 # Main
        BY <3>1, <4>1
      <4>. QED
        BY <1>2, <4>2 DEF JoinConnect, Descriptor
    <3>. QED
      BY <2>1, <3>2, <3>3
  <2>. QED
    BY <2>2 DEF OneRuns
<1>3. CASE JoinCount
  <2>1. \A c \in Client : pc'[c] = pc[c]
    BY <1>3 DEF JoinCount, Phases, TypeOK
  <2>2. peers_count = 0 /\ peers_count' = IF connfd THEN 1 ELSE 0
    BY <1>3 DEF JoinCount, Counted, Phases, Seen
  <2>. QED
    BY <2>1, <2>2 DEF OneRuns
<1>4. CASE JoinTest \/ JoinAsk \/ WaitLock \/ WaitUnlock
  <2>1. /\ \A c \in Client : pc'[c] = pc[c]
        /\ peers_count' = peers_count /\ pc[Main] # "counting"
    BY <1>4 DEF JoinTest, JoinAsk, fatal, WaitLock, WaitUnlock, Phases, TypeOK
  <2>. QED
    BY <2>1 DEF OneRuns
<1>5. CASE Listen \/ ServerFails \/ \E g \in Guest : Accept(g)
  <2>1. /\ \A c \in Client : pc'[c] = pc[c]
        /\ peers_count' = peers_count /\ pc'[Main] = pc[Main] /\ connfd' = connfd
    BY <1>5, StartupConstants DEF Listen, ServerFails, Accept, fatal, Phases, TypeOK
  <2>. QED
    BY <2>1 DEF OneRuns
<1>6. ASSUME NEW c \in Conn,
             \/ HandlerStart(c) \/ HandlerLock(c) \/ HandlerUnlock(c)
             \/ Receive(c) \/ SendFails(c) \/ Close(c)
      PROVE  OneRuns'
  <2>1. /\ pc[c] # "none"
        /\ \A d \in Client : d # c => pc'[d] = pc[d]
        /\ peers_count' = peers_count /\ pc'[Main] = pc[Main] /\ connfd' = connfd
    BY <1>6 DEF HandlerStart, HandlerLock, HandlerUnlock, Receive, SendFails,
                Close, fatal, Phases, TypeOK
  <2>. QED
    BY <2>1 DEF OneRuns
<1>. QED
  BY <1>1, <1>2, <1>3, <1>4, <1>5, <1>6 DEF Next, MainStep, HandlerStep

\* Once the descriptor that start_client_conn returns is kept, join_network
\* stops at the first attempt that works, for any number of attempts: no
\* second thread shares peers[0] (network.c:32 to 47).
THEOREM StartupOneFirstPeer ==
    ASSUME "connfd_set" \in Repaired
    PROVE  Spec => []OneFirstPeer
<1>1. Init => OneRuns
  BY Threads DEF Init, OneRuns, Running
<1>2. Phases /\ OneRuns => OneFirstPeer
  <2>. SUFFICES ASSUME Phases, OneRuns PROVE OneFirstPeer
    OBVIOUS
  <2>. DEFINE S == {c \in Client : pc[c] # "none"}
  <2>1. CASE S = {}
    <3>1. Cardinality(S) = 0
      BY <2>1, FS_EmptySet
    <3>. QED
      BY <3>1 DEF OneFirstPeer, Phases, TypeOK
  <2>2. CASE S # {}
    <3>1. PICK c \in S : S = {c}
      BY <2>2 DEF OneRuns, Running
    <3>2. Cardinality(S) = 1
      BY <3>1, FS_Singleton
    <3>3. peers_count = 1 \/ (peers_count = 0 /\ pc[Main] = "counting")
      BY <3>1 DEF OneRuns, Running, Phases, TypeOK
    <3>. QED
      BY <3>2, <3>3 DEF OneFirstPeer
  <2>. QED
    BY <2>1, <2>2
<1>. QED
  BY <1>1, <1>2, OneRunsStep, AlwaysPhases, PTL DEF Spec

==============================================================================
