------------------------------ MODULE Startup ------------------------------
(***************************************************************************)
(* How a node joins the network: join_network connects to a first peer and *)
(* waits for the thread of server_listener, while the threads of the       *)
(* connections, one per peer, already take peers_mutex for the messages    *)
(* they handle.  fatal() on any thread ends the process.                   *)
(*                                                                         *)
(* data_nodes_get_initial is a stub that finds no node, so the user enters *)
(* the address of every attempt.  Only peers[0] is ever in the table of    *)
(* peers: no code puts an accepted connection there.                       *)
(*                                                                         *)
(* A statement that defeats the purpose of its function is modelled both   *)
(* ways: as written, and with its evident correction when its name is in   *)
(* Repaired.                                                               *)
(***************************************************************************)
EXTENDS Integers, FiniteSets

CONSTANTS
    Main,       \* the thread that runs join_network
    Server,     \* the thread that runs server_listener
    Guest,      \* threads of connections that are accepted
    None,       \* no owner of the mutex
    MaxTries,   \* bound on the attempts to connect
    Repaired    \* the statements taken with their evident correction

\* count_init: peers_count is not initialised (network.c:23 to 34);
\* connfd_set: the descriptor start_client_conn returns is dropped, and
\*   peers[0]->connfd is what the memory held (network.c:43 to 44);
\* break_unlock: the first loop is left with peers_mutex held (network.c:35);
\* ready_exit: the second loop has no exit (network.c:54 to 60);
\* resp_check: a semicolon ends the if before fatal (network.c:78);
\* peer_arg: the thread is given the address of a pointer, which it takes
\*   for the peer (network.c:308, 347).
Statements == {"count_init", "connfd_set", "break_unlock", "ready_exit",
               "resp_check", "peer_arg"}

Client == 1..MaxTries     \* threads of the connections of join_network
Conn   == Client \cup Guest
Thread == Conn \cup {Main, Server}

ASSUME StartupConstants ==
    /\ MaxTries \in Nat
    /\ {Main, Server} \cap Conn = {}
    /\ Main # Server
    /\ Client \cap Guest = {}
    /\ None \notin Thread
    /\ Repaired \subseteq Statements

VARIABLES
    alive,         \* the process runs
    mutex,         \* the owner of peers_mutex
    peers_count,
    connfd,        \* peers[0]->connfd > 0
    freed,         \* peers[0] points to memory that was freed
    server_ready,
    tries,         \* attempts to connect so far
    pc             \* of each thread

netVars == <<peers_count, connfd, freed, server_ready, tries>>
vars == <<alive, mutex, netVars, pc>>

Init ==
    /\ alive = TRUE
    /\ mutex = None
    /\ peers_count \in IF "count_init" \in Repaired THEN {0} ELSE {0, 1}
    /\ connfd \in BOOLEAN
    /\ freed = FALSE
    /\ server_ready = 0
    /\ tries = 0
    /\ pc = [th \in Thread |-> IF th = Main THEN "join" ELSE "none"]

Free == mutex = None

Goto(th, step) == pc' = [pc EXCEPT ![th] = step]

\* fatal(): the process ends.
fatal == alive' = FALSE /\ UNCHANGED <<mutex, netVars, pc>>

------------------------------------------------------------------------------
(* join_network.                                                           *)

\* Fault: the mutex stays locked on one of the ways out of the loop.
FaultyAfterBreak == Main

\* The owner of the mutex after the break out of the first loop.
AfterBreak == IF "break_unlock" \in Repaired THEN None ELSE Main

\* The head of the first loop: lock and look for a peer.
JoinTest ==
    /\ pc[Main] = "join"
    /\ Free
    /\ IF peers_count > 0
       THEN mutex' = AfterBreak /\ Goto(Main, "ask")
       ELSE mutex' = Main /\ Goto(Main, "connect")
    /\ UNCHANGED <<alive, netVars>>

\* Fault: the descriptor that is returned is dropped.
FaultyDescriptor(ok) == connfd

\* What peers[0]->connfd > 0 says after an attempt.
Descriptor(ok) == IF "connfd_set" \in Repaired THEN ok ELSE connfd

\* The user enters an address and start_client_conn tries it; a connection
\* gets a thread of its own at once.  The last attempt of the bound works.
JoinConnect(ok) ==
    /\ pc[Main] = "connect"
    /\ tries < MaxTries
    /\ ok \/ tries + 1 < MaxTries
    /\ tries' = tries + 1
    /\ connfd' = Descriptor(ok)
    /\ pc' = [th \in Thread |-> CASE th = Main -> "counting"
                                  [] th = tries + 1 /\ ok -> "start"
                                  [] OTHER -> pc[th]]
    /\ UNCHANGED <<alive, mutex, peers_count, freed, server_ready>>

Counted == IF connfd THEN peers_count + 1 ELSE peers_count

\* The end of the first loop's body.
JoinCount ==
    /\ pc[Main] = "counting"
    /\ peers_count' = Counted
    /\ mutex' = None
    /\ Goto(Main, "join")
    /\ UNCHANGED <<alive, connfd, freed, server_ready, tries>>

\* The first peer is asked for its peers.  It is not locked: its thread may
\* have freed it, and sending to a closed connection is fatal.
JoinAsk ==
    /\ pc[Main] = "ask"
    /\ \/ /\ pc' = [pc EXCEPT ![Main] = "wait", ![Server] = "bind"]
          /\ UNCHANGED <<alive, mutex, netVars>>
       \/ freed /\ fatal

LooksReady == server_ready = 1

\* The second loop: lock, look, sleep if the server is not ready, unlock.
WaitLock ==
    /\ pc[Main] = "wait"
    /\ Free
    /\ mutex' = Main
    /\ Goto(Main, IF LooksReady THEN "ready" ELSE "sleep")
    /\ UNCHANGED <<alive, netVars>>

\* Fault: the loop goes on when the server is ready.
FaultyAfterWait == "wait"

\* Where main continues after an iteration.
AfterWait == IF pc[Main] = "ready" /\ "ready_exit" \in Repaired
             THEN "returned" ELSE "wait"

WaitUnlock ==
    /\ pc[Main] \in {"sleep", "ready"}
    /\ mutex' = None
    /\ Goto(Main, AfterWait)
    /\ UNCHANGED <<alive, netVars>>

------------------------------------------------------------------------------
(* server_listener.                                                        *)

\* socket, bind and listen.
Listen ==
    /\ pc[Server] = "bind"
    /\ server_ready' = 1
    /\ Goto(Server, "accept")
    /\ UNCHANGED <<alive, mutex, peers_count, connfd, freed, tries>>

Accept(g) ==
    /\ pc[Server] = "accept"
    /\ pc[g] = "none"
    /\ Goto(g, "start")
    /\ UNCHANGED <<alive, mutex, netVars>>

\* A call of the socket interface fails.
ServerFails == pc[Server] \in {"bind", "accept"} /\ fatal

------------------------------------------------------------------------------
(* handle_connection, as far as it uses peers_mutex and the peer.          *)

\* As written the thread ends the process; given a wrong peer it receives
\* from what is no connection, closes it and frees what is no peer.
HandlerStart(c) ==
    /\ pc[c] = "start"
    /\ IF "resp_check" \notin Repaired THEN fatal
       ELSE IF "peer_arg" \in Repaired
       THEN Goto(c, "receive") /\ UNCHANGED <<alive, mutex, netVars>>
       ELSE /\ alive' \in BOOLEAN
            /\ Goto(c, "closed")
            /\ UNCHANGED <<mutex, netVars>>

\* A <block>, or a <getdata> of nodes, arrives.
Receive(c) ==
    /\ pc[c] = "receive"
    /\ Goto(c, "lock")
    /\ UNCHANGED <<alive, mutex, netVars>>

HandlerLock(c) ==
    /\ pc[c] = "lock"
    /\ Free
    /\ mutex' = c
    /\ Goto(c, "locked")
    /\ UNCHANGED <<alive, netVars>>

\* Fault: the handler returns to its loop with the mutex held.
FaultyReleased(c) == c

\* The owner of the mutex after the handler.
Released(c) == None

\* The message is handled: the block is placed or the peers are sent.
HandlerUnlock(c) ==
    /\ pc[c] = "locked"
    /\ mutex' = Released(c)
    /\ Goto(c, "receive")
    /\ UNCHANGED <<alive, netVars>>

\* Sending to a peer that is gone is fatal.
SendFails(c) == pc[c] = "locked" /\ fatal

\* The peer has shut down or receiving failed: its struct is freed and, if
\* it was peers[0], stays in the table of peers.
Close(c) ==
    /\ pc[c] = "receive"
    /\ freed' = (freed \/ c \in Client)
    /\ Goto(c, "closed")
    /\ UNCHANGED <<alive, mutex, peers_count, connfd, server_ready, tries>>

------------------------------------------------------------------------------
(* The specification.                                                      *)

MainStep ==
    /\ alive
    /\ \/ JoinTest
       \/ \E ok \in BOOLEAN : JoinConnect(ok)
       \/ JoinCount
       \/ JoinAsk
       \/ WaitLock
       \/ WaitUnlock

HandlerStep(c) == alive /\ (HandlerStart(c) \/ HandlerLock(c) \/ HandlerUnlock(c))

Next ==
    \/ MainStep
    \/ alive /\ (Listen \/ ServerFails)
    \/ alive /\ \E g \in Guest : Accept(g)
    \/ \E c \in Conn : HandlerStep(c)
    \/ alive /\ \E c \in Conn : Receive(c) \/ SendFails(c) \/ Close(c)

\* Every thread keeps running and the user answers; the scheduler does not
\* keep main off the mutex for ever while others lock and unlock it.
\* Messages, connections and failures are not assumed.
Spec ==
    /\ Init
    /\ [][Next]_vars
    /\ WF_vars(MainStep)
    /\ SF_vars(alive /\ (JoinTest \/ WaitLock))
    /\ WF_vars(alive /\ Listen)
    /\ \A c \in Conn : WF_vars(HandlerStep(c))

------------------------------------------------------------------------------
(* Properties.                                                             *)

TypeOK ==
    /\ alive \in BOOLEAN
    /\ mutex \in Thread \cup {None}
    /\ peers_count \in {0, 1}
    /\ connfd \in BOOLEAN
    /\ freed \in BOOLEAN
    /\ server_ready \in {0, 1}
    /\ tries \in 0..MaxTries
    /\ pc \in [Thread -> {"none", "join", "connect", "counting", "ask", "wait",
                          "sleep", "ready", "returned", "bind", "accept",
                          "start", "receive", "lock", "locked", "closed"}]

\* No thread waits for a mutex that it holds itself: every way out of a loop
\* or a handler has released peers_mutex.
NoSelfWait ==
    \A th \in Thread : pc[th] \in {"join", "wait", "lock"} => mutex # th

\* join_network connects until an attempt works and then no more: a second
\* thread on peers[0] would share and free it (README.md:241).
OneFirstPeer ==
    Cardinality({c \in Client : pc[c] # "none"}) <= peers_count
                                    + (IF pc[Main] = "counting" THEN 1 ELSE 0)

\* Once a first peer is counted join_network does return, whatever the
\* threads of the connections do, unless the process ends (README.md:251).
JoinReturns == (peers_count > 0) ~> (pc[Main] = "returned" \/ ~ alive)

\* Whoever locks peers_mutex unlocks it, on every way out of the loops and
\* the handlers, unless the process ends: main holds it while the user is
\* asked for an address and while it sleeps, and blocks every handler.
MutexReleased ==
    \A th \in Thread : (mutex = th) ~> (mutex # th \/ ~ alive)

============================================================================
