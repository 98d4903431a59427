----------------------------- MODULE TcpServer ------------------------------
(***************************************************************************)
(* The TCP side of the broker: DriverManager's thread in                   *)
(* TcpListener::RunForever, a thread per client in TcpClientRoutine, the   *)
(* commands they execute, and the JsonQueue that GetPendingIrp empties.    *)
(*                                                                         *)
(* A thread that is about to wait looks at its events; one that is blocked *)
(* is released by the call that sets one, even if the event is reset right *)
(* after.  The global termination event is manual-reset, and each client   *)
(* that sees it resets it and calls Globals.Stop(), which sets it again.   *)
(***************************************************************************)
EXTENDS JsonQueue, FiniteSets

CONSTANTS Clients,     \* who may connect, each once (a bound)
          Requests,    \* what a client may send, see below
          MaxRequests, \* bound: how much all clients send
          MaxHandles,  \* how many handles a wait takes, 64 in Windows
          Failures     \* the calls that may fail with no cause given here

ASSUME ServerAssumption ==
    /\ None \notin Clients
    /\ None \notin Reads
    /\ Requests \subseteq {"pending", "command", "ill", "piece"}
    /\ MaxRequests \in Nat
    /\ MaxHandles \in Nat \ {0, 1}
    /\ Failures \subseteq {"Listen", "ListenerWait", "Accept", "Select",
                          "ClientWait", "SendSynchronous"}

VARIABLES
    phase,       \* how far the other managers are with their setup
    dead,        \* has the process ended?
    pool,        \* TcpListener::m_Clients
    backlog,     \* connections to be accepted
    accepting,   \* is hNetworkEvent set, for FD_ACCEPT?
    termination, \* is the global termination event set?
    stopping,    \* GlobalContext::m_bIsShuttingDown
    lpc,         \* where the listener is
    lock         \* m_ManagerLock: the client whose command is executed, or None

serverVars == <<phase, dead, pool, backlog, accepting>>
stopVars == <<termination, stopping>>

VARIABLES        \* for each client
    link,        \* the connection: "none", "open", "left" (the peer has), "closed"
    stream,      \* what was sent to the broker and not received yet
    record,      \* network events recorded for the socket; hEvent is set with one
    pc,          \* where its thread is
    request,     \* what its thread has received
    answer,      \* the answer being made: the IRPs in it
    popping      \* what the Pop under way has read of the queue

socketVars == <<link, stream, record>>
threadVars == <<request, answer, popping>>

VARIABLES sent,  \* how many requests were sent
          given  \* history: IRPs in answers that were sent

histVars == <<sent, given>>

vars == <<queueVars, serverVars, stopVars, lpc, lock, socketVars, pc,
          threadVars, histVars>>

Phases == {"driver loading", "driver ready", "connected"}

Init ==
    /\ QueueInit
    /\ phase = "driver loading"
    /\ termination = FALSE
    /\ stopping = FALSE
    /\ dead = FALSE
    /\ lpc = "setup"
    /\ pool = {}
    /\ backlog = {}
    /\ accepting = FALSE
    /\ lock = None
    /\ link = [c \in Clients |-> "none"]
    /\ stream = [c \in Clients |-> <<>>]
    /\ record = [c \in Clients |-> {}]
    /\ pc = [c \in Clients |-> "none"]
    /\ request = [c \in Clients |-> None]
    /\ answer = [c \in Clients |-> <<>>]
    /\ popping = [c \in Clients |-> None]
    /\ sent = 0
    /\ given = {}
-----------------------------------------------------------------------------
(* Calls that set an event, and whom they release.                          *)
Released(pcs, to) == [c \in Clients |-> IF pcs[c] = "blocked" THEN to ELSE pcs[c]]

(* GlobalContext::Stop, whose last call sets the termination event; `pcs`   *)
(* and `place` are where its caller leaves the threads.                     *)
Stop(pcs, place) ==
    /\ stopping' = TRUE
    /\ termination' = TRUE
    /\ pc' = Released(pcs, "terminating")
    /\ lpc' = IF place = "blocked" THEN "left" ELSE place

Selected(c) == pc[c] \notin {"none", "start", "ended"}

(* Windows records a network event and sets hEvent, once WSAEventSelect has *)
(* associated it with the socket.                                           *)
Record(c, what) ==
    IF Selected(c)
    THEN /\ record' = [record EXCEPT ![c] = @ \cup {what}]
         /\ pc' = [pc EXCEPT ![c] = IF @ = "blocked" THEN "network" ELSE @]
    ELSE UNCHANGED <<record, pc>>
-----------------------------------------------------------------------------
(* Outside: the other managers, Ctrl-C, and the clients' ends.              *)
Ready ==
    /\ \/ phase = "driver loading" /\ phase' = "driver ready"
       \/ phase = "driver ready" /\ phase' = "connected"
    /\ UNCHANGED <<queueVars, dead, pool, backlog, accepting, stopVars, lpc,
                   lock, socketVars, pc, threadVars, histVars>>

IrpCallback ==
    /\ phase = "connected"
    /\ Push \/ PushCount
    /\ UNCHANGED <<serverVars, stopVars, lpc, lock, socketVars, pc, threadVars,
                   histVars>>

CtrlC ==
    /\ ~stopping
    /\ Stop(pc, lpc)
    /\ UNCHANGED <<queueVars, serverVars, lock, socketVars, threadVars,
                   histVars>>

(* When RunForever has returned the broker may come to its end, and with it *)
(* the threads of the clients, which nobody joins.                          *)
ProcessEnds ==
    /\ lpc = "left"
    /\ dead' = TRUE
    /\ UNCHANGED <<queueVars, phase, pool, backlog, accepting, stopVars, lpc,
                   lock, socketVars, pc, threadVars, histVars>>

(* Who connects when the listener is not in its loop is served by nobody.   *)
Connect(c) ==
    /\ link[c] = "none"
    /\ lpc \notin {"setup", "left"}
    /\ link' = [link EXCEPT ![c] = "open"]
    /\ backlog' = backlog \cup {c}
    /\ accepting' = TRUE
    /\ lpc' = IF lpc = "blocked" THEN "accept" ELSE lpc
    /\ UNCHANGED <<queueVars, phase, dead, pool, stopVars, lock, stream, record,
                   pc, threadVars, histVars>>

(* A client asks for the pending IRPs, or for anything else, or it sends    *)
(* something that is JSON but no request ("ill"), or a request that arrives *)
(* in pieces.  Windows records FD_READ once until the data is received.     *)
SendRequest(c, r) ==
    /\ link[c] = "open"
    /\ sent < MaxRequests
    /\ sent' = sent + 1
    /\ stream' = [stream EXCEPT ![c] = Append(@, r)]
    /\ IF stream[c] = <<>> THEN Record(c, "read") ELSE UNCHANGED <<record, pc>>
    /\ UNCHANGED <<queueVars, serverVars, stopVars, lpc, lock, link, threadVars,
                   given>>

Leave(c) ==
    /\ link[c] = "open"
    /\ link' = [link EXCEPT ![c] = "left"]
    /\ Record(c, "close")
    /\ UNCHANGED <<queueVars, serverVars, stopVars, lpc, lock, stream,
                   threadVars, histVars>>
-----------------------------------------------------------------------------
(* TcpListener::RunForever: Initialize, Listen and WSAEventSelect.          *)
Listen ==
    /\ lpc = "setup"
    /\ lpc' \in IF "Listen" \in Failures THEN {"loop", "left"} ELSE {"loop"}
    /\ UNCHANGED <<queueVars, serverVars, stopVars, lock, socketVars, pc,
                   threadVars, histVars>>

Ended == {c \in pool : pc[c] = "ended"}

(* One wait for the termination, a connection, or the end of any client's   *)
(* thread, in this order.  With too many handles it fails at once.          *)
ListenerWait ==
    /\ lpc = "loop"
    /\ \/ /\ Cardinality(pool) + 2 > MaxHandles \/ "ListenerWait" \in Failures
          /\ Stop(pc, "left")
       \/ /\ Cardinality(pool) + 2 <= MaxHandles
          /\ lpc' = CASE termination -> "left"
                      [] ~termination /\ accepting -> "accept"
                      [] ~termination /\ ~accepting /\ Ended # {} -> "reap"
                      [] OTHER -> "blocked"
          /\ UNCHANGED <<termination, stopping, pc>>
    /\ UNCHANGED <<queueVars, serverVars, lock, socketVars, threadVars,
                   histVars>>

(* WSAAccept reports FD_ACCEPT anew if there are more connections.  If it   *)
(* fails, or no thread can be created, the connection is closed.            *)
Accept(c) ==
    /\ lpc = "accept"
    /\ c \in backlog
    /\ backlog' = backlog \ {c}
    /\ accepting' = (backlog' # {})
    /\ lpc' = "loop"
    /\ \/ /\ pc' = [pc EXCEPT ![c] = "start"]
          /\ pool' = pool \cup {c}
          /\ UNCHANGED link
       \/ /\ "Accept" \in Failures
          /\ link' = [link EXCEPT ![c] = "closed"]
          /\ UNCHANGED <<pc, pool>>
    /\ UNCHANGED <<queueVars, phase, dead, stopVars, lock, stream, record,
                   threadVars, histVars>>

(* The client's entry is erased, and ~TcpClient closes the socket.          *)
Reap(c) ==
    /\ lpc = "reap"
    /\ c \in Ended
    /\ pool' = pool \ {c}
    /\ link' = [link EXCEPT ![c] = "closed"]
    /\ lpc' = "loop"
    /\ UNCHANGED <<queueVars, phase, dead, backlog, accepting, stopVars, lock,
                   stream, record, pc, threadVars, histVars>>

Listener ==
    \/ Listen
    \/ ListenerWait
    \/ \E c \in Clients : Accept(c) \/ Reap(c)
-----------------------------------------------------------------------------
Goto(c, place) == pc' = [pc EXCEPT ![c] = place] /\ UNCHANGED lpc

(* The end of a thread signals its handle, which the listener waits for.    *)
Ends(c) ==
    /\ pc' = [pc EXCEPT ![c] = "ended"]
    /\ lpc' = IF lpc = "blocked" THEN "reap" ELSE lpc

(* TcpClientRoutine selects the events of its socket; what has come already *)
(* is recorded at once, and so is that the socket can be written.           *)
Select(c) ==
    /\ pc[c] = "start"
    /\ \/ /\ record' = [record EXCEPT ![c] =
                 {"write"} \cup {e \in {"read"} : stream[c] # <<>>}
                           \cup {e \in {"close"} : link[c] = "left"}]
          /\ Goto(c, "loop")
       \/ /\ "Select" \in Failures
          /\ Ends(c)
          /\ UNCHANGED record
    /\ UNCHANGED <<queueVars, serverVars, stopVars, lock, link, stream,
                   threadVars, histVars>>

(* The wait for the termination event or hEvent, in this order.             *)
ClientWait(c) ==
    /\ pc[c] = "loop"
    /\ \/ Goto(c, CASE termination -> "terminating"
                    [] ~termination /\ record[c] # {} -> "network"
                    [] OTHER -> "blocked")
       \/ "ClientWait" \in Failures /\ Ends(c)
    /\ UNCHANGED <<queueVars, serverVars, stopVars, lock, socketVars,
                   threadVars, histVars>>

(* WSAResetEvent on the termination event...                                *)
ResetTermination(c) ==
    /\ pc[c] = "terminating"
    /\ termination' = FALSE
    /\ Goto(c, "restop")
    /\ UNCHANGED <<queueVars, serverVars, stopping, lock, socketVars,
                   threadVars, histVars>>

(* ... and Globals.Stop(); then the loop goes on.  Mutation: it was called  *)
(* before, why again?                                                       *)
StopOnce(pcs, place) ==
    /\ IF stopping THEN pc' = pcs /\ lpc' = place /\ UNCHANGED <<stopping, termination>>
                   ELSE Stop(pcs, place)
StopAgain(pcs, place) == Stop(pcs, place)

Restop(c) ==
    /\ pc[c] = "restop"
    /\ StopAgain([pc EXCEPT ![c] = "loop"], lpc)
    /\ UNCHANGED <<queueVars, serverVars, lock, socketVars, threadVars,
                   histVars>>

(* What the events recorded ask for.  Mutations: data is looked for before  *)
(* the end; the events are compared and not masked.                         *)
DataFirst(events) ==
    CASE "read" \in events -> "receive"
      [] "read" \notin events /\ "close" \in events -> "ended"
      [] OTHER -> "loop"
Compared(events) ==
    CASE "close" \in events -> "ended"
      [] events = {"read"} -> "receive"
      [] OTHER -> "loop"
Asked(events) ==
    CASE "close" \in events -> "ended"
      [] "close" \notin events /\ "read" \in events -> "receive"
      [] OTHER -> "loop"

(* WSAResetEvent on hEvent and WSAEnumNetworkEvents, which resets it too    *)
(* and which is taken not to fail.  A client that has left is gone, with    *)
(* what it sent and was not received.                                       *)
Enumerate(c) ==
    /\ pc[c] = "network"
    /\ record' = [record EXCEPT ![c] = {}]
    /\ IF Asked(record[c]) = "ended" THEN Ends(c) ELSE Goto(c, Asked(record[c]))
    /\ UNCHANGED <<queueVars, serverVars, stopVars, lock, link, stream,
                   threadVars, histVars>>

(* ReceiveSynchronous takes what has come, as much as fits; Windows records *)
(* FD_READ anew if there is more.  Only what is one request can be parsed.  *)
(* A receive that fails, because the client has left, is not answered.      *)
Receive(c) ==
    /\ pc[c] = "receive"
    /\ \/ \E n \in 1 .. Len(stream[c]) :
              LET rest == SubSeq(stream[c], n + 1, Len(stream[c]))
                  got == IF n = 1 THEN Head(stream[c]) ELSE "piece"
              IN /\ stream' = [stream EXCEPT ![c] = rest]
                 /\ record' = [record EXCEPT ![c] =
                        @ \cup {e \in {"read"} : rest # <<>>}]
                 /\ request' = [request EXCEPT ![c] = got]
                 /\ Goto(c, IF got = "piece" THEN "send" ELSE "execute")
       \/ /\ link[c] = "left"
          /\ Goto(c, "loop")
          /\ UNCHANGED <<stream, record, request>>
    /\ UNCHANGED <<queueVars, serverVars, stopVars, lock, link, answer, popping,
                   histVars>>
-----------------------------------------------------------------------------
(* Mutation: the lock of ExecuteCommand names no mutex either.              *)
LockFreely == TRUE
LockFree == lock = None

(* DriverManager::ExecuteCommand.  Before the driver is ready it fails; a   *)
(* request with no id throws where nothing catches, and the process ends;   *)
(* every other request gets its answer, of which only the IRPs matter here. *)
(* GetPendingIrp keeps the lock until the JsonQueue is empty.               *)
ExecuteCommand(c) ==
    /\ pc[c] = "execute"
    /\ LockFree
    /\ CASE phase # "driver loading" /\ request[c] = "ill" ->
              dead' = TRUE /\ UNCHANGED <<pc, lpc, lock>>
         [] phase = "connected" /\ request[c] = "pending" ->
              lock' = c /\ Goto(c, "pop") /\ UNCHANGED dead
         [] OTHER -> Goto(c, "send") /\ UNCHANGED <<lock, dead>>
    /\ UNCHANGED <<queueVars, phase, pool, backlog, accepting, stopVars,
                   socketVars, threadVars, histVars>>

(* JsonQueue::Pop looks whether there is an IRP and moves it out...         *)
PopTake(c) ==
    /\ pc[c] = "pop"
    /\ IF Empty
       THEN /\ Goto(c, "send")
            /\ lock' = None
            /\ UNCHANGED <<popping, answer>>
       ELSE /\ Goto(c, "popped")
            /\ popping' = [popping EXCEPT ![c] =
                   [irp |-> Front, size |-> size, first |-> first]]
            /\ answer' = [answer EXCEPT ![c] =
                   IF Front = None THEN @ ELSE Append(@, Front)]
            /\ UNCHANGED lock
    /\ UNCHANGED <<queueVars, serverVars, stopVars, socketVars, request,
                   histVars>>

(* ... and drops its slot.  An empty pointer ends the loop of GetPendingIrp *)
(* like an empty queue.                                                     *)
PopDone(c) ==
    /\ pc[c] = "popped"
    /\ PopFront(popping[c])
    /\ popping' = [popping EXCEPT ![c] = None]
    /\ IF popping[c].irp = None
       THEN Goto(c, "send") /\ lock' = None
       ELSE Goto(c, "pop") /\ UNCHANGED lock
    /\ UNCHANGED <<serverVars, stopVars, socketVars, request, answer, histVars>>

IrpsIn(s) == {s[k] : k \in DOMAIN s}

(* SendSynchronous.  An answer may be lost or cut short though the call     *)
(* succeeds; if it fails the thread ends.                                   *)
SendSynchronous(c) ==
    /\ pc[c] = "send"
    /\ \/ Goto(c, "loop")
       \/ (link[c] = "left" \/ "SendSynchronous" \in Failures) /\ Ends(c)
    /\ given' = given \cup IrpsIn(answer[c])
    /\ request' = [request EXCEPT ![c] = None]
    /\ answer' = [answer EXCEPT ![c] = <<>>]
    /\ UNCHANGED <<queueVars, serverVars, stopVars, lock, socketVars, popping,
                   sent>>
-----------------------------------------------------------------------------
ClientThread(c) ==
    \/ Select(c) \/ ClientWait(c) \/ ResetTermination(c) \/ Restop(c)
    \/ Enumerate(c) \/ Receive(c)
    \/ ExecuteCommand(c) \/ PopTake(c) \/ PopDone(c) \/ SendSynchronous(c)

Client(c) ==
    \/ Connect(c)
    \/ \E r \in Requests : SendRequest(c, r)
    \/ Leave(c)

Next ==
    /\ ~dead
    /\ \/ Ready \/ IrpCallback \/ CtrlC \/ ProcessEnds
       \/ Listener
       \/ \E c \in Clients : Client(c) \/ ClientThread(c)

Spec == Init /\ [][Next]_vars

(* The threads of the listener and of the clients are scheduled; nobody has *)
(* to connect, to ask for anything, to leave or to stop.                    *)
Fairness ==
    /\ WF_vars(~dead /\ Listener)
    /\ \A c \in Clients : WF_vars(~dead /\ ClientThread(c))

FairSpec == Spec /\ Fairness
-----------------------------------------------------------------------------
(* The listener and each client's thread are at one of their places, and the *)
(* network events recorded for a socket are those it was asked for.         *)
TypeOK ==
    /\ QueueTypeOK
    /\ phase \in Phases
    /\ {termination, stopping, dead, accepting} \subseteq BOOLEAN
    /\ lpc \in {"setup", "loop", "blocked", "accept", "reap", "left"}
    /\ pool \subseteq Clients
    /\ backlog \subseteq Clients
    /\ lock \in Clients \cup {None}
    /\ link \in [Clients -> {"none", "open", "left", "closed"}]
    /\ stream \in [Clients -> Seq(Requests)]
    /\ record \in [Clients -> SUBSET {"read", "write", "close"}]
    /\ pc \in [Clients -> {"none", "start", "loop", "blocked", "network",
                           "terminating", "restop", "receive", "execute",
                           "pop", "popped", "send", "ended"}]
    /\ request \in [Clients -> Requests \cup {"piece", None}]
    /\ answer \in [Clients -> Seq(Irps)]
    /\ popping \in [Clients -> Reads \cup {None}]
    /\ sent \in 0 .. MaxRequests
    /\ given \subseteq Irps

(* Where an IRP is: in a slot it was not moved out of, in an answer being   *)
(* made, in one that was sent.                                              *)
Places(irp) ==
    {<<"queued", n>> : n \in {m \in DOMAIN slot :
        slot[m] = irp /\ \A c \in Clients : popping[c] # None => popping[c].first # m}}
    \cup {<<"answer", cn>> : cn \in {dm \in Clients \X Irps :
        dm[2] \in DOMAIN answer[dm[1]] /\ answer[dm[1]][dm[2]] = irp}}
    \cup {<<"given", i>> : i \in {irp} \cap given}

(* No IRP is given out twice, neither to two clients nor to one, and none   *)
(* that was lost comes back: what the JsonQueue's own lock does not do, the *)
(* lock around ExecuteCommand does among clients, and a push that overlaps  *)
(* a pop may hide an IRP or lose it but not repeat it.                      *)
IrpsOnce ==
    \A irp \in Irps : Cardinality(Places(irp)) <= 1

(* The listener leaves once it is asked to, although every client's thread  *)
(* resets the event that tells it.                                          *)
ListenerStops == stopping ~> (lpc = "left" \/ dead)

(* The thread and the socket of a client that has left are given up,        *)
(* wherever its thread was.                                                 *)
ClientsReaped ==
    \A c \in Clients : link[c] = "left" ~> (link[c] = "closed" \/ stopping \/ dead)

(* What a client sends is received and answered, and its thread waits for   *)
(* more, unless the client leaves or the connection fails.                  *)
RequestsAnswered ==
    \A c \in Clients :
        (stream[c] # <<>> /\ link[c] = "open")
            ~> \/ stream[c] = <<>> /\ pc[c] \in {"loop", "blocked"}
               \/ link[c] # "open" \/ pc[c] = "ended"
               \/ stopping \/ dead
=============================================================================
