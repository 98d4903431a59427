--------------------------- MODULE TcpServerProofs ---------------------------
(***************************************************************************)
(* Proofs about TcpServer, for any clients, IRPs, slots and limits: no IRP *)
(* is given out twice, although the queue that is emptied is filled under  *)
(* no lock.                                                                *)
(***************************************************************************)
EXTENDS TcpServer, FiniteSetTheorems, TLAPS

(* Who is in GetPendingIrp has the lock of the DriverManager; who is in the *)
(* middle of a Pop has seen a queue that is not empty, which stays so       *)
(* however pushes overlap, since only a Pop makes the size smaller.         *)
Locked ==
    /\ \A c \in Clients : pc[c] \in {"pop", "popped"} => lock = c
    /\ \A c \in Clients :
          IF pc[c] = "popped"
          THEN /\ size > 0
               /\ popping[c] # None
               /\ popping[c].size \in 1 .. captured
          ELSE popping[c] = None

(* Who has not been accepted has no thread.                                 *)
Unserved ==
    \A c \in Clients :
        /\ c \in backlog => link[c] # "none"
        /\ c \in backlog \/ link[c] = "none" => pc[c] = "none"

(* A push that was begun is not counted yet.                                *)
Counted ==
    inserting # None => size < captured /\ inserting.size < captured

Held(irp) ==
    \/ irp \in given
    \/ \E c \in Clients : \E k \in DOMAIN answer[c] : answer[c][k] = irp

(* An IRP is in one slot, in one place of one answer, or was given; only    *)
(* the one that is being popped is in its slot and in an answer as well.    *)
Numbered == \A irp \in Irps :
    Held(irp) \/ (\E n \in Slots : slot[n] = irp) => irp <= captured

SlotsDiffer == \A m, n \in Slots : slot[m] # None /\ slot[m] = slot[n] => m = n

AnswersDiffer ==
    \A c, d \in Clients : \A j \in DOMAIN answer[c], k \in DOMAIN answer[d] :
        answer[c][j] = answer[d][k] => c = d /\ j = k

GivenIsGone == \A c \in Clients : \A k \in DOMAIN answer[c] : answer[c][k] \notin given

MovedOut ==
    \A n \in Slots : slot[n] # None /\ Held(slot[n]) =>
        \E c \in Clients : pc[c] = "popped" /\ popping[c].first = n

Apart == Numbered /\ SlotsDiffer /\ AnswersDiffer /\ GivenIsGone /\ MovedOut

Inv == TypeOK /\ Unserved /\ Locked /\ Counted /\ Apart
-----------------------------------------------------------------------------
(* The other actions leave the queue, the lock and the answers alone, and   *)
(* nobody enters or leaves GetPendingIrp.                                   *)
Quiet ==
    /\ UNCHANGED <<queueVars, lock, answer, popping, given>>
    /\ \A c \in Clients :
          pc[c] \in {"pop", "popped"} \/ pc'[c] \in {"pop", "popped"}
              => pc'[c] = pc[c]

Busy == {"pop", "popped"}

Threads == {"none", "start", "loop", "blocked", "network", "terminating",
            "restop", "receive", "execute", "pop", "popped", "send", "ended"}

(* Threads that are elsewhere go elsewhere, and none begins.                *)
Moves ==
    /\ pc' \in [Clients -> Threads]
    /\ \A c \in Clients :
          pc[c] \in Busy \cup {"none"} \/ pc'[c] \in Busy => pc'[c] = pc[c]
    /\ lpc' \in {"setup", "loop", "blocked", "accept", "reap", "left"}

LEMMA Going ==
    ASSUME Inv, NEW c \in Clients, pc[c] \notin Busy \cup {"none"},
           NEW place \in Threads \ Busy, Goto(c, place) \/ Ends(c)
    PROVE  Moves
PROOF
<1>1. CASE Goto(c, place)
  BY <1>1 DEF Inv, TypeOK, Moves, Threads, Busy, Goto
<1>2. CASE Ends(c)
  BY <1>2 DEF Inv, TypeOK, Moves, Threads, Busy, Ends
<1> QED
  BY <1>1, <1>2

LEMMA Recording ==
    ASSUME Inv, NEW c \in Clients, NEW what \in {"read", "close"},
           Record(c, what) \/ UNCHANGED <<record, pc>>, UNCHANGED lpc
    PROVE  /\ Moves
           /\ record' \in [Clients -> SUBSET {"read", "write", "close"}]
PROOF
<1>1. CASE UNCHANGED <<record, pc>>
  BY <1>1 DEF Inv, TypeOK, Moves, Threads
<1>2. CASE Record(c, what) /\ Selected(c)
  <2>1. pc \in [Clients -> Threads]
    BY DEF Inv, TypeOK, Threads
  <2>2. pc' = [pc EXCEPT ![c] = IF pc[c] = "blocked" THEN "network" ELSE pc[c]]
    BY <1>2 DEF Record
  <2>3. pc' \in [Clients -> Threads]
    BY <2>1, <2>2 DEF Threads
  <2>4. \A d \in Clients :
            pc'[d] = pc[d] \/ (pc[d] = "blocked" /\ pc'[d] = "network")
    BY <2>1, <2>2
  <2>5. record' \in [Clients -> SUBSET {"read", "write", "close"}]
    <3>1. record \in [Clients -> SUBSET {"read", "write", "close"}]
      BY DEF Inv, TypeOK
    <3>2. record[c] \cup {what} \in SUBSET {"read", "write", "close"}
      BY <3>1
    <3>3. record' = [record EXCEPT ![c] = record[c] \cup {what}]
      BY <1>2 DEF Record
    <3> QED
      BY <3>1, <3>2, <3>3
  <2> QED
    BY <2>3, <2>4, <2>5 DEF Inv, TypeOK, Moves, Busy
<1> QED
  BY <1>1, <1>2 DEF Record

LEMMA QuietKeeps ==
    ASSUME Inv, Quiet
    PROVE  (Locked /\ Counted /\ Apart)'
PROOF
  BY DEF Inv, Quiet, queueVars, Locked, Counted, Apart, Numbered, Held,
         SlotsDiffer, AnswersDiffer, GivenIsGone, MovedOut

LEMMA ReadyStep ==
    ASSUME Inv, Ready
    PROVE  TypeOK' /\ Unserved' /\ Quiet
PROOF
  BY ServerAssumption, JsonQueueAssumption DEF Inv, TypeOK, QueueTypeOK, Unserved, Quiet, Ready, Phases, vars, queueVars, serverVars, stopVars, socketVars, threadVars, histVars

LEMMA CtrlCStep ==
    ASSUME Inv, CtrlC
    PROVE  TypeOK' /\ Unserved' /\ Quiet
PROOF
  BY ServerAssumption, JsonQueueAssumption DEF Inv, TypeOK, QueueTypeOK, Unserved, Quiet, CtrlC, Stop, Released, vars, queueVars, serverVars, stopVars, socketVars, threadVars, histVars

LEMMA ProcessEndsStep ==
    ASSUME Inv, ProcessEnds
    PROVE  TypeOK' /\ Unserved' /\ Quiet
PROOF
  BY ServerAssumption, JsonQueueAssumption DEF Inv, TypeOK, QueueTypeOK, Unserved, Quiet, ProcessEnds, vars, queueVars, serverVars, stopVars, socketVars, threadVars, histVars

LEMMA ConnectStep ==
    ASSUME Inv, NEW c \in Clients, Connect(c)
    PROVE  TypeOK' /\ Unserved' /\ Quiet
PROOF
  BY ServerAssumption, JsonQueueAssumption DEF Inv, TypeOK, QueueTypeOK, Unserved, Quiet, Connect, vars, queueVars, serverVars, stopVars, socketVars, threadVars, histVars

LEMMA SendRequestStep ==
    ASSUME Inv, NEW c \in Clients, NEW r \in Requests, SendRequest(c, r)
    PROVE  TypeOK' /\ Unserved' /\ Quiet
PROOF
<1>1. /\ Moves
      /\ record' \in [Clients -> SUBSET {"read", "write", "close"}]
  BY Recording DEF SendRequest
<1>2. stream' \in [Clients -> Seq(Requests)]
  BY DEF Inv, TypeOK, SendRequest
<1> QED
  BY <1>1, <1>2, ServerAssumption DEF Inv, TypeOK, QueueTypeOK, Unserved, Quiet, Moves, Threads,
     Busy, SendRequest, vars, queueVars, serverVars, stopVars, socketVars, threadVars, histVars

LEMMA LeaveStep ==
    ASSUME Inv, NEW c \in Clients, Leave(c)
    PROVE  TypeOK' /\ Unserved' /\ Quiet
PROOF
<1>1. /\ Moves
      /\ record' \in [Clients -> SUBSET {"read", "write", "close"}]
  BY Recording DEF Leave
<1> QED
  BY <1>1 DEF Inv, TypeOK, QueueTypeOK, Unserved, Quiet, Moves, Threads,
     Busy, Leave, vars, queueVars, serverVars, stopVars, socketVars, threadVars, histVars

LEMMA ListenStep ==
    ASSUME Inv, Listen
    PROVE  TypeOK' /\ Unserved' /\ Quiet
PROOF
  BY ServerAssumption, JsonQueueAssumption DEF Inv, TypeOK, QueueTypeOK, Unserved, Quiet, Listen, vars, queueVars, serverVars, stopVars, socketVars, threadVars, histVars

LEMMA ListenerWaitStep ==
    ASSUME Inv, ListenerWait
    PROVE  TypeOK' /\ Unserved' /\ Quiet
PROOF
<1>1. Moves
  <2>1. CASE Stop(pc, "left")
    BY <2>1 DEF Inv, TypeOK, Moves, Threads, Busy, Stop, Released
  <2>2. CASE UNCHANGED pc
    BY <2>2 DEF Inv, TypeOK, Moves, Threads, Busy, ListenerWait, Stop
  <2> QED
    BY <2>1, <2>2 DEF ListenerWait
<1>2. {termination', stopping'} \subseteq BOOLEAN
  BY DEF Inv, TypeOK, ListenerWait, Stop
<1> QED
  BY <1>1, <1>2 DEF Inv, TypeOK, QueueTypeOK, Unserved, Quiet, Moves, Threads,
     Busy, ListenerWait, vars, queueVars, serverVars, stopVars, socketVars, threadVars, histVars

LEMMA AcceptStep ==
    ASSUME Inv, NEW c \in Clients, Accept(c)
    PROVE  TypeOK' /\ Unserved' /\ Quiet
PROOF
<1>1. /\ pc' \in [Clients -> Threads]
      /\ pc[c] = "none" /\ pc'[c] \notin Busy
      /\ \A d \in Clients \ {c} : pc'[d] = pc[d]
  BY DEF Inv, TypeOK, Unserved, Threads, Busy, Accept
<1>2. /\ link' \in [Clients -> {"none", "open", "left", "closed"}]
      /\ pool' \subseteq Clients /\ backlog' \subseteq Clients
      /\ accepting' \in BOOLEAN
  BY DEF Inv, TypeOK, Accept
<1>3. Unserved'
  BY <1>1 DEF Inv, TypeOK, Unserved, Accept
<1>4. Quiet
  BY <1>1 DEF Quiet, Accept, Busy, vars, queueVars, serverVars, stopVars, socketVars, threadVars, histVars
<1> QED
  BY <1>1, <1>2, <1>3, <1>4 DEF Inv, TypeOK, QueueTypeOK, Threads, Accept, vars, queueVars, serverVars, stopVars, socketVars, threadVars, histVars

LEMMA ReapStep ==
    ASSUME Inv, NEW c \in Clients, Reap(c)
    PROVE  TypeOK' /\ Unserved' /\ Quiet
PROOF
  BY ServerAssumption, JsonQueueAssumption DEF Inv, TypeOK, QueueTypeOK, Unserved, Quiet, Reap, Ended, vars, queueVars, serverVars, stopVars, socketVars, threadVars, histVars

LEMMA SelectStep ==
    ASSUME Inv, NEW c \in Clients, Select(c)
    PROVE  TypeOK' /\ Unserved' /\ Quiet
PROOF
<1>1. Moves
  BY Going DEF Select, Busy, Threads
<1>2. record' \in [Clients -> SUBSET {"read", "write", "close"}]
  <2>1. {"write"} \cup {e \in {"read"} : stream[c] # <<>>}
                 \cup {e \in {"close"} : link[c] = "left"}
            \in SUBSET {"read", "write", "close"}
    OBVIOUS
  <2> QED
    BY <2>1 DEF Inv, TypeOK, Select
<1> QED
  BY <1>1, <1>2 DEF Inv, TypeOK, QueueTypeOK, Unserved, Quiet, Moves, Threads,
     Busy, Select, vars, queueVars, serverVars, stopVars, socketVars, threadVars, histVars

LEMMA ClientWaitStep ==
    ASSUME Inv, NEW c \in Clients, ClientWait(c)
    PROVE  TypeOK' /\ Unserved' /\ Quiet
PROOF
<1>1. Moves
  <2> DEFINE place == CASE termination -> "terminating"
                        [] ~termination /\ record[c] # {} -> "network"
                        [] OTHER -> "blocked"
  <2>1. place \in Threads \ Busy
    BY DEF Threads, Busy
  <2>2. Goto(c, place) \/ Ends(c)
    BY DEF ClientWait
  <2> QED
    BY <2>1, <2>2, Going DEF ClientWait, Busy
<1> QED
  BY <1>1 DEF Inv, TypeOK, QueueTypeOK, Unserved, Quiet, Moves, Threads,
     Busy, ClientWait, vars, queueVars, serverVars, stopVars, socketVars, threadVars, histVars

LEMMA ResetTerminationStep ==
    ASSUME Inv, NEW c \in Clients, ResetTermination(c)
    PROVE  TypeOK' /\ Unserved' /\ Quiet
PROOF
  BY ServerAssumption, JsonQueueAssumption DEF Inv, TypeOK, QueueTypeOK, Unserved, Quiet, ResetTermination, Goto, vars, queueVars, serverVars, stopVars, socketVars, threadVars, histVars

LEMMA RestopStep ==
    ASSUME Inv, NEW c \in Clients, Restop(c)
    PROVE  TypeOK' /\ Unserved' /\ Quiet
PROOF
  BY ServerAssumption, JsonQueueAssumption DEF Inv, TypeOK, QueueTypeOK, Unserved, Quiet, Restop, StopAgain, Stop, Released, vars, queueVars, serverVars, stopVars, socketVars, threadVars, histVars

LEMMA EnumerateStep ==
    ASSUME Inv, NEW c \in Clients, Enumerate(c)
    PROVE  TypeOK' /\ Unserved' /\ Quiet
PROOF
<1>1. Moves
  <2>1. Asked(record[c]) \in Threads \ Busy
    BY DEF Asked, Threads, Busy
  <2>2. Goto(c, Asked(record[c])) \/ Ends(c)
    BY DEF Enumerate
  <2> QED
    BY <2>1, <2>2, Going DEF Enumerate, Busy
<1>2. record' \in [Clients -> SUBSET {"read", "write", "close"}]
  BY DEF Inv, TypeOK, Enumerate
<1> QED
  BY <1>1, <1>2 DEF Inv, TypeOK, QueueTypeOK, Unserved, Quiet, Moves, Threads,
     Busy, Enumerate, vars, queueVars, serverVars, stopVars, socketVars, threadVars, histVars

LEMMA ReceiveStep ==
    ASSUME Inv, NEW c \in Clients, Receive(c)
    PROVE  TypeOK' /\ Unserved' /\ Quiet
PROOF
<1>1. CASE UNCHANGED <<stream, record, request>> /\ Goto(c, "loop")
  <2>1. Moves
    BY <1>1, Going DEF Receive, Busy, Threads
  <2> QED
    BY <1>1, <2>1 DEF Inv, TypeOK, QueueTypeOK, Unserved, Quiet, Moves, Threads,
       Busy, Receive, vars, queueVars, serverVars, stopVars, socketVars, threadVars, histVars
<1>2. ASSUME NEW n \in 1 .. Len(stream[c]),
             LET rest == SubSeq(stream[c], n + 1, Len(stream[c]))
                 got == IF n = 1 THEN Head(stream[c]) ELSE "piece"
             IN /\ stream' = [stream EXCEPT ![c] = rest]
                /\ record' = [record EXCEPT ![c] =
                       @ \cup {e \in {"read"} : rest # <<>>}]
                /\ request' = [request EXCEPT ![c] = got]
                /\ Goto(c, IF got = "piece" THEN "send" ELSE "execute")
      PROVE  TypeOK' /\ Unserved' /\ Quiet
  <2> DEFINE rest == SubSeq(stream[c], n + 1, Len(stream[c]))
             got == IF n = 1 THEN Head(stream[c]) ELSE "piece"
             place == IF got = "piece" THEN "send" ELSE "execute"
  <2>1. Moves
    <3>1. place \in Threads \ Busy
      BY DEF Threads, Busy
    <3>2. Goto(c, place)
      BY <1>2
    <3> QED
      BY <3>1, <3>2, Going DEF Receive, Busy
  <2>2. stream[c] \in Seq(Requests) /\ stream[c] # <<>>
    BY <1>2 DEF Inv, TypeOK
  <2>3. rest \in Seq(Requests) /\ got \in Requests \cup {"piece"}
    BY <2>2
  <2>4. /\ stream' \in [Clients -> Seq(Requests)]
        /\ record' \in [Clients -> SUBSET {"read", "write", "close"}]
        /\ request' \in [Clients -> Requests \cup {"piece", None}]
    <3> HIDE DEF rest, got
    <3> QED
      BY <1>2, <2>3 DEF Inv, TypeOK, rest, got
  <2> HIDE DEF rest, got, place
  <2> QED
    BY <2>1, <2>4 DEF Inv, TypeOK, QueueTypeOK, Unserved, Quiet, Moves, Threads,
       Busy, Receive, vars, queueVars, serverVars, stopVars, socketVars, threadVars, histVars
<1> QED
  BY <1>1, <1>2 DEF Receive

-----------------------------------------------------------------------------
(* An IRP that is pushed is a new one.                                      *)
LEMMA PushStep ==
    ASSUME Inv, IrpCallback, Push
    PROVE  Inv'
PROOF
<1>. USE JsonQueueAssumption DEF IrpCallback, Push, Inv, Slots, Irps
<1>1. TypeOK'
  BY DEF TypeOK, QueueTypeOK, vars, queueVars, serverVars, stopVars, socketVars, threadVars, histVars
<1>2. Unserved' /\ Locked'
  BY DEF Unserved, Locked, Reads, TypeOK, QueueTypeOK, vars, queueVars, serverVars, stopVars, socketVars, threadVars, histVars
<1>3. Counted'
  BY DEF Counted, TypeOK, QueueTypeOK
<1>4. Apart'
  <2>. USE DEF Apart
  <2>1. /\ captured \in Nat /\ captured' = captured + 1 /\ captured + 1 \in Irps
        /\ first + size \in Slots
        /\ \A n \in Slots : slot'[n] = IF n = first + size THEN captured + 1 ELSE slot[n]
        /\ \A n \in Slots : slot[n] \in Irps \cup {None}
        /\ UNCHANGED <<answer, given, popping, pc>>
    BY DEF TypeOK, QueueTypeOK, vars, queueVars, serverVars, stopVars, socketVars, threadVars, histVars
  <2>2. \A irp \in Irps : Held(irp)' = Held(irp)
    BY <2>1 DEF Held
  <2>3. \A n \in Slots : slot[n] # captured + 1
    BY <2>1 DEF Numbered
  <2>4. ~Held(captured + 1)
    BY <2>1 DEF Numbered
  <2>5. Numbered'
    BY <2>1, <2>2 DEF Numbered
  <2>6. SlotsDiffer'
    BY <2>1, <2>3 DEF SlotsDiffer
  <2>7. AnswersDiffer' /\ GivenIsGone'
    BY <2>1 DEF AnswersDiffer, GivenIsGone
  <2>8. MovedOut'
    BY <2>1, <2>2, <2>4 DEF MovedOut
  <2> QED
    BY <2>5, <2>6, <2>7, <2>8
<1> QED
  BY <1>1, <1>2, <1>3, <1>4

LEMMA PushCountStep ==
    ASSUME Inv, IrpCallback, PushCount
    PROVE  Inv'
PROOF
<1>. USE JsonQueueAssumption DEF IrpCallback, PushCount, Inv
<1>1. TypeOK'
  BY DEF TypeOK, QueueTypeOK, Counted, vars, queueVars, serverVars, stopVars, socketVars, threadVars, histVars
<1>2. Unserved' /\ Locked'
  BY DEF Unserved, Locked, Reads, TypeOK, QueueTypeOK, vars, queueVars, serverVars, stopVars, socketVars, threadVars, histVars
<1>3. Counted' /\ Apart'
  BY DEF Counted, Apart, Numbered, Held, SlotsDiffer, AnswersDiffer, GivenIsGone,
     MovedOut, vars, queueVars, serverVars, stopVars, socketVars, threadVars, histVars
<1> QED
  BY <1>1, <1>2, <1>3

(* The lock is free before it is taken, and then nobody else is busy.       *)
LEMMA ExecuteCommandStep ==
    ASSUME Inv, NEW c \in Clients, ExecuteCommand(c)
    PROVE  Inv'
PROOF
<1>. USE DEF ExecuteCommand, Inv
<1>1. /\ pc' \in [Clients -> Threads]
      /\ lock' \in Clients \cup {None}
      /\ pc[c] = "execute" /\ pc'[c] \in {"execute", "pop", "send"}
      /\ \A d \in Clients \ {c} : pc'[d] = pc[d]
      /\ pc'[c] = "pop" => lock' = c
      /\ lock = None
      /\ UNCHANGED lpc
  BY DEF TypeOK, Threads, Goto, LockFree
<1>2. dead' \in BOOLEAN
  BY DEF TypeOK
<1>3. TypeOK'
  BY <1>1, <1>2 DEF TypeOK, QueueTypeOK, Threads, vars, queueVars, serverVars, stopVars, socketVars, threadVars, histVars
<1>4. Unserved' /\ Locked'
  <2>1. UNCHANGED <<backlog, link, size, captured, popping>>
    BY DEF queueVars, socketVars, threadVars
  <2>2. Unserved'
    BY <1>1, <2>1 DEF Unserved
  <2>3. \A d \in Clients : pc[d] \notin {"pop", "popped"}
    BY <1>1, ServerAssumption DEF Locked
  <2>4. Locked'
    BY <1>1, <2>1, <2>3 DEF Locked
  <2> QED
    BY <2>2, <2>4
<1>5. Counted' /\ Apart'
  <2>1. UNCHANGED <<slot, size, captured, inserting, answer, popping, given>>
    BY DEF queueVars, threadVars, histVars
  <2>2. \A d \in Clients : pc[d] # "popped"
    BY <1>1, ServerAssumption DEF Locked
  <2>3. Counted /\ Apart
    OBVIOUS
  <2>4. \A irp : Held(irp)' <=> Held(irp)
    BY <2>1 DEF Held
  <2> HIDE DEF ExecuteCommand, Inv
  <2>5. Counted' /\ Numbered' /\ SlotsDiffer' /\ AnswersDiffer' /\ GivenIsGone'
    BY <2>1, <2>3, <2>4 DEF Counted, Apart, Numbered, SlotsDiffer, AnswersDiffer,
       GivenIsGone
  <2>6. MovedOut'
    BY <2>1, <2>2, <2>3, <2>4 DEF Apart, MovedOut
  <2> QED
    BY <2>5, <2>6 DEF Apart
<1> QED
  BY <1>3, <1>4, <1>5

(* The IRP in front has been in no answer, since nobody else pops.          *)
LEMMA PopTakeStep ==
    ASSUME Inv, NEW c \in Clients, PopTake(c)
    PROVE  Inv'
PROOF
<1>. USE DEF PopTake, Inv
<1>0. /\ lock = c /\ pc[c] = "pop"
      /\ \A d \in Clients \ {c} : pc[d] \notin {"pop", "popped"}
      /\ \A d \in Clients : popping[d] = None
  BY DEF Locked
<1>1. Front \in Irps \cup {None}
  BY DEF Front, TypeOK, QueueTypeOK
<1>2. size \in 0 .. captured /\ first \in Nat /\ captured \in Nat
  BY JsonQueueAssumption DEF TypeOK, QueueTypeOK
<1>3. CASE Empty
  <2>1. /\ pc' = [pc EXCEPT ![c] = "send"] /\ lock' = None
        /\ UNCHANGED <<queueVars, serverVars, stopVars, lpc, socketVars, request,
                      answer, popping, histVars>>
    BY <1>3 DEF Goto
  <2>2. TypeOK'
    BY <2>1 DEF TypeOK, QueueTypeOK, vars, queueVars, serverVars, stopVars, socketVars, threadVars, histVars
  <2>3. Unserved' /\ Locked'
    BY <1>0, <2>1 DEF Unserved, Locked, TypeOK, vars, queueVars, serverVars, stopVars, socketVars, threadVars, histVars
  <2>4. Counted' /\ Apart'
    BY <1>0, <2>1 DEF Counted, Apart, Numbered, Held, SlotsDiffer, AnswersDiffer,
       GivenIsGone, MovedOut, vars, queueVars, serverVars, stopVars, socketVars, threadVars, histVars
  <2> QED
    BY <2>2, <2>3, <2>4
<1>4. ASSUME ~Empty
      PROVE  Inv'
  <2>1. /\ pc' = [pc EXCEPT ![c] = "popped"]
        /\ popping' = [popping EXCEPT ![c] =
               [irp |-> Front, size |-> size, first |-> first]]
        /\ answer' = [answer EXCEPT ![c] =
               IF Front = None THEN answer[c] ELSE Append(answer[c], Front)]
        /\ UNCHANGED <<queueVars, serverVars, stopVars, lpc, lock, socketVars,
                      request, histVars>>
    BY <1>4 DEF Goto
  <2>2. /\ popping' \in [Clients -> Reads \cup {None}]
        /\ popping'[c] \in Reads
        /\ popping'[c].size = size /\ popping'[c].first = first
        /\ \A d \in Clients \ {c} : popping'[d] = popping[d]
    BY <1>1, <1>2, <2>1 DEF TypeOK, Reads
  <2>3. answer' \in [Clients -> Seq(Irps)]
    BY <1>1, <2>1 DEF TypeOK
  <2>4. TypeOK'
    BY <2>1, <2>2, <2>3 DEF TypeOK, QueueTypeOK, vars, queueVars, serverVars, stopVars, socketVars, threadVars, histVars
  <2>5. Unserved'
    BY <1>0, <2>1 DEF Unserved, TypeOK, vars, queueVars, serverVars, stopVars, socketVars, threadVars, histVars
  <2>6. Locked' /\ Counted'
    BY <1>0, <1>2, <1>4, <2>1, <2>2, ServerAssumption
       DEF Locked, Counted, Empty, TypeOK, vars, queueVars, serverVars, stopVars, socketVars, threadVars, histVars
  <2>7. CASE Front = None
    <3>1. answer' = answer
      BY <2>1, <2>7 DEF TypeOK
    <3>2. Apart'
      BY <1>0, <2>1, <3>1 DEF Apart, Numbered, Held, SlotsDiffer, AnswersDiffer,
         GivenIsGone, MovedOut, vars, queueVars, serverVars, stopVars, socketVars, threadVars, histVars
    <3> QED
      BY <2>4, <2>5, <2>6, <3>2
  <2>8. CASE Front # None
    <3>1. /\ first \in Slots /\ slot[first] \in Irps /\ Front = slot[first]
          /\ \A n \in Slots : slot[n] \in Irps \cup {None}
          /\ UNCHANGED <<slot, captured, given>>
      BY <1>1, <2>1, <2>8 DEF Front, TypeOK, QueueTypeOK, queueVars, histVars
    <3>2. pc'[c] = "popped" /\ popping'[c].first = first
      BY <2>1, <2>2 DEF TypeOK
    <3>3. /\ answer'[c] = Append(answer[c], slot[first])
          /\ \A d \in Clients \ {c} : answer'[d] = answer[d]
          /\ \A d \in Clients : answer[d] \in Seq(Irps)
      BY <2>1, <2>8, <3>1 DEF TypeOK
    <3>4. ~Held(slot[first])
      BY <1>0, <2>8, <3>1 DEF Apart, MovedOut
    <3>5. /\ \A d \in Clients : \A k \in DOMAIN answer[d] :
                 k \in DOMAIN answer'[d] /\ answer'[d][k] = answer[d][k]
          /\ \A d \in Clients : \A k \in DOMAIN answer'[d] :
                 \/ k \in DOMAIN answer[d] /\ answer'[d][k] = answer[d][k]
                 \/ d = c /\ k = Len(answer[c]) + 1 /\ answer'[d][k] = slot[first]
      <4>1. \A t \in Seq(Irps) : \A e \in Irps :
                /\ DOMAIN Append(t, e) = DOMAIN t \cup {Len(t) + 1}
                /\ \A k \in DOMAIN t : Append(t, e)[k] = t[k]
                /\ Append(t, e)[Len(t) + 1] = e
        OBVIOUS
      <4>2. /\ DOMAIN answer'[c] = DOMAIN answer[c] \cup {Len(answer[c]) + 1}
            /\ \A k \in DOMAIN answer[c] : answer'[c][k] = answer[c][k]
            /\ answer'[c][Len(answer[c]) + 1] = slot[first]
        BY <3>1, <3>3, <4>1
      <4> HIDE DEF PopTake, Inv
      <4> QED
        BY <3>3, <4>2
    <3>6. \A irp \in Irps : Held(irp)' => Held(irp) \/ irp = slot[first]
      BY <3>1, <3>5 DEF Held
    <3>7. Numbered'
      BY <3>1, <3>6 DEF Apart, Numbered
    <3>8. SlotsDiffer'
      BY <3>1 DEF Apart, SlotsDiffer
    <3>9. AnswersDiffer' /\ GivenIsGone'
      BY <3>1, <3>4, <3>5 DEF Apart, AnswersDiffer, GivenIsGone, Held
    <3>10. MovedOut'
      BY <1>0, <3>1, <3>2, <3>6 DEF Apart, MovedOut, SlotsDiffer
    <3>11. Apart'
      BY <3>7, <3>8, <3>9, <3>10 DEF Apart
    <3> QED
      BY <2>4, <2>5, <2>6, <3>11
  <2> QED
    BY <2>7, <2>8
<1> QED
  BY <1>3, <1>4
(* The slot that was read is empty after the Pop, and with it the only IRP  *)
(* that was in two places.                                                  *)
LEMMA PopDoneStep ==
    ASSUME Inv, NEW c \in Clients, PopDone(c)
    PROVE  Inv'
PROOF
<1>. USE DEF PopDone, Inv
<1>1. /\ lock = c /\ pc[c] = "popped"
      /\ \A d \in Clients \ {c} : pc[d] \notin {"pop", "popped"} /\ popping[d] = None
  BY DEF Locked
<1>2. PICK seen \in Reads : seen = popping[c]
  BY <1>1 DEF Locked, TypeOK
<1>3. /\ size \in 1 .. captured /\ first \in Nat /\ captured \in Nat
      /\ seen.size \in 1 .. captured /\ seen.first \in Nat
      /\ inserting # None => size < captured
  BY <1>1, <1>2, JsonQueueAssumption DEF Locked, Counted, TypeOK, QueueTypeOK, Reads
<1>4. /\ slot' = [slot EXCEPT ![seen.first] = None, ![first] = None]
      /\ size' \in {size - 1, seen.size - 1}
      /\ first' \in {0, first + 1, seen.first + 1}
      /\ popping' = [popping EXCEPT ![c] = None]
      /\ pc' = [pc EXCEPT ![c] = IF popping[c].irp = None THEN "send" ELSE "pop"]
      /\ lock' \in {None, lock}
      /\ popping[c].irp # None => lock' = lock
      /\ UNCHANGED <<captured, inserting, serverVars, stopVars, lpc, socketVars,
                    request, answer, histVars>>
  BY <1>2 DEF PopFront, Goto
<1>. HIDE DEF PopDone, Inv
<1>5. /\ pc' \in [Clients -> Threads] /\ pc'[c] \in {"send", "pop"}
      /\ pc'[c] = "pop" => lock' = lock
      /\ popping' \in [Clients -> Reads \cup {None}] /\ popping'[c] = None
      /\ \A d \in Clients \ {c} : pc'[d] = pc[d] /\ popping'[d] = popping[d]
  BY <1>4 DEF Inv, TypeOK, Threads
<1>6. /\ slot' \in [Slots -> Irps \cup {None}]
      /\ \A n \in Slots : slot'[n] \in {None, slot[n]}
      /\ seen.first \in Slots => slot'[seen.first] = None
  BY <1>4 DEF Inv, TypeOK, QueueTypeOK
<1>7. size' \in 0 .. captured /\ size' < captured /\ first' \in Nat
  BY <1>3, <1>4
<1>8. TypeOK'
  BY <1>4, <1>5, <1>6, <1>7 DEF Inv, TypeOK, QueueTypeOK, Threads, vars, queueVars, serverVars, stopVars, socketVars, threadVars, histVars
<1>9. Unserved' /\ Counted'
  BY <1>1, <1>4, <1>5, <1>7 DEF Inv, Unserved, Counted, vars, queueVars, serverVars, stopVars, socketVars, threadVars, histVars
<1>10. Locked'
  BY <1>1, <1>4, <1>5 DEF Inv, Locked
<1>11. Apart'
  <2>1. UNCHANGED <<captured, answer, given>>
    BY <1>4 DEF histVars
  <2>2. \A irp : Held(irp)' <=> Held(irp)
    BY <2>1 DEF Held
  <2>3. Numbered' /\ AnswersDiffer' /\ GivenIsGone'
    BY <1>6, <2>1, <2>2, JsonQueueAssumption
       DEF Inv, Apart, Numbered, AnswersDiffer, GivenIsGone, Irps
  <2>4. SlotsDiffer'
    BY <1>6 DEF Inv, Apart, SlotsDiffer
  <2>5. \A n \in Slots : slot'[n] # None => ~Held(slot'[n])
    BY <1>1, <1>2, <1>6 DEF Inv, Apart, MovedOut
  <2>6. MovedOut'
    BY <2>2, <2>5 DEF MovedOut
  <2> QED
    BY <2>3, <2>4, <2>6 DEF Apart
<1> QED
  BY <1>8, <1>9, <1>10, <1>11 DEF Inv

(* What is given was in an answer, which is emptied.                        *)
LEMMA SendSynchronousStep ==
    ASSUME Inv, NEW c \in Clients, SendSynchronous(c)
    PROVE  Inv'
PROOF
<1>1. Moves
  BY Going DEF SendSynchronous, Threads, Busy
<1>2. /\ request' = [request EXCEPT ![c] = None]
      /\ answer' = [answer EXCEPT ![c] = <<>>]
      /\ given' = given \cup IrpsIn(answer[c])
      /\ UNCHANGED <<queueVars, serverVars, stopVars, lock, socketVars, popping, sent>>
  BY DEF SendSynchronous
<1>3. /\ request' \in [Clients -> Requests \cup {"piece", None}]
      /\ answer' \in [Clients -> Seq(Irps)] /\ answer'[c] = <<>>
      /\ \A d \in Clients \ {c} : answer'[d] = answer[d]
      /\ given' \subseteq Irps
      /\ \A i \in given' : i \in given \/ \E k \in DOMAIN answer[c] : answer[c][k] = i
      /\ given \subseteq given'
  BY <1>2 DEF Inv, TypeOK, IrpsIn
<1>4. TypeOK'
  BY <1>1, <1>2, <1>3 DEF Inv, TypeOK, QueueTypeOK, Moves, Threads, vars, queueVars, serverVars, stopVars, socketVars, threadVars, histVars
<1>5. Unserved' /\ Locked' /\ Counted'
  BY <1>1, <1>2 DEF Inv, Unserved, Locked, Counted, Moves, Busy, vars, queueVars, serverVars, stopVars, socketVars, threadVars, histVars
<1>6. Apart'
  <2>1. UNCHANGED <<captured, slot, popping>>
    BY <1>2 DEF queueVars
  <2>2. \A d \in Clients : \A k \in DOMAIN answer'[d] :
            d # c /\ k \in DOMAIN answer[d] /\ answer'[d][k] = answer[d][k]
    BY <1>3
  <2>3. ASSUME NEW irp, Held(irp)' PROVE Held(irp)
    <3>1. CASE irp \in given'
      BY <1>3, <3>1 DEF Held
    <3>2. CASE \E d \in Clients : \E k \in DOMAIN answer'[d] : answer'[d][k] = irp
      BY <2>2, <3>2 DEF Held
    <3> QED
      BY <2>3, <3>1, <3>2 DEF Held
  <2>4. Numbered' /\ SlotsDiffer'
    BY <2>1, <2>3 DEF Inv, Apart, Numbered, SlotsDiffer
  <2>5. AnswersDiffer'
    BY <2>2 DEF Inv, Apart, AnswersDiffer
  <2>6. GivenIsGone'
    <3> SUFFICES ASSUME NEW d \in Clients, NEW k \in DOMAIN answer'[d],
                        answer'[d][k] \in given'
                 PROVE  FALSE
      BY DEF GivenIsGone
    <3>1. d # c /\ k \in DOMAIN answer[d] /\ answer'[d][k] = answer[d][k]
      BY <2>2
    <3> QED
      BY <1>3, <3>1 DEF Inv, Apart, AnswersDiffer, GivenIsGone
  <2>7. MovedOut'
    BY <1>1, <2>1, <2>3 DEF Inv, Apart, MovedOut, Moves, Busy
  <2> QED
    BY <2>4, <2>5, <2>6, <2>7 DEF Apart
<1> QED
  BY <1>4, <1>5, <1>6 DEF Inv
-----------------------------------------------------------------------------
LEMMA InitInv == Init => Inv
PROOF
<1> SUFFICES ASSUME Init PROVE Inv
  OBVIOUS
<1>1. None \notin Irps /\ 0 \in 0 .. MaxIrps /\ 0 \in 0 .. MaxRequests /\ 0 \in 0 .. 0
  BY ServerAssumption, JsonQueueAssumption DEF Irps
<1>2. /\ slot = [n \in Slots |-> None]
      /\ first = 0 /\ size = 0 /\ captured = 0 /\ inserting = None
  BY Zenon DEF Init, QueueInit
<1>3. /\ pc = [c \in Clients |-> "none"]
      /\ answer = [c \in Clients |-> <<>>]
      /\ popping = [c \in Clients |-> None]
      /\ given = {}
  BY Zenon DEF Init
<1>4. TypeOK
  <2>1. QueueTypeOK
    BY <1>1, <1>2 DEF QueueTypeOK
  <2>2. answer \in [Clients -> Seq(Irps)]
    BY <1>3
  <2>3. stream = [c \in Clients |-> <<>>]
    BY Zenon DEF Init
  <2>4. stream \in [Clients -> Seq(Requests)]
    BY <2>3
  <2>5. {termination, stopping, dead, accepting} \subseteq BOOLEAN
    BY Zenon DEF Init
  <2> QED
    BY <1>1, <2>1, <2>2, <2>4, <2>5 DEF Init, TypeOK, Phases
<1>5. Unserved /\ Locked /\ Counted
  BY <1>2, <1>3 DEF Init, Unserved, Locked, Counted
<1>6. Apart
  <2>1. /\ \A n \in Slots : slot[n] = None
        /\ \A c \in Clients : DOMAIN answer[c] = {}
    BY <1>2, <1>3
  <2> QED
    BY <1>1, <1>3, <2>1 DEF Apart, Numbered, Held, SlotsDiffer, AnswersDiffer,
       GivenIsGone, MovedOut
<1> QED
  BY <1>4, <1>5, <1>6 DEF Inv

LEMMA NextInv ==
    ASSUME Inv, [Next]_vars
    PROVE  Inv'
PROOF
<1>1. CASE UNCHANGED vars
  BY <1>1 DEF Inv, TypeOK, QueueTypeOK, Unserved, Locked, Counted, Apart, Numbered,
     Held, SlotsDiffer, AnswersDiffer, GivenIsGone, MovedOut, vars, queueVars, serverVars, stopVars, socketVars, threadVars, histVars
<1>2. CASE Ready \/ CtrlC \/ ProcessEnds
  BY <1>2, ReadyStep, CtrlCStep, ProcessEndsStep, QuietKeeps DEF Inv
<1>3. CASE IrpCallback
  BY <1>3, PushStep, PushCountStep DEF IrpCallback
<1>4. CASE Listener
  BY <1>4, ListenStep, ListenerWaitStep, AcceptStep, ReapStep, QuietKeeps
     DEF Inv, Listener
<1>5. ASSUME NEW c \in Clients, Client(c)
      PROVE  Inv'
  BY <1>5, ConnectStep, SendRequestStep, LeaveStep, QuietKeeps DEF Inv, Client
<1>6. ASSUME NEW c \in Clients, ClientThread(c)
      PROVE  Inv'
  <2>1. CASE \/ Select(c) \/ ClientWait(c) \/ ResetTermination(c) \/ Restop(c)
             \/ Enumerate(c) \/ Receive(c)
    BY <2>1, SelectStep, ClientWaitStep, ResetTerminationStep, RestopStep,
       EnumerateStep, ReceiveStep, QuietKeeps DEF Inv
  <2>2. CASE ExecuteCommand(c) \/ PopTake(c) \/ PopDone(c) \/ SendSynchronous(c)
    BY <2>2, ExecuteCommandStep, PopTakeStep, PopDoneStep, SendSynchronousStep
  <2> QED
    BY <1>6, <2>1, <2>2 DEF ClientThread
<1> QED
  BY <1>1, <1>2, <1>3, <1>4, <1>5, <1>6 DEF Next

LEMMA Invariance == Spec => []Inv
PROOF
<1>1. Init => Inv
  BY InitInv
<1>2. Inv /\ [Next]_vars => Inv'
  BY NextInv
<1> QED
  BY <1>1, <1>2, PTL DEF Spec
(* The queue counts no more than was captured and never less than nothing,  *)
(* however a push and a pop overlap, and the threads of the listener and of *)
(* the clients are where TcpListener can be.                                *)
THEOREM Types == Spec => []TypeOK
PROOF
<1>1. Inv => TypeOK
  BY DEF Inv
<1> QED
  BY <1>1, Invariance, PTL

LEMMA AtMostOne ==
    ASSUME NEW S, \A x, y \in S : x = y
    PROVE  Cardinality(S) <= 1
PROOF
<1>1. CASE S = {}
  BY <1>1, FS_EmptySet
<1>2. CASE S # {}
  <2>1. PICK x \in S : TRUE
    BY <1>2
  <2>2. S = {x}
    BY <2>1
  <2> QED
    BY <2>2, FS_Singleton
<1> QED
  BY <1>1, <1>2

(* GetPendingIrp gives no IRP twice, to however many clients it is asked by *)
(* at once, and nothing that is lost comes back, although the queue is      *)
(* filled under no lock: the lock of ExecuteCommand alone sees to it.       *)
THEOREM OnlyOnce == Spec => []IrpsOnce
PROOF
<1>1. Inv => IrpsOnce
  <2> SUFFICES ASSUME Inv, NEW irp \in Irps
               PROVE  Cardinality(Places(irp)) <= 1
    BY DEF IrpsOnce
  <2>1. irp # None
    BY JsonQueueAssumption DEF Irps
  <2>2. ASSUME NEW m \in Slots, slot[m] = irp,
               \A c \in Clients : popping[c] # None => popping[c].first # m
        PROVE  ~Held(irp)
    BY <2>1, <2>2 DEF Inv, Apart, MovedOut, Locked
  <2>3. \A m, n \in Slots : slot[m] = irp /\ slot[n] = irp => m = n
    BY <2>1 DEF Inv, Apart, SlotsDiffer
  <2>4. DOMAIN slot = Slots
    BY DEF Inv, TypeOK, QueueTypeOK
  <2> DEFINE Queued == {m \in DOMAIN slot : slot[m] = irp
                 /\ \A c \in Clients : popping[c] # None => popping[c].first # m}
             Answered == {dm \in Clients \X Irps :
                 dm[2] \in DOMAIN answer[dm[1]] /\ answer[dm[1]][dm[2]] = irp}
             Given == {irp} \cap given
  <2>5. \A m, n \in Queued : m = n
    BY <2>3, <2>4
  <2>6. \A p, q \in Answered : p = q
    BY DEF Inv, Apart, AnswersDiffer
  <2>7. Queued # {} => Answered = {} /\ Given = {}
    BY <2>2, <2>4 DEF Held
  <2>8. Answered # {} => Given = {}
    BY DEF Inv, Apart, GivenIsGone
  <2>9. Places(irp) = {<<"queued", n>> : n \in Queued}
                 \cup {<<"answer", cn>> : cn \in Answered}
                 \cup {<<"given", i>> : i \in Given}
    BY DEF Places
  <2>10. \A i, j \in Given : i = j
    OBVIOUS
  <2> HIDE DEF Queued, Answered, Given
  <2>11. \A x, y \in Places(irp) : x = y
    BY <2>5, <2>6, <2>7, <2>8, <2>9, <2>10
  <2> QED
    BY <2>11, AtMostOne
<1> QED
  BY <1>1, Invariance, PTL
=============================================================================
