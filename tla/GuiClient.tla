----------------------------- MODULE GuiClient ------------------------------
(***************************************************************************)
(* The GUI as a client of the broker: the thread of its window, the thread *)
(* that asks for captured IRPs every second, and those that each click on  *)
(* "Refresh" starts.  They all use SendCommand on one socket, which sends  *)
(* a request and takes what comes next for its answer, under no lock.      *)
(*                                                                         *)
(* The broker reads what has arrived as one request, so that two that      *)
(* arrive together are answered once, as an error.  The GUI reads the      *)
(* stream in chunks, and may stop in the middle of an answer.              *)
(***************************************************************************)
EXTENDS Integers, Sequences, FiniteSets, SequencesExt

CONSTANTS Drivers,    \* what may be hooked
          Minifilters,\* those of them in \FileSystem, the others are in \Driver
          Refreshers, \* bound: the threads of RefreshDriverList
          MaxIrps,    \* bound: how many IRPs are captured
          MaxTogether,\* bound: how many threads wait on the socket at once
          MaxTroubles,\* bound: how many kinds of trouble one behaviour meets
          None        \* no command, no answer, no driver, no thread

ASSUME GuiAssumption ==
    /\ Minifilters \subseteq Drivers
    /\ MaxIrps \in Nat
    /\ {MaxTogether, MaxTroubles} \subseteq Nat
    /\ None \notin Drivers
    /\ Refreshers \cap {"ui", "poller", "nobody"} = {}
    /\ None \notin Refreshers \cup {"ui", "poller", "nobody"}

Threads == {"ui", "poller"} \cup Refreshers

VARIABLES
    (* the GUI *)
    gui,        \* "running", "gone" or "crashed"
    shown,      \* Drivers: what is shown as (hooked, monitored), of those listed
    refreshing, \* RefreshingDrivers
    captured,   \* CapturedIrps
    command,    \* for each thread: the command it waits for, or None
    todo,       \* for each refresher: what it does next, or None
    (* the connection *)
    link,       \* "none", "open", or "lost": the broker has closed its end
    sent,       \* requests that the broker has not read
    wire,       \* answers that the GUI has not read
    headless,   \* who has read the head of the first of them: a thread,
                \* "nobody" if it was thrown away, None if it is whole
    part,       \* for each thread: has it read a part of an answer?
    failed,     \* threads whose recv() was ended by closesocket()
    (* the broker and the driver *)
    hook,       \* for each driver: "no", "hooked" or "monitored"
    queue,      \* the JsonQueue
    last,       \* the number of IRPs captured
    late,       \* the command that the broker's thread still executes after
                \* the GUI has closed the connection it came by, or None
    (* history *)
    outdated,   \* may the window show hooks of a broker that has ended?
    trouble     \* what went wrong on the connection, see Troubles

guiVars == <<gui, shown, refreshing, captured, command, todo>>
linkVars == <<link, sent, wire, headless, part, failed>>
brokerVars == <<hook, queue, last, late, outdated>>
vars == <<guiVars, linkVars, brokerVars, trouble>>

(* "mixed": a thread used the socket while another waited for an answer, or *)
(* waits on a socket it did not send on; "cut": one stopped reading in the  *)
(* middle of an answer; "lost": an answer to what was done, or is to be,    *)
(* was lost, or the broker ended with IRPs in its queue; "swapped": a       *)
(* thread took the answer to another command than its own.                  *)
Troubles == {"mixed", "cut", "lost", "swapped"}

Irps == 1 .. MaxIrps
Enumerations == {"drivers", "minifilters"}
Changes == {"hook", "unhook", "monitor", "unmonitor"}
Commands ==
    [by : {"poller"}, id : {"pending"}, driver : {None}] \cup
    [by : Refreshers, id : Enumerations, driver : {None}] \cup
    [by : {"ui"}, id : Changes, driver : Drivers]
Answers == [to : Commands \cup {None}, success : BOOLEAN, irps : Seq(Irps)]

ASSUME NoneIsNeither == None \notin Commands \cup Answers

GuiInit ==
    /\ gui = "running"
    /\ shown = [d \in {} |-> [hooked |-> FALSE, monitored |-> FALSE]]
    /\ refreshing = FALSE
    /\ captured = <<>>
    /\ command = [t \in Threads |-> None]
    /\ todo = [r \in Refreshers |-> None]
    /\ link = "none"
    /\ sent = <<>>
    /\ wire = <<>>
    /\ headless = None
    /\ part = [t \in Threads |-> FALSE]
    /\ failed = {}
    /\ hook = [d \in Drivers |-> "no"]
    /\ queue = <<>>
    /\ last = 0
    /\ late = None
    /\ outdated = FALSE
    /\ trouble = {}

Waiting == {t \in Threads : command[t] # None}
-----------------------------------------------------------------------------
(* What the threads do with an answer; None stands for std::nullopt.        *)
Good(a) == a # None /\ a.to # None  \* error_code is zero

(* Mutation: error_code only.                                               *)
AnyAnswer(a) == Good(a)
Accepted(a) == Good(a) /\ a.success

(* operator[] makes the entry when a refresh has taken it away.             *)
Flags(d) ==
    IF d \in DOMAIN shown THEN shown[d] ELSE [hooked |-> FALSE, monitored |-> FALSE]

Set(d, flags) == [x \in DOMAIN shown \cup {d} |-> IF x = d THEN flags ELSE Flags(x)]

(* EnableDriver, DisableDriver, EnableMonitoring, DisableMonitoring: after  *)
(* SendCommand.  Unhooking leaves the flag of the monitoring as it is.      *)
UiFinish(a) ==
    LET c == command["ui"]
        old == Flags(c.driver)
        new == CASE c.id = "hook" -> [old EXCEPT !.hooked = TRUE]
                 [] c.id = "unhook" -> [old EXCEPT !.hooked = FALSE]
                 [] c.id = "monitor" -> [old EXCEPT !.monitored = TRUE]
                 [] c.id = "unmonitor" -> [old EXCEPT !.monitored = FALSE]
    IN /\ shown' = IF Accepted(a) THEN Set(c.driver, new) ELSE shown
       /\ UNCHANGED <<gui, refreshing, captured, todo>>

(* The poller: number_of_irp, absent from other answers, must not be zero.  *)
(* Mutations: newest first; one of them, as the request's NumberOfIrp says. *)
HasIrps(a) == Len(a.irps) > 0
InFront(irps) == irps \o captured
FirstOnly(irps) == captured \o <<irps[1]>>
PushedBack(irps) == captured \o irps

PollerFinish(a) ==
    /\ captured' = IF Accepted(a) /\ HasIrps(a) THEN PushedBack(a.irps) ELSE captured
    /\ UNCHANGED <<gui, shown, refreshing, todo>>

(* A refresher.  An IRP is no std::string: the conversion throws, in a      *)
(* thread that catches nothing.                                             *)
Listed(a) ==
    CASE ~a.success -> {}
      [] a.to.id = "drivers" -> Drivers \ Minifilters
      [] a.to.id = "minifilters" -> Minifilters
      [] OTHER -> {}

RefresherFinish(r, a) ==
    LET goesOn == Good(a) /\ command[r].id = "drivers"
    IN /\ gui' = IF Good(a) /\ HasIrps(a) THEN "crashed" ELSE gui
       /\ shown' = IF Good(a)
                   THEN [d \in DOMAIN shown \cup Listed(a) |-> Flags(d)]
                   ELSE shown
       /\ todo' = [todo EXCEPT ![r] = IF goesOn THEN "minifilters" ELSE None]
       /\ refreshing' = (refreshing /\ goesOn)
       /\ UNCHANGED captured

Finish(t, a) ==
    /\ command' = [command EXCEPT ![t] = None]
    /\ part' = [part EXCEPT ![t] = FALSE]
    /\ failed' = failed \ {t}
    /\ CASE t = "ui" -> UiFinish(a)
         [] t = "poller" -> PollerFinish(a)
         [] OTHER -> RefresherFinish(t, a)
-----------------------------------------------------------------------------
(* SendCommand: the request.  There is nobody to read it on a lost link.    *)
Send(t, id, d) ==
    LET c == [by |-> t, id |-> id, driver |-> d]
    IN /\ link # "none"
       /\ command[t] = None
       /\ Cardinality(Waiting) < MaxTogether
       /\ command' = [command EXCEPT ![t] = c]
       /\ sent' = IF link = "open" THEN Append(sent, c) ELSE sent
       /\ trouble' = IF Waiting \subseteq failed THEN trouble
                     ELSE trouble \cup {"mixed"}
       /\ UNCHANGED <<link, wire, headless, part, failed, brokerVars>>

(* SendCommand: a chunk of the answer, which goes on to the end of the      *)
(* `n`th answer on the wire, and into the next if `more`.  The loop ends    *)
(* with a chunk that is not full, or that ends in a closing brace, as every *)
(* answer does.  Bounds: a chunk crosses an answer's middle once, and one   *)
(* answer is cut.  Mutation: the brace is not looked at.                    *)
NotFull(full, brace) == ~full
Stops(full, brace) == ~full \/ brace

Receive(t) ==
    /\ command[t] # None
    /\ t \notin failed
    /\ link # "none"
    /\ wire # <<>>
    /\ UNCHANGED <<link, sent, brokerVars>>
    /\ \E n \in 0 .. Len(wire), more, full, brace \in BOOLEAN :
          LET whole == /\ n = 1 /\ ~more
                       /\ headless = IF part[t] THEN t ELSE None
              answer == IF whole THEN wire[1] ELSE None
              cut == more /\ Stops(full, brace)
          IN /\ n = 0 => more /\ headless = None
             /\ more => n < Len(wire)
             /\ ~more => brace
             /\ cut => "cut" \notin trouble
             /\ wire' = SubSeq(wire, n + 1, Len(wire))
             /\ headless' = CASE ~more -> None
                              [] more /\ (cut \/ n > 0 \/ part[t]) -> "nobody"
                              [] OTHER -> t
             /\ trouble' = trouble
                   \cup (IF cut THEN {"cut"} ELSE {})
                   \cup (IF answer # None /\ answer.to \notin {None, command[t]}
                         THEN {"swapped"} ELSE {})
             /\ IF Stops(full, brace)
                THEN Finish(t, answer)
                ELSE /\ part' = [part EXCEPT ![t] = TRUE]
                     /\ UNCHANGED <<guiVars, failed>>

(* Receive returns nothing: not connected, the socket closed under recv(),  *)
(* or nothing more to come.                                                 *)
GiveUp(t) ==
    /\ command[t] # None
    /\ \/ link = "none"
       \/ t \in failed
       \/ link = "lost" /\ wire = <<>>
    /\ Finish(t, None)
    /\ UNCHANGED <<link, sent, wire, headless, brokerVars, trouble>>
-----------------------------------------------------------------------------
Idle == command["ui"] = None

(* The poller's loop, and RefreshDriverList's thread.  Clearing the map     *)
(* takes away what was shown of a broker that has ended, unless the window  *)
(* still waits for that broker's answer.                                    *)
Poll ==
    /\ Send("poller", "pending", None)
    /\ UNCHANGED <<gui, shown, refreshing, captured, todo>>

RefreshClears(r) ==
    /\ todo[r] = "clear"
    /\ shown' = [d \in {} |-> Flags(d)]
    /\ refreshing' = TRUE
    /\ todo' = [todo EXCEPT ![r] = "drivers"]
    /\ outdated' = (outdated /\ ~Idle)
    /\ UNCHANGED <<gui, captured, command, linkVars, hook, queue, last, late, trouble>>

RefreshSends(r) ==
    /\ todo[r] \in Enumerations
    /\ Send(r, todo[r], None)
    /\ UNCHANGED <<gui, shown, refreshing, captured, todo>>

RefreshNotConnected(r) ==
    /\ todo[r] \in Enumerations
    /\ link = "none"
    /\ command[r] = None
    /\ todo' = [todo EXCEPT ![r] = None]
    /\ refreshing' = FALSE
    /\ UNCHANGED <<gui, shown, captured, command, linkVars, brokerVars, trouble>>
-----------------------------------------------------------------------------
(* The window, which is drawn by one thread: clicks.                        *)
(* Bound: once answers are mixed up nothing new happens but the commands of *)
(* the threads, and "Quit".                                                 *)
Clear == trouble \subseteq {"lost"}

Click(id, d) ==
    /\ Clear
    /\ Idle
    /\ d \in DOMAIN shown
    /\ CASE id = "hook" -> ~shown[d].hooked
         [] id = "unhook" -> shown[d].hooked
         [] id = "monitor" -> shown[d].hooked /\ ~shown[d].monitored
         [] id = "unmonitor" -> shown[d].hooked /\ shown[d].monitored
    /\ Send("ui", id, d)
    /\ UNCHANGED <<gui, shown, refreshing, captured, todo>>

ClickRefresh(r) ==
    /\ Clear
    /\ Idle
    /\ link # "none"
    /\ ~refreshing
    /\ todo[r] = None
    /\ todo' = [todo EXCEPT ![r] = "clear"]
    /\ UNCHANGED <<gui, shown, refreshing, captured, command, linkVars,
                   brokerVars, trouble>>

(* A thread that was not in recv() when the socket was replaced waits on    *)
(* the new one.                                                             *)
Connect ==
    /\ Clear
    /\ Idle
    /\ link = "none"
    /\ link' = "open"
    /\ trouble' = IF Waiting \subseteq failed THEN trouble ELSE trouble \cup {"mixed"}
    /\ UNCHANGED <<guiVars, sent, wire, headless, part, failed, brokerVars>>

(* Mutation: the socket is not closed, and is used again.                   *)
LeftOpen == wire
AfterClose == <<>>

(* An enumeration leaves nothing behind but its answer.                     *)
HasEffect(c) == c.id \in Changes \cup {"pending"}

(* Answers on their way are gone with the socket, and requests are not: the *)
(* broker's thread may have been told of one before it is told of the end.  *)
(* What else was sent, or is left from an earlier connection, is never read *)
(* (bound).                                                                 *)
Disconnect ==
    /\ Clear
    /\ Idle
    /\ link # "none"
    /\ link' = "none"
    /\ sent' = <<>>
    /\ wire' = AfterClose
    /\ headless' = None
    /\ \E inRecv \in SUBSET Waiting : failed' = failed \cup inRecv
    /\ late' \in {None} \cup {c \in Range(sent) : c = sent[1] /\ HasEffect(c)}
    /\ trouble' = IF late' # None \/ \E i \in 1 .. Len(wire) : wire[i].irps # <<>>
                  THEN trouble \cup {"lost"} ELSE trouble
    /\ UNCHANGED <<guiVars, part, hook, queue, last, outdated>>

(* "Quit" and "Restart": nothing sets KeepRunning again, so that the second *)
(* turn of wWinMain ends before it draws anything.                          *)
Quit ==
    /\ Idle
    /\ gui' = "gone"
    /\ shown' = [d \in {} |-> Flags(d)]
    /\ refreshing' = FALSE
    /\ captured' = <<>>
    /\ command' = [t \in Threads |-> None]
    /\ todo' = [r \in Refreshers |-> None]
    /\ link' = "none"
    /\ sent' = <<>>
    /\ wire' = <<>>
    /\ headless' = None
    /\ part' = [t \in Threads |-> FALSE]
    /\ failed' = {}
    /\ UNCHANGED <<brokerVars, trouble>>
-----------------------------------------------------------------------------
(* The broker, past its setup: ExecuteCommand, by what the driver does.     *)
Capture ==
    /\ Clear
    /\ \E d \in Drivers : hook[d] = "monitored"
    /\ last < MaxIrps
    /\ last' = last + 1
    /\ queue' = Append(queue, last + 1)
    /\ UNCHANGED <<guiVars, linkVars, hook, late, outdated, trouble>>

Outcomes(c) ==
    CASE c.id = "pending" -> {TRUE}
      [] c.id \in Enumerations -> BOOLEAN
      [] c.id \in Changes -> IF (hook[c.driver] = "no") = (c.id = "hook")
                             THEN BOOLEAN ELSE {FALSE}

Changed(c) ==
    [hook EXCEPT ![c.driver] = CASE c.id \in {"hook", "unmonitor"} -> "hooked"
                                 [] c.id = "unhook" -> "no"
                                 [] c.id = "monitor" -> "monitored"]

ExecuteCommand(c, success) ==
    /\ hook' = IF success /\ c.id \in Changes THEN Changed(c) ELSE hook
    /\ queue' = IF c.id = "pending" THEN <<>> ELSE queue
    /\ UNCHANGED <<last, outdated>>

(* TcpClientRoutine: what it read is one request, or is not JSON.  When the *)
(* answer cannot be sent it closes the connection.                          *)
Reply(a, unread) ==
    \/ /\ wire' = Append(wire, a)
       /\ sent' = unread
       /\ UNCHANGED <<link, trouble>>
    \/ /\ link' = "lost"
       /\ sent' = <<>>
       /\ trouble' = trouble \cup {"lost"}
       /\ UNCHANGED wire

Serve ==
    /\ link = "open"
    /\ sent # <<>>
    /\ UNCHANGED <<guiVars, headless, part, failed>>
    /\ \E n \in 1 .. Len(sent) :
          LET c == sent[1]
              unread == SubSeq(sent, n + 1, Len(sent))
              irps == IF c.id = "pending" THEN queue ELSE <<>>
          IN IF n = 1
             THEN \E success \in Outcomes(c) :
                     /\ ExecuteCommand(c, success)
                     /\ UNCHANGED late
                     /\ Reply([to |-> c, success |-> success, irps |-> irps], unread)
             ELSE /\ Reply([to |-> None, success |-> FALSE, irps |-> <<>>], unread)
                  /\ UNCHANGED brokerVars

(* The same of a connection that the GUI has closed: nobody gets the answer *)
(* (GuiClient has no other client), and what was done is not seen.          *)
ServeLate ==
    /\ late # None
    /\ late' = None
    /\ \E success \in Outcomes(late) : ExecuteCommand(late, success)
    /\ UNCHANGED <<guiVars, linkVars, trouble>>

(* The thread of the client ends: its wait fails.                           *)
BrokerCloses ==
    /\ Clear
    /\ link = "open"
    /\ link' = "lost"
    /\ sent' = <<>>
    /\ UNCHANGED <<guiVars, wire, headless, part, failed, brokerVars, trouble>>

(* The broker ends, and another is started sooner or later: the service     *)
(* manager's destructor has the driver unloaded, which removes every hook.  *)
(* The JsonQueue was in the memory of the broker.                           *)
BrokerEnds ==
    /\ Clear
    /\ link' = IF link = "open" THEN "lost" ELSE link
    /\ sent' = <<>>
    /\ late' = None
    /\ hook' = [d \in Drivers |-> "no"]
    /\ queue' = <<>>
    /\ outdated' = (outdated \/ ~Idle \/ \E d \in DOMAIN shown : shown[d].hooked)
    /\ trouble' = IF queue = <<>> THEN trouble ELSE trouble \cup {"lost"}
    /\ UNCHANGED <<guiVars, wire, headless, part, failed, last>>
-----------------------------------------------------------------------------
Refresh(r) == RefreshClears(r) \/ RefreshSends(r) \/ RefreshNotConnected(r)

Window ==
    \/ \E id \in Changes, d \in Drivers : Click(id, d)
    \/ \E r \in Refreshers : ClickRefresh(r)
    \/ Connect
    \/ Disconnect
    \/ Quit

(* The kinds of trouble that the bound counts.                              *)
Met == (trouble \ {"swapped"}) \cup (IF outdated THEN {"outdated"} ELSE {})

Running(A) ==
    /\ gui = "running"
    /\ A
    /\ Cardinality(Met') <= MaxTroubles

GuiNext ==
    Running(
       \/ Poll
       \/ \E r \in Refreshers : Refresh(r)
       \/ \E t \in Threads : Receive(t) \/ GiveUp(t)
       \/ Window
       \/ Capture
       \/ Serve
       \/ ServeLate
       \/ BrokerCloses
       \/ BrokerEnds)

GuiSpec == GuiInit /\ [][GuiNext]_vars

(* Threads run; the broker serves a client whose thread is released by the  *)
(* event of its socket.  Nobody has to click, and no IRP has to come.  The  *)
(* poller sends whoever else is on the socket; where the bound on troubles  *)
(* does not let it, it does when that other thread is done: strong fairness.*)
FairGuiSpec ==
    /\ GuiSpec
    /\ SF_vars(Running(Poll))
    /\ WF_vars(Running(Serve))
    /\ \A t \in Threads : WF_vars(Running(Receive(t) \/ GiveUp(t)))
-----------------------------------------------------------------------------
(* Types; one answer at most for each thread that waits, and one more after *)
(* an answer was cut.                                                       *)
GuiTypeOK ==
    /\ gui \in {"running", "gone", "crashed"}
    /\ \E listed \in SUBSET Drivers :
          shown \in [listed -> [hooked : BOOLEAN, monitored : BOOLEAN]]
    /\ refreshing \in BOOLEAN
    /\ captured \in Seq(Irps)
    /\ \A t \in Threads : command[t] \in Commands \cup {None}
    /\ todo \in [Refreshers -> {None, "clear"} \cup Enumerations]
    /\ link \in {"none", "open", "lost"}
    /\ sent \in Seq(Commands)
    /\ wire \in Seq(Answers)
    /\ Len(sent) + Len(wire) <= Cardinality(Waiting) + 1
    /\ headless \in Threads \cup {None, "nobody"}
    /\ headless # None => wire # <<>>
    /\ part \in [Threads -> BOOLEAN]
    /\ failed \subseteq Waiting
    /\ hook \in [Drivers -> {"no", "hooked", "monitored"}]
    /\ queue \in Seq(Irps)
    /\ last \in 0 .. MaxIrps
    /\ late \in Commands \cup {None}
    /\ outdated \in BOOLEAN
    /\ trouble \subseteq Troubles

(* A thread takes the answer to its own command, and the GUI does not crash *)
(* on one it did not expect, as long as no two threads used the socket at   *)
(* once and no answer was cut short: answers carry nothing that says which  *)
(* request they are for.                                                    *)
Matched ==
    trouble \cap {"mixed", "cut"} = {} => "swapped" \notin trouble /\ gui # "crashed"

(* What the window shows as hooked is hooked in the driver, through any     *)
(* refresh and any failure of a command, unless answers were lost or taken  *)
(* by another.  The end of a broker takes the hooks away and the window     *)
(* does not notice, until a refresh clears its map: from then on it is      *)
(* right again, with another broker.                                        *)
ShownIsHooked ==
    trouble = {} /\ ~outdated /\ Idle =>
        \A d \in DOMAIN shown : shown[d].hooked => hook[d] # "no"

(* Whatever happens to answers, the IRPs that are shown are shown once and  *)
(* in the order of their capture.                                           *)
CapturedOnceInOrder ==
    \A i, j \in 1 .. Len(captured) : i < j => captured[i] < captured[j]

(* No IRP is lost between the queue of the broker and the window: an IRP is *)
(* shown, on the wire, or queued.                                           *)
NothingLost ==
    trouble = {} /\ gui = "running" =>
        captured \o FlattenSeq([i \in 1 .. Len(wire) |-> wire[i].irps]) \o queue
            = [i \in 1 .. last |-> i]

(* The thread that waits for an answer does not wait for ever, though       *)
(* nothing in SendCommand has a timeout, when no two used the socket at     *)
(* once (there is one such thread then); an answer cut short gives the next *)
(* command a wrong one, and yet ends it.                                    *)
CommandsEnd ==
    Waiting \ failed # {} ~>
        Waiting \ failed = {} \/ "mixed" \in trouble \/ gui # "running"

(* IRPs do not pile up in the broker while the GUI stays connected: every   *)
(* request takes all of them.                                               *)
QueueDrains ==
    queue # <<>> ~>
        queue = <<>> \/ trouble # {} \/ link # "open" \/ gui # "running"
=============================================================================
