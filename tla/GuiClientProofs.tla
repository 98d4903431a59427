--------------------------- MODULE GuiClientProofs ---------------------------
(***************************************************************************)
(* Answers and commands of the GUI, for any number of drivers, refreshes   *)
(* and captured IRPs: as long as one thread at a time uses the socket and  *)
(* no answer is cut short, each gets the answer to its own command.        *)
(***************************************************************************)
EXTENDS GuiClient, FiniteSetTheorems, SequenceTheorems, TLAPS

(* Only the answer to a poll has IRPs in it, and that one tells of success. *)
Plain(a) == a.irps # <<>> => a.to # None /\ a.to.id = "pending" /\ a.success

Shape ==
    /\ command \in [Threads -> Commands \cup {None}]
    /\ \A t \in Threads : command[t] # None => command[t].by = t
    /\ todo \in [Refreshers -> {None, "clear"} \cup Enumerations]
    /\ failed \subseteq Waiting
    /\ queue \in Seq(Irps)
    /\ last \in 0 .. MaxIrps
    /\ sent \in Seq(Commands)
    /\ wire \in Seq(Answers)
    /\ \A i \in 1 .. Len(wire) : Plain(wire[i])
    /\ link # "open" => sent = <<>>
    /\ link = "none" => wire = <<>>

Calm(what) == "mixed" \notin what /\ "cut" \notin what

(* Who waits for an answer that may still come.                             *)
Open == Waiting \ failed

(* One thread waits at most; what is on the way is its command or the       *)
(* answer to it.                                                            *)
OneAtATime ==
    /\ \A t, u \in Open : t = u
    /\ Len(sent) + Len(wire) <= 1
    /\ \A i \in 1 .. Len(sent) : \E t \in Open : sent[i] = command[t]
    /\ \A i \in 1 .. Len(wire) : \E t \in Open : wire[i].to = command[t]
    /\ "swapped" \notin trouble
    /\ gui # "crashed"

MatchInv == Shape /\ (Calm(trouble) => OneAtATime)
-----------------------------------------------------------------------------
LEMMA MatchInvInit == GuiInit => MatchInv
<1> SUFFICES ASSUME GuiInit PROVE MatchInv
  OBVIOUS
<1>1. Waiting = {} /\ command \in [Threads -> Commands \cup {None}]
  BY DEF GuiInit, Waiting
<1>2. todo \in [Refreshers -> {None, "clear"} \cup Enumerations]
  BY DEF GuiInit
<1>3. /\ sent \in Seq(Commands) /\ wire \in Seq(Answers) /\ queue \in Seq(Irps)
      /\ Len(sent) = 0 /\ Len(wire) = 0
  BY DEF GuiInit
<1>4. Shape
  BY <1>1, <1>2, <1>3, GuiAssumption DEF GuiInit, Shape, Waiting
<1>5. OneAtATime
  BY <1>1, <1>3 DEF GuiInit, OneAtATime, Open
<1> QED
  BY <1>4, <1>5 DEF MatchInv

LEMMA NotEmpty ==
    ASSUME NEW S, NEW s \in Seq(S), s # <<>>
    PROVE  Len(s) \in Nat /\ Len(s) > 0 /\ s[1] \in S
<1>1. Len(s) \in Nat \ {0}
  BY EmptySeq
<1> QED
  BY <1>1

(* Of two sequences with one element at most, the one that has it.          *)
LEMMA OnlyOne ==
    ASSUME NEW S, NEW T, NEW s \in Seq(S), NEW r \in Seq(T), Len(s) + Len(r) <= 1,
           NEW n \in 1 .. Len(s)
    PROVE  n = 1 /\ Len(s) = 1 /\ Len(r) = 0
<1>1. ASSUME NEW a \in Nat, NEW b \in Nat, a + b <= 1, n \in 1 .. a
      PROVE  n = 1 /\ a = 1 /\ b = 0
  BY <1>1
<1>2. Len(s) \in Nat /\ Len(r) \in Nat
  OBVIOUS
<1> QED
  BY <1>1, <1>2

(* A new command, on which nothing else is under way if all stays calm.     *)
LEMMA SendKeepsMatchInv ==
    ASSUME MatchInv, NEW t \in Threads, NEW id, NEW d, Send(t, id, d),
           [by |-> t, id |-> id, driver |-> d] \in Commands,
           todo' = todo, gui' = gui
    PROVE  MatchInv'
<1> DEFINE c == [by |-> t, id |-> id, driver |-> d]
<1> USE DEF MatchInv
<1>1. c \in Commands /\ c # None /\ c.by = t
  BY NoneIsNeither
<1>2. /\ command' = [command EXCEPT ![t] = c]
      /\ command[t] = None
      /\ failed' = failed /\ wire' = wire /\ link' = link
      /\ queue' = queue /\ last' = last
      /\ sent' = IF link = "open" THEN Append(sent, c) ELSE sent
      /\ trouble' = IF Waiting \subseteq failed THEN trouble ELSE trouble \cup {"mixed"}
  BY DEF Send, brokerVars
<1> HIDE DEF c
<1>3. command' \in [Threads -> Commands \cup {None}]
  BY <1>1, <1>2 DEF Shape
<1>4. \A u \in Threads : command'[u] = IF u = t THEN c ELSE command[u]
  BY <1>2 DEF Shape
<1>5. Waiting' = Waiting \cup {t} /\ t \notin Waiting
  BY <1>1, <1>2, <1>3, <1>4 DEF Waiting
<1>6. Shape'
  <2>1. failed' \subseteq Waiting' /\ sent' \in Seq(Commands)
    BY <1>1, <1>2, <1>5 DEF Shape
  <2>2. \A u \in Threads : command'[u] # None => command'[u].by = u
    BY <1>1, <1>4 DEF Shape
  <2>3. link' # "open" => sent' = <<>>
    BY <1>2 DEF Shape
  <2> QED
    BY <1>2, <1>3, <2>1, <2>2, <2>3 DEF Shape, Plain
<1>7. ASSUME Calm(trouble)' PROVE OneAtATime'
  <2>1. Waiting \subseteq failed /\ trouble' = trouble
    BY <1>2, <1>7 DEF Calm
  <2>2. OneAtATime /\ Open = {}
    BY <1>7, <2>1 DEF Open
  <2>3. Open' = {t}
    BY <1>2, <1>5, <2>1 DEF Open, Shape
  <2>4. sent = <<>> /\ wire = <<>>
    BY <2>2 DEF OneAtATime, Shape
  <2>5. sent' = <<c>> \/ sent' = <<>>
    BY <1>2, <2>4
  <2>6. \A i \in 1 .. Len(sent') : sent'[i] = command'[t]
    BY <1>4, <2>5
  <2>7. Len(sent') + Len(wire') <= 1
    BY <1>2, <2>4, <2>5
  <2>8. \A i \in 1 .. Len(wire') : FALSE
    BY <1>2, <2>4
  <2> QED
    BY <2>1, <2>2, <2>3, <2>6, <2>7, <2>8 DEF OneAtATime
<1> QED
  BY <1>6, <1>7

(* An answer, or none, for a thread: it waits no more.                      *)
LEMMA FinishKeepsShape ==
    ASSUME Shape, NEW t \in Threads, NEW a, Finish(t, a), a = None \/ a \in Answers,
           command[t] # None,
           queue' = queue, last' = last, sent' = sent, link' = link,
           wire' \in Seq(Answers), \A i \in 1 .. Len(wire') : Plain(wire'[i]),
           link = "none" => wire' = <<>>
    PROVE  /\ Shape'
           /\ command' = [command EXCEPT ![t] = None]
           /\ Open' = Open \ {t}
<1>1. /\ command' = [command EXCEPT ![t] = None]
      /\ failed' = failed \ {t}
  BY DEF Finish
<1>2. command' \in [Threads -> Commands \cup {None}]
  BY <1>1 DEF Shape
<1>3. Waiting' = Waiting \ {t}
  BY <1>1, <1>2 DEF Waiting, Shape
<1>4. todo' \in [Refreshers -> {None, "clear"} \cup Enumerations]
  <2>1. CASE t \in {"ui", "poller"}
    BY <2>1 DEF Finish, UiFinish, PollerFinish, Shape
  <2>2. CASE t \notin {"ui", "poller"}
    BY <2>2 DEF Finish, RefresherFinish, Shape, Threads, Enumerations
  <2> QED
    BY <2>1, <2>2
<1>5. \A u \in Threads : command'[u] # None => command'[u].by = u
  BY <1>1, <1>2 DEF Shape
<1> QED
  BY <1>1, <1>2, <1>3, <1>4, <1>5 DEF Shape, Open

(* The GUI crashes on IRPs that a refresher gets, and on nothing else.      *)
LEMMA FinishCrashes ==
    ASSUME Shape, NEW t \in Threads, NEW a, Finish(t, a), command[t] # None,
           Good(a) => a.to = command[t] /\ Plain(a)
    PROVE  gui' = gui
<1>1. CASE t \in {"ui", "poller"}
  BY <1>1 DEF Finish, UiFinish, PollerFinish
<1>2. CASE t \notin {"ui", "poller"}
  <2>1. t \in Refreshers /\ RefresherFinish(t, a)
    BY <1>2 DEF Finish, Threads
  <2>2. command[t] \in Commands /\ command[t].by = t
    BY DEF Shape
  <2>3. command[t].id # "pending"
    BY <1>2, <2>2 DEF Commands, Enumerations, Changes
  <2>4. ~(Good(a) /\ HasIrps(a))
    BY <2>2, <2>3, NoneIsNeither DEF HasIrps, Plain, Good
  <2> QED
    BY <2>1, <2>4 DEF RefresherFinish
<1> QED
  BY <1>1, <1>2

(* What Receive(t) chooses.                                                 *)
Chunk(t, n, more, full, brace) ==
    LET whole == /\ n = 1 /\ ~more
                 /\ headless = IF part[t] THEN t ELSE None
        answer == IF whole THEN wire[1] ELSE None
        cut == more /\ Stops(full, brace)
    IN /\ n = 0 => more /\ headless = None
       /\ more => n < Len(wire)
       /\ ~more => brace
       /\ cut => "cut" \notin trouble
       /\ wire' = SubSeq(wire, n + 1, Len(wire))
       /\ headless' = CASE ~more -> None
                        [] more /\ (cut \/ n > 0 \/ part[t]) -> "nobody"
                        [] OTHER -> t
       /\ trouble' = trouble
             \cup (IF cut THEN {"cut"} ELSE {})
             \cup (IF answer # None /\ answer.to \notin {None, command[t]}
                   THEN {"swapped"} ELSE {})
       /\ IF Stops(full, brace)
          THEN Finish(t, answer)
          ELSE /\ part' = [part EXCEPT ![t] = TRUE]
               /\ UNCHANGED <<guiVars, failed>>

LEMMA ReceivesChunk ==
    ASSUME NEW t \in Threads, Receive(t)
    PROVE  \E n \in 0 .. Len(wire), more, full, brace \in BOOLEAN :
              Chunk(t, n, more, full, brace)
BY ZenonT(30) DEF Receive, Chunk

LEMMA ReceiveKeepsMatchInv ==
    ASSUME MatchInv, NEW t \in Threads, Receive(t)
    PROVE  MatchInv'
<1> USE DEF MatchInv
<1>1. PICK n \in 0 .. Len(wire), more, full, brace \in BOOLEAN :
         Chunk(t, n, more, full, brace)
  BY ReceivesChunk
<1> USE DEF Chunk
<1>2. /\ command[t] # None /\ t \notin failed /\ link # "none" /\ wire # <<>>
      /\ link' = link /\ sent' = sent /\ queue' = queue /\ last' = last
  BY DEF Receive, brokerVars
<1> DEFINE whole == n = 1 /\ ~more /\ headless = IF part[t] THEN t ELSE None
           answer == IF whole THEN wire[1] ELSE None
<1>3. wire \in Seq(Answers) /\ Len(wire) \in Nat /\ Len(wire) > 0 /\ wire[1] \in Answers
  BY <1>2, NotEmpty DEF Shape
<1>4. /\ wire' \in Seq(Answers)
      /\ Len(wire') = Len(wire) - n
      /\ \A i \in 1 .. Len(wire') : wire'[i] = wire[i + n]
  BY <1>1, <1>3
<1>5. \A i \in 1 .. Len(wire') : Plain(wire'[i])
  <2> TAKE i \in 1 .. Len(wire')
  <2>1. i + n \in 1 .. Len(wire)
    BY <1>3, <1>4
  <2> QED
    BY <1>4, <2>1 DEF Shape
<1>6. answer = None \/ (answer = wire[1] /\ answer \in Answers /\ Plain(answer))
  BY <1>3 DEF Shape
<1>7. CASE Stops(full, brace)
  <2>1. Finish(t, answer)
    BY <1>1, <1>7
  <2>2. Shape' /\ command' = [command EXCEPT ![t] = None] /\ Open' = Open \ {t}
    BY <1>2, <1>4, <1>5, <1>6, <2>1, FinishKeepsShape
  <2>3. ASSUME Calm(trouble)' PROVE OneAtATime'
    <3>1. ~more /\ Calm(trouble)
      BY <1>1, <1>7, <2>3 DEF Calm
    <3>2. OneAtATime /\ t \in Open
      BY <1>2, <3>1 DEF Open, Waiting
    <3>3. n = 1 /\ Len(wire) = 1 /\ Len(sent) = 0
      <4>1. n \in 1 .. Len(wire)
        BY <1>1, <3>1
      <4>2. Len(wire) + Len(sent) <= 1 /\ sent \in Seq(Commands)
        BY <1>3, <3>2 DEF OneAtATime, Shape
      <4> QED
        BY <1>3, <4>1, <4>2, OnlyOne
    <3>4. wire[1].to = command[t]
      BY <3>2, <3>3 DEF OneAtATime
    <3>5. answer = None \/ answer.to = command[t]
      BY <1>6, <3>4
    <3>6. "swapped" \notin trouble'
      BY <1>1, <3>1, <3>2, <3>5 DEF OneAtATime
    <3>7. gui' = gui
      BY <1>2, <1>6, <2>1, <3>5, FinishCrashes DEF Good
    <3>8. Len(wire') = 0 /\ Len(sent') = 0
      BY <1>2, <1>4, <3>3
    <3> QED
      BY <2>2, <3>2, <3>6, <3>7, <3>8 DEF OneAtATime
  <2> QED
    BY <2>2, <2>3
<1>8. CASE ~Stops(full, brace)
  <2>1. command' = command /\ failed' = failed /\ todo' = todo /\ gui' = gui
    BY <1>1, <1>8 DEF guiVars
  <2>2. Waiting' = Waiting /\ Open' = Open
    BY <2>1 DEF Waiting, Open
  <2>3. Shape'
    BY <1>2, <1>4, <1>5, <2>1, <2>2 DEF Shape
  <2>4. more
    BY <1>1, <1>8 DEF Stops
  <2>5. ASSUME Calm(trouble)' PROVE OneAtATime'
    <3>1. OneAtATime
      BY <1>1, <2>5 DEF Calm
    <3>2. n = 0 /\ answer = None
      BY <1>1, <1>3, <2>4, <3>1 DEF OneAtATime, Shape
    <3>3. trouble' = trouble
      BY <1>1, <1>8, <2>4
    <3> QED
      BY <1>2, <1>4, <2>1, <2>2, <3>1, <3>2, <3>3 DEF OneAtATime
  <2> QED
    BY <2>3, <2>5
<1> QED
  BY <1>7, <1>8

LEMMA GiveUpKeepsMatchInv ==
    ASSUME MatchInv, NEW t \in Threads, GiveUp(t)
    PROVE  MatchInv'
<1> USE DEF MatchInv
<1>1. /\ command[t] # None /\ Finish(t, None)
      /\ link' = link /\ sent' = sent /\ wire' = wire
      /\ queue' = queue /\ last' = last /\ trouble' = trouble
      /\ link = "none" \/ t \in failed \/ (link = "lost" /\ wire = <<>>)
  BY DEF GiveUp, brokerVars
<1>2. Shape' /\ command' = [command EXCEPT ![t] = None] /\ Open' = Open \ {t}
  <2>1. /\ wire' \in Seq(Answers) /\ \A i \in 1 .. Len(wire') : Plain(wire'[i])
        /\ link = "none" => wire' = <<>>
    BY <1>1 DEF Shape, Plain
  <2> QED
    BY <1>1, <2>1, FinishKeepsShape
<1>3. gui' = gui
  BY <1>1, FinishCrashes DEF Good
<1>4. ASSUME Calm(trouble)' PROVE OneAtATime'
  <2>1. OneAtATime
    BY <1>1, <1>4
  <2>2. CASE t \in failed
    <3>1. Open' = Open /\ \A u \in Open : command'[u] = command[u]
      BY <1>2, <2>2 DEF Open, Shape
    <3> QED
      BY <1>1, <1>3, <2>1, <3>1 DEF OneAtATime
  <2>3. CASE t \notin failed
    <3>1. sent = <<>> /\ wire = <<>>
      BY <1>1, <2>3 DEF Shape
    <3>2. Len(sent') = 0 /\ Len(wire') = 0
      BY <1>1, <3>1
    <3> QED
      BY <1>1, <1>2, <1>3, <2>1, <3>2 DEF OneAtATime
  <2> QED
    BY <2>2, <2>3
<1> QED
  BY <1>2, <1>4

(* What is left of a sequence without its first n elements.                 *)
LEMMA RestOf ==
  ASSUME NEW S, NEW s \in Seq(S), NEW n \in 1 .. Len(s)
  PROVE  /\ SubSeq(s, n + 1, Len(s)) \in Seq(S)
         /\ Len(SubSeq(s, n + 1, Len(s))) = Len(s) - n
         /\ \A i \in 1 .. Len(SubSeq(s, n + 1, Len(s))) :
               SubSeq(s, n + 1, Len(s))[i] = s[i + n]
  <1>1. Len(s) \in Nat
    OBVIOUS
  <1>2. Len(SubSeq(s, n + 1, Len(s))) = Len(s) - n
    BY <1>1
  <1>3. SubSeq(s, n + 1, Len(s)) \in Seq(S)
    BY <1>1
  <1>4. \A i \in 1 .. Len(s) - n : SubSeq(s, n + 1, Len(s))[i] = s[i + n]
    BY <1>1
  <1> QED
    BY <1>2, <1>3, <1>4

(* Steps that leave the threads of the GUI as they are.                     *)
LEMMA ServeKeepsMatchInv ==
    ASSUME MatchInv, Serve
    PROVE  MatchInv'
<1> USE DEF MatchInv
<1>1. /\ command' = command /\ todo' = todo /\ gui' = gui /\ failed' = failed
      /\ link = "open" /\ sent # <<>>
  BY DEF Serve, guiVars
<1>2. Waiting' = Waiting /\ Open' = Open
  BY <1>1 DEF Waiting, Open
<1>3. PICK n \in 1 .. Len(sent) :
         LET c == sent[1]
             unread == SubSeq(sent, n + 1, Len(sent))
             irps == IF c.id = "pending" THEN queue ELSE <<>>
         IN IF n = 1
            THEN \E success \in Outcomes(c) :
                    /\ ExecuteCommand(c, success)
                    /\ Reply([to |-> c, success |-> success, irps |-> irps], unread)
            ELSE /\ Reply([to |-> None, success |-> FALSE, irps |-> <<>>], unread)
                 /\ UNCHANGED brokerVars
  BY DEF Serve
<1> DEFINE c == sent[1]
           unread == SubSeq(sent, n + 1, Len(sent))
<1>4. sent \in Seq(Commands) /\ Len(sent) \in Nat /\ Len(sent) > 0 /\ c \in Commands
  BY <1>1, NotEmpty DEF Shape
<1>5. unread \in Seq(Commands) /\ Len(unread) = Len(sent) - n
      /\ \A i \in 1 .. Len(unread) : unread[i] = sent[i + n]
  BY <1>4, RestOf
<1>6. queue' \in Seq(Irps) /\ last' \in 0 .. MaxIrps
  <2>1. CASE n = 1
    <3>1. \E success : ExecuteCommand(c, success)
      BY <1>3, <2>1, Zenon
    <3>2. queue' \in {queue, <<>>} /\ last' = last
      BY <3>1 DEF ExecuteCommand
    <3> QED
      BY <3>2, EmptySeq DEF Shape
  <2>2. CASE n # 1
    <3>1. queue' = queue /\ last' = last
      BY <1>3, <2>2, Zenon DEF brokerVars
    <3> QED
      BY <3>1 DEF Shape
  <2> QED
    BY <2>1, <2>2
<1>7. PICK a \in Answers : /\ Reply(a, unread) /\ Plain(a)
                           /\ n = 1 => a.to = c
  <2>1. CASE n = 1
    <3>1. PICK success \in Outcomes(c) :
             Reply([to |-> c, success |-> success,
                    irps |-> IF c.id = "pending" THEN queue ELSE <<>>], unread)
      BY <1>3, <2>1
    <3>2. success \in BOOLEAN
      <4>1. c.id \in {"pending"} \cup Enumerations \cup Changes
        BY <1>4 DEF Commands
      <4> QED
        BY <4>1 DEF Outcomes, Enumerations, Changes
    <3> DEFINE b == [to |-> c, success |-> success,
                     irps |-> IF c.id = "pending" THEN queue ELSE <<>>]
    <3>3. c.id = "pending" => success = TRUE
      <4> HIDE DEF c
      <4>1. c.id = "pending" => Outcomes(c) = {TRUE}
        BY DEF Outcomes, Enumerations, Changes
      <4> QED
        BY <4>1
    <3>4. b \in Answers /\ Plain(b) /\ b.to = c
      BY <1>4, <3>2, <3>3, NoneIsNeither DEF Answers, Plain, Shape
    <3> QED
      BY <3>1, <3>4
  <2>2. CASE n # 1
    <3> DEFINE b == [to |-> None, success |-> FALSE, irps |-> <<>>]
    <3>1. b \in Answers /\ Plain(b)
      BY DEF Answers, Plain
    <3> QED
      BY <1>3, <2>2, <3>1
  <2> QED
    BY <2>1, <2>2
<1> HIDE DEF c, unread
<1>8. CASE wire' = Append(wire, a) /\ sent' = unread /\ link' = link /\ trouble' = trouble
  <2>1. /\ wire' \in Seq(Answers) /\ Len(wire') = Len(wire) + 1
        /\ \A i \in 1 .. Len(wire') : wire'[i] = IF i <= Len(wire) THEN wire[i] ELSE a
    BY <1>7, <1>8 DEF Shape
  <2>2. \A i \in 1 .. Len(wire') : Plain(wire'[i])
    <3>1. Len(wire) \in Nat
      BY DEF Shape
    <3> TAKE i \in 1 .. Len(wire')
    <3>2. CASE i <= Len(wire)
      <4>1. i \in 1 .. Len(wire) /\ wire'[i] = wire[i]
        BY <2>1, <3>1, <3>2
      <4> QED
        BY <4>1 DEF Shape
    <3>3. CASE ~(i <= Len(wire))
      BY <1>7, <2>1, <3>3
    <3> QED
      BY <3>2, <3>3
  <2>3. Shape'
    BY <1>1, <1>2, <1>5, <1>6, <1>8, <2>1, <2>2 DEF Shape
  <2>4. ASSUME Calm(trouble)' PROVE OneAtATime'
    <3>1. OneAtATime
      BY <1>8, <2>4
    <3>2. n = 1 /\ Len(sent) = 1 /\ Len(wire) = 0
      <4>1. Len(sent) + Len(wire) <= 1 /\ wire \in Seq(Answers)
        BY <3>1 DEF OneAtATime, Shape
      <4> QED
        BY <1>4, <4>1, OnlyOne
    <3>3. \E t \in Open : c = command[t]
      BY <3>1, <3>2 DEF OneAtATime, c
    <3>4. Len(wire') = 1 /\ wire'[1].to = c /\ Len(sent') = 0
      BY <1>5, <1>7, <1>8, <2>1, <3>2
    <3> QED
      BY <1>1, <1>2, <1>8, <3>1, <3>3, <3>4 DEF OneAtATime
  <2> QED
    BY <2>3, <2>4
<1>9. CASE link' = "lost" /\ sent' = <<>> /\ trouble' = trouble \cup {"lost"} /\ wire' = wire
  <2>1. Shape'
    <3>1. \A i \in 1 .. Len(wire') : Plain(wire'[i])
      BY <1>9 DEF Shape
    <3>2. sent' \in Seq(Commands) /\ wire' \in Seq(Answers)
      BY <1>9, EmptySeq DEF Shape
    <3> QED
      BY <1>1, <1>2, <1>6, <1>9, <3>1, <3>2 DEF Shape
  <2>2. ASSUME Calm(trouble)' PROVE OneAtATime'
    <3>1. OneAtATime
      BY <1>9, <2>2 DEF Calm
    <3>2. Len(sent') = 0
      BY <1>9
    <3> QED
      BY <1>1, <1>2, <1>4, <1>9, <3>1, <3>2 DEF OneAtATime, Shape
  <2> QED
    BY <2>1, <2>2
<1> QED
  BY <1>7, <1>8, <1>9 DEF Reply

(* Steps that leave every thread with its command, and nothing new on the   *)
(* way.                                                                     *)
LEMMA QuietKeepsMatchInv ==
    ASSUME MatchInv, command' = command, gui' = gui,
           todo' \in [Refreshers -> {None, "clear"} \cup Enumerations],
           failed \subseteq failed', failed' \subseteq Waiting,
           \/ sent' = sent /\ wire' = wire /\ failed' = failed
           \/ sent' = <<>> /\ wire' = wire /\ failed' = failed
           \/ sent' = <<>> /\ wire' = <<>>,
           link' # "open" => sent' = <<>>,
           link' = "none" => wire' = <<>>,
           trouble \subseteq trouble', "swapped" \in trouble' => "swapped" \in trouble,
           queue' \in Seq(Irps), last' \in 0 .. MaxIrps
    PROVE  MatchInv'
<1> USE DEF MatchInv
<1>1. Waiting' = Waiting
  BY DEF Waiting
<1>2. Open' \subseteq Open
  BY <1>1 DEF Open
<1>3. sent' \in Seq(Commands) /\ wire' \in Seq(Answers)
  BY EmptySeq DEF Shape
<1>4. wire' = wire \/ Len(wire') = 0
  OBVIOUS
<1>5. \A i \in 1 .. Len(wire') : Plain(wire'[i])
  BY <1>4 DEF Shape
<1>6. Shape'
  <2>1. /\ command' \in [Threads -> Commands \cup {None}]
        /\ \A t \in Threads : command'[t] # None => command'[t].by = t
    BY DEF Shape
  <2> QED
    BY <1>1, <1>3, <1>5, <2>1 DEF Shape
<1>7. ASSUME Calm(trouble)' PROVE OneAtATime'
  <2>1. OneAtATime
    BY <1>7 DEF Calm
  <2>2. "swapped" \notin trouble' /\ gui' # "crashed"
    BY <2>1 DEF OneAtATime
  <2>3. Len(sent) \in Nat /\ Len(wire) \in Nat
    BY DEF Shape
  <2>4. CASE sent' = sent /\ wire' = wire /\ failed' = failed
    <3>1. Open' = Open
      BY <1>1, <2>4 DEF Open
    <3> QED
      BY <2>1, <2>2, <2>4, <3>1 DEF OneAtATime
  <2>5. CASE sent' = <<>> /\ wire' = wire /\ failed' = failed
    <3>1. Open' = Open /\ Len(sent') = 0
      BY <1>1, <2>5 DEF Open
    <3>2. Len(sent') + Len(wire') <= 1
      BY <2>1, <2>3, <2>5, <3>1 DEF OneAtATime
    <3> QED
      BY <2>1, <2>2, <2>5, <3>1, <3>2 DEF OneAtATime
  <2>6. CASE sent' = <<>> /\ wire' = <<>>
    <3>1. Len(sent') = 0 /\ Len(wire') = 0
      BY <2>6
    <3> QED
      BY <1>2, <2>1, <2>2, <3>1 DEF OneAtATime
  <2> QED
    BY <2>4, <2>5, <2>6
<1> QED
  BY <1>6, <1>7

(* "Quit" leaves no thread, and no connection.                              *)
LEMMA QuitKeepsMatchInv ==
    ASSUME MatchInv, Quit
    PROVE  MatchInv'
<1> USE DEF MatchInv
<1>1. /\ command' = [t \in Threads |-> None] /\ failed' = {}
      /\ todo' = [r \in Refreshers |-> None]
      /\ sent' = <<>> /\ wire' = <<>> /\ queue' = queue /\ last' = last
      /\ trouble' = trouble /\ gui' = "gone"
  BY DEF Quit, brokerVars
<1>2. Waiting' = {} /\ Open' = {}
  BY <1>1 DEF Waiting, Open
<1>3. Len(sent') = 0 /\ Len(wire') = 0
  BY <1>1
<1>4. Shape'
  <2>1. sent' \in Seq(Commands) /\ wire' \in Seq(Answers)
    BY <1>1, EmptySeq
  <2>2. command' \in [Threads -> Commands \cup {None}]
    BY <1>1
  <2>3. todo' \in [Refreshers -> {None, "clear"} \cup Enumerations]
    BY <1>1
  <2>4. queue' \in Seq(Irps) /\ last' \in 0 .. MaxIrps
    BY <1>1 DEF Shape
  <2>5. \A t \in Threads : command'[t] = None
    BY <1>1
  <2> QED
    BY <1>1, <1>2, <1>3, <2>1, <2>2, <2>3, <2>4, <2>5 DEF Shape
<1>5. ASSUME Calm(trouble)' PROVE OneAtATime'
  BY <1>1, <1>2, <1>3, <1>5 DEF OneAtATime
<1> QED
  BY <1>4, <1>5

LEMMA WindowKeepsMatchInv ==
    ASSUME MatchInv, Window
    PROVE  MatchInv'
<1> USE DEF MatchInv
<1>1. CASE \E id \in Changes, d \in Drivers : Click(id, d)
  <2>1. PICK id \in Changes, d \in Drivers : Click(id, d)
    BY <1>1
  <2>2. [by |-> "ui", id |-> id, driver |-> d] \in Commands /\ "ui" \in Threads
    BY DEF Commands, Threads
  <2>3. Send("ui", id, d) /\ todo' = todo /\ gui' = gui
    BY <2>1 DEF Click
  <2> QED
    BY <2>2, <2>3, SendKeepsMatchInv
<1>2. CASE \E r \in Refreshers : ClickRefresh(r)
  <2>1. PICK r \in Refreshers : ClickRefresh(r)
    BY <1>2
  <2>2. todo' = [todo EXCEPT ![r] = "clear"]
    BY <2>1 DEF ClickRefresh
  <2>3. todo' \in [Refreshers -> {None, "clear"} \cup Enumerations]
    BY <2>2 DEF Shape
  <2> QED
    BY <2>1, <2>3, QuietKeepsMatchInv DEF ClickRefresh, Shape, linkVars, brokerVars
<1>3. CASE Connect
  <2>1. /\ link = "none" /\ link' = "open"
        /\ trouble \subseteq trouble' /\ trouble' \subseteq trouble \cup {"mixed"}
        /\ command' = command /\ gui' = gui /\ todo' = todo
        /\ sent' = sent /\ wire' = wire /\ failed' = failed
        /\ queue' = queue /\ last' = last
    BY <1>3 DEF Connect, guiVars, brokerVars
  <2> QED
    BY <2>1, QuietKeepsMatchInv DEF Shape
<1>4. CASE Disconnect
  <2>1. /\ link' = "none" /\ sent' = <<>> /\ wire' = <<>>
        /\ trouble \subseteq trouble' /\ trouble' \subseteq trouble \cup {"lost"}
        /\ command' = command /\ gui' = gui /\ todo' = todo
        /\ queue' = queue /\ last' = last
        /\ \E inRecv \in SUBSET Waiting : failed' = failed \cup inRecv
    BY <1>4 DEF Disconnect, AfterClose, guiVars, brokerVars
  <2> QED
    BY <2>1, QuietKeepsMatchInv DEF Shape
<1>5. CASE Quit
  BY <1>5, QuitKeepsMatchInv
<1> QED
  BY <1>1, <1>2, <1>3, <1>4, <1>5 DEF Window

LEMMA RefreshKeepsMatchInv ==
    ASSUME MatchInv, NEW r \in Refreshers, Refresh(r)
    PROVE  MatchInv'
<1> USE DEF MatchInv
<1>1. CASE RefreshClears(r)
  <2>1. todo' = [todo EXCEPT ![r] = "drivers"]
    BY <1>1 DEF RefreshClears
  <2>2. todo' \in [Refreshers -> {None, "clear"} \cup Enumerations]
    BY <2>1 DEF Shape, Enumerations
  <2> QED
    BY <1>1, <2>2, QuietKeepsMatchInv DEF RefreshClears, Shape, linkVars, brokerVars
<1>2. CASE RefreshSends(r)
  <2>1. [by |-> r, id |-> todo[r], driver |-> None] \in Commands /\ r \in Threads
    BY <1>2 DEF RefreshSends, Commands, Threads
  <2>2. Send(r, todo[r], None) /\ todo' = todo /\ gui' = gui
    BY <1>2 DEF RefreshSends
  <2> QED
    BY <2>1, <2>2, SendKeepsMatchInv
<1>3. CASE RefreshNotConnected(r)
  <2>1. todo' = [todo EXCEPT ![r] = None]
    BY <1>3 DEF RefreshNotConnected
  <2>2. todo' \in [Refreshers -> {None, "clear"} \cup Enumerations]
    BY <2>1 DEF Shape
  <2> QED
    BY <1>3, <2>2, QuietKeepsMatchInv
       DEF RefreshNotConnected, Shape, linkVars, brokerVars
<1> QED
  BY <1>1, <1>2, <1>3 DEF Refresh

LEMMA MatchInvStep ==
    ASSUME MatchInv, [GuiNext]_vars
    PROVE  MatchInv'
<1> USE DEF MatchInv
<1>1. CASE Poll
  <2>1. [by |-> "poller", id |-> "pending", driver |-> None] \in Commands
        /\ "poller" \in Threads
    BY DEF Commands, Threads
  <2>2. Send("poller", "pending", None) /\ todo' = todo /\ gui' = gui
    BY <1>1 DEF Poll
  <2> QED
    BY <2>1, <2>2, SendKeepsMatchInv
<1>2. CASE \E r \in Refreshers : Refresh(r)
  BY <1>2, RefreshKeepsMatchInv
<1>3. CASE \E t \in Threads : Receive(t) \/ GiveUp(t)
  BY <1>3, ReceiveKeepsMatchInv, GiveUpKeepsMatchInv
<1>4. CASE Window
  BY <1>4, WindowKeepsMatchInv
<1>5. CASE Capture
  <2>1. /\ queue' = Append(queue, last + 1) /\ last' = last + 1
        /\ command' = command /\ gui' = gui /\ todo' = todo /\ trouble' = trouble
        /\ sent' = sent /\ wire' = wire /\ failed' = failed /\ link' = link
    BY <1>5 DEF Capture, guiVars, linkVars
  <2>2. last \in 0 .. MaxIrps /\ last < MaxIrps /\ queue \in Seq(Irps)
    BY <1>5 DEF Capture, Shape
  <2>3. last + 1 \in Irps
    BY <2>2, GuiAssumption DEF Irps
  <2>4. queue' \in Seq(Irps) /\ last' \in 0 .. MaxIrps
    BY <2>1, <2>2, <2>3, GuiAssumption
  <2> QED
    BY <2>1, <2>4, QuietKeepsMatchInv DEF Shape
<1>6. CASE Serve
  BY <1>6, ServeKeepsMatchInv
<1>7. CASE BrokerCloses \/ BrokerEnds
  <2>1. /\ queue' \in {queue, <<>>} /\ last' = last /\ sent' = <<>>
        /\ link' = "lost" \/ (link' = link /\ link # "open")
        /\ command' = command /\ gui' = gui /\ todo' = todo
        /\ trouble' \in {trouble, trouble \cup {"lost"}}
        /\ wire' = wire /\ failed' = failed
    BY <1>7 DEF BrokerCloses, BrokerEnds, guiVars, brokerVars
  <2>2. queue' \in Seq(Irps)
    BY <2>1, EmptySeq DEF Shape
  <2> QED
    BY <2>1, <2>2, QuietKeepsMatchInv DEF Shape
<1>8. CASE ServeLate
  <2>1. /\ queue' \in {queue, <<>>} /\ last' = last /\ link' = link /\ sent' = sent
        /\ command' = command /\ gui' = gui /\ todo' = todo /\ trouble' = trouble
        /\ wire' = wire /\ failed' = failed
    BY <1>8 DEF ServeLate, ExecuteCommand, guiVars, linkVars
  <2>2. queue' \in Seq(Irps)
    BY <2>1, EmptySeq DEF Shape
  <2> QED
    BY <2>1, <2>2, QuietKeepsMatchInv DEF Shape
<1>9. CASE UNCHANGED vars
  <2>1. /\ queue' = queue /\ last' = last /\ link' = link /\ sent' = sent
        /\ command' = command /\ gui' = gui /\ todo' = todo /\ trouble' = trouble
        /\ wire' = wire /\ failed' = failed
    BY <1>9 DEF vars, guiVars, linkVars, brokerVars
  <2> QED
    BY <2>1, QuietKeepsMatchInv DEF Shape
<1> QED
  BY <1>1, <1>2, <1>3, <1>4, <1>5, <1>6, <1>7, <1>8, <1>9
     DEF GuiNext, Running
-----------------------------------------------------------------------------
(* A thread takes the answer to its own command, and the GUI does not crash *)
(* on one it did not expect, as long as no two threads used the socket at   *)
(* once and no answer was cut short.                                        *)
THEOREM AnswersMatch == GuiSpec => []Matched
<1>1. MatchInv => Matched
  BY DEF MatchInv, Matched, Calm, OneAtATime
<1> QED
  BY <1>1, MatchInvInit, MatchInvStep, PTL DEF GuiSpec
-----------------------------------------------------------------------------
(* The IRPs that are shown, those of each answer on the wire, and those in  *)
(* the queue were captured one after the other, in this order.              *)
Rising(s) == \A i, j \in 1 .. Len(s) : i < j => s[i] < s[j]
Earlier(s, r) == \A i \in 1 .. Len(s), j \in 1 .. Len(r) : s[i] < r[j]
Known(s) == \A i \in 1 .. Len(s) : s[i] \in 1 .. last

InOrder ==
    /\ captured \in Seq(Irps)
    /\ Rising(captured) /\ Known(captured)
    /\ Rising(queue) /\ Known(queue)
    /\ Earlier(captured, queue)
    /\ \A i \in 1 .. Len(wire) :
          /\ Rising(wire[i].irps) /\ Known(wire[i].irps)
          /\ Earlier(captured, wire[i].irps)
          /\ Earlier(wire[i].irps, queue)
    /\ \A i, j \in 1 .. Len(wire) : i < j => Earlier(wire[i].irps, wire[j].irps)

LEMMA RisingOn ==
    ASSUME NEW s \in Seq(Irps), NEW r \in Seq(Irps), Rising(s), Rising(r), Earlier(s, r)
    PROVE  /\ s \o r \in Seq(Irps)
           /\ Rising(s \o r)
           /\ Known(s) /\ Known(r) => Known(s \o r)
           /\ \A q \in Seq(Irps) : Earlier(s, q) /\ Earlier(r, q) => Earlier(s \o r, q)
<1>1. /\ s \o r \in Seq(Irps) /\ Len(s \o r) = Len(s) + Len(r)
      /\ \A i \in 1 .. Len(s) : (s \o r)[i] = s[i]
      /\ \A i \in Len(s) + 1 .. Len(s) + Len(r) :
            (s \o r)[i] = r[i - Len(s)] /\ i - Len(s) \in 1 .. Len(r)
      /\ Len(s) \in Nat /\ Len(r) \in Nat
  OBVIOUS
<1> DEFINE u == s \o r
<1> HIDE DEF u
<1>2. \A i \in 1 .. Len(u) : \/ i \in 1 .. Len(s) /\ u[i] = s[i]
                             \/ /\ i \in Len(s) + 1 .. Len(s) + Len(r)
                                /\ i - Len(s) \in 1 .. Len(r) /\ u[i] = r[i - Len(s)]
  BY <1>1 DEF u
<1>3. Rising(u)
  <2> SUFFICES ASSUME NEW i \in 1 .. Len(u), NEW j \in 1 .. Len(u), i < j
               PROVE  u[i] < u[j]
    BY DEF Rising
  <2>1. CASE j \in 1 .. Len(s)
    <3>1. i \in 1 .. Len(s) /\ u[i] = s[i] /\ u[j] = s[j]
      BY <1>1, <1>2, <2>1
    <3> QED
      BY <3>1, <2>1 DEF Rising
  <2>2. CASE i \in 1 .. Len(s) /\ j \notin 1 .. Len(s)
    <3>1. u[i] = s[i] /\ j - Len(s) \in 1 .. Len(r) /\ u[j] = r[j - Len(s)]
      BY <1>1, <1>2, <2>2
    <3> QED
      BY <3>1, <2>2 DEF Earlier
  <2>3. CASE i \notin 1 .. Len(s) /\ j \notin 1 .. Len(s)
    <3>1. i - Len(s) \in 1 .. Len(r) /\ u[i] = r[i - Len(s)]
      BY <1>2, <2>3
    <3>2. j - Len(s) \in 1 .. Len(r) /\ u[j] = r[j - Len(s)]
      BY <1>2, <2>3
    <3>3. i - Len(s) < j - Len(s)
      BY <1>1
    <3> QED
      BY <3>1, <3>2, <3>3 DEF Rising
  <2>4. i \in 1 .. Len(s) \/ j \notin 1 .. Len(s)
    BY <1>1
  <2> QED
    BY <2>1, <2>2, <2>3, <2>4
<1>4. Known(s) /\ Known(r) => Known(u)
  BY <1>2 DEF Known
<1>5. \A q \in Seq(Irps) : Earlier(s, q) /\ Earlier(r, q) => Earlier(u, q)
  BY <1>2 DEF Earlier
<1> QED
  BY <1>1, <1>3, <1>4, <1>5 DEF u

(* A thread that receives takes answers off the wire, and shows the IRPs of *)
(* the first one or none.                                                   *)
LEMMA ReceiveData ==
    ASSUME Shape, NEW t \in Threads, Receive(t)
    PROVE  \E n \in 0 .. Len(wire) :
              /\ wire' = SubSeq(wire, n + 1, Len(wire))
              /\ UNCHANGED <<queue, last>>
              /\ \/ captured' = captured
                 \/ n = 1 /\ captured' = captured \o wire[1].irps
<1>1. PICK n \in 0 .. Len(wire), more, full, brace \in BOOLEAN :
         Chunk(t, n, more, full, brace)
  BY ReceivesChunk
<1> DEFINE whole == n = 1 /\ ~more /\ headless = IF part[t] THEN t ELSE None
           answer == IF whole THEN wire[1] ELSE None
<1>2. queue' = queue /\ last' = last
  BY DEF Receive, brokerVars
<1>3. ASSUME NEW a, Finish(t, a), a = None \/ (n = 1 /\ a = wire[1])
      PROVE  captured' = captured \/ (n = 1 /\ captured' = captured \o wire[1].irps)
  <2>1. CASE t = "ui"
    BY <1>3, <2>1 DEF Finish, UiFinish
  <2>2. CASE t = "poller"
    BY <1>3, <2>2 DEF Finish, PollerFinish, PushedBack, Accepted, Good
  <2>3. CASE t \notin {"ui", "poller"}
    BY <1>3, <2>3 DEF Finish, RefresherFinish
  <2> QED
    BY <2>1, <2>2, <2>3
<1>4. /\ wire' = SubSeq(wire, n + 1, Len(wire))
      /\ Finish(t, answer) \/ UNCHANGED guiVars
  BY <1>1 DEF Chunk
<1>5. answer = None \/ (n = 1 /\ answer = wire[1])
  OBVIOUS
<1> HIDE DEF answer
<1> QED
  BY <1>2, <1>3, <1>4, <1>5 DEF guiVars

(* Nothing else moves IRPs, but the broker that serves, captures or drops   *)
(* them, and the window that drops them.                                    *)
LEMMA OnlyTheseMoveIrps ==
    ASSUME [GuiNext]_vars
    PROVE  \/ UNCHANGED <<captured, wire, queue, last>>
           \/ \E t \in Threads : Receive(t)
           \/ Serve \/ Capture \/ Disconnect \/ Quit
           \/ ServeLate \/ BrokerEnds
<1>1. ASSUME NEW r \in Refreshers, Refresh(r)
      PROVE  UNCHANGED <<captured, wire, queue, last>>
  BY <1>1 DEF Refresh, RefreshClears, RefreshSends, RefreshNotConnected, Send, linkVars,
     brokerVars
<1>2. ASSUME NEW t \in Threads, GiveUp(t)
      PROVE  UNCHANGED <<captured, wire, queue, last>>
  <2>1. Finish(t, None) /\ UNCHANGED <<wire, queue, last>>
    BY <1>2 DEF GiveUp, brokerVars
  <2>2. captured' = captured
    BY <2>1 DEF Finish, UiFinish, PollerFinish, RefresherFinish, Accepted, Good
  <2> QED
    BY <2>1, <2>2
<1>3. CASE Poll
  BY <1>3 DEF Poll, Send, brokerVars
<1>4. CASE Window
  BY <1>4 DEF Window, Click, ClickRefresh, Connect, Send, guiVars, linkVars, brokerVars
<1>5. CASE BrokerCloses
  BY <1>5 DEF BrokerCloses, guiVars, brokerVars
<1>6. CASE UNCHANGED vars
  BY <1>6 DEF vars, guiVars, linkVars, brokerVars
<1> QED
  BY <1>1, <1>2, <1>3, <1>4, <1>5, <1>6 DEF GuiNext, Running

LEMMA InOrderInit == GuiInit => InOrder
<1> SUFFICES ASSUME GuiInit PROVE InOrder
  OBVIOUS
<1>1. captured = <<>> /\ queue = <<>> /\ wire = <<>>
  BY DEF GuiInit
<1> QED
  BY <1>1 DEF InOrder, Rising, Earlier, Known

LEMMA WireTyped ==
    ASSUME wire \in Seq(Answers)
    PROVE  \A i \in 1 .. Len(wire) : wire[i].irps \in Seq(Irps)
<1>1. \A i \in 1 .. Len(wire) : wire[i] \in Answers
  OBVIOUS
<1> QED
  BY <1>1 DEF Answers

LEMMA ReceiveKeepsInOrder ==
    ASSUME Shape, InOrder, NEW t \in Threads, Receive(t)
    PROVE  InOrder'
<1>1. PICK n \in 0 .. Len(wire) :
         /\ wire' = SubSeq(wire, n + 1, Len(wire))
         /\ UNCHANGED <<queue, last>>
         /\ \/ captured' = captured
            \/ n = 1 /\ captured' = captured \o wire[1].irps
  BY ReceiveData
<1>2. /\ wire \in Seq(Answers) /\ Len(wire) \in Nat /\ n \in Nat
      /\ queue \in Seq(Irps) /\ captured \in Seq(Irps)
  BY DEF Shape, InOrder
<1>3. /\ Len(wire') = Len(wire) - n
      /\ \A i \in 1 .. Len(wire') : i + n \in n + 1 .. Len(wire) /\ wire'[i] = wire[i + n]
  BY <1>1, <1>2
<1>4. \A i \in 1 .. Len(wire) : wire[i].irps \in Seq(Irps)
  BY <1>2, WireTyped
<1>5. /\ captured' \in Seq(Irps) /\ Rising(captured') /\ Known(captured')
      /\ Earlier(captured', queue)
      /\ \A i \in n + 1 .. Len(wire) : Earlier(captured', wire[i].irps)
  <2>1. CASE captured' = captured
    BY <1>2, <2>1 DEF InOrder
  <2>2. CASE n = 1 /\ captured' = captured \o wire[1].irps
    <3>1. 1 \in 1 .. Len(wire)
      BY <1>2, <2>2
    <3>2. /\ Rising(captured) /\ Rising(wire[1].irps) /\ Known(captured)
          /\ Known(wire[1].irps) /\ Earlier(captured, wire[1].irps)
          /\ Earlier(captured, queue) /\ Earlier(wire[1].irps, queue)
      BY <3>1 DEF InOrder
    <3>3. \A i \in 2 .. Len(wire) : /\ wire[i].irps \in Seq(Irps)
                                    /\ Earlier(captured, wire[i].irps)
                                    /\ Earlier(wire[1].irps, wire[i].irps)
      BY <1>2, <1>4, <3>1 DEF InOrder
    <3> QED
      BY <1>2, <1>4, <2>2, <3>1, <3>2, <3>3, RisingOn
  <2> QED
    BY <1>1, <2>1, <2>2
<1>6. \A i \in 1 .. Len(wire') :
         /\ Rising(wire'[i].irps) /\ Known(wire'[i].irps)
         /\ Earlier(captured', wire'[i].irps) /\ Earlier(wire'[i].irps, queue)
  <2> TAKE i \in 1 .. Len(wire')
  <2>1. i + n \in n + 1 .. Len(wire) /\ i + n \in 1 .. Len(wire) /\ wire'[i] = wire[i + n]
    BY <1>2, <1>3
  <2>2. PICK a : a = wire[i + n]
    OBVIOUS
  <2>3. Rising(a.irps) /\ Known(a.irps) /\ Earlier(a.irps, queue)
    BY <2>1, <2>2 DEF InOrder
  <2>4. Earlier(captured', a.irps)
    BY <1>5, <2>1, <2>2
  <2> QED
    BY <2>1, <2>2, <2>3, <2>4
<1>7. \A i, j \in 1 .. Len(wire') : i < j => Earlier(wire'[i].irps, wire'[j].irps)
  <2> TAKE i, j \in 1 .. Len(wire')
  <2>1. /\ i + n \in 1 .. Len(wire) /\ wire'[i] = wire[i + n]
        /\ j + n \in 1 .. Len(wire) /\ wire'[j] = wire[j + n]
        /\ i < j => i + n < j + n
    BY <1>2, <1>3
  <2> QED
    BY <2>1 DEF InOrder
<1> QED
  BY <1>1, <1>5, <1>6, <1>7 DEF InOrder, Known

(* The broker puts its queue in an answer, or nothing, and what it does not *)
(* put there it keeps or loses.                                             *)
LEMMA ServeData ==
    ASSUME Serve
    PROVE  /\ UNCHANGED <<captured, last>>
           /\ \/ /\ \E a : /\ wire' = Append(wire, a)
                           /\ \/ a.irps = queue /\ queue' = <<>>
                              \/ a.irps = <<>> /\ queue' = queue
                 /\ trouble' = trouble
              \/ /\ wire' = wire /\ queue' \in {queue, <<>>}
                 /\ "lost" \in trouble'
<1>1. PICK n \in 1 .. Len(sent) :
         LET c == sent[1]
             unread == SubSeq(sent, n + 1, Len(sent))
             irps == IF c.id = "pending" THEN queue ELSE <<>>
         IN IF n = 1
            THEN \E success \in Outcomes(c) :
                    /\ ExecuteCommand(c, success)
                    /\ Reply([to |-> c, success |-> success, irps |-> irps], unread)
            ELSE /\ Reply([to |-> None, success |-> FALSE, irps |-> <<>>], unread)
                 /\ UNCHANGED brokerVars
  BY DEF Serve
<1> DEFINE unread == SubSeq(sent, n + 1, Len(sent))
<1>2. captured' = captured
  BY DEF Serve, guiVars
<1>3. PICK a : /\ Reply(a, unread) /\ last' = last
               /\ \/ a.irps = queue /\ queue' = <<>>
                  \/ a.irps = <<>> /\ queue' = queue
  <2>1. CASE n = 1
    <3>1. PICK success \in Outcomes(sent[1]) :
             /\ ExecuteCommand(sent[1], success)
             /\ Reply([to |-> sent[1], success |-> success,
                       irps |-> IF sent[1].id = "pending" THEN queue ELSE <<>>], unread)
      BY <1>1, <2>1
    <3> DEFINE b == [to |-> sent[1], success |-> success,
                     irps |-> IF sent[1].id = "pending" THEN queue ELSE <<>>]
    <3>2. /\ last' = last
          /\ \/ b.irps = queue /\ queue' = <<>>
             \/ b.irps = <<>> /\ queue' = queue
      BY <3>1 DEF ExecuteCommand
    <3> QED
      BY <3>1, <3>2
  <2>2. CASE n # 1
    <3> DEFINE b == [to |-> None, success |-> FALSE, irps |-> <<>>]
    <3>1. Reply(b, unread) /\ last' = last /\ queue' = queue /\ b.irps = <<>>
      BY <1>1, <2>2 DEF brokerVars
    <3> QED
      BY <3>1
  <2> QED
    BY <2>1, <2>2
<1> QED
  BY <1>2, <1>3 DEF Reply

LEMMA ServeKeepsInOrder ==
    ASSUME Shape, InOrder, Serve
    PROVE  InOrder'
<1>1. /\ wire \in Seq(Answers) /\ Len(wire) \in Nat /\ queue \in Seq(Irps)
      /\ captured' = captured /\ last' = last
  BY ServeData DEF Shape
<1>2. Rising(<<>>) /\ Known(<<>>) /\ \A s : Earlier(s, <<>>) /\ Earlier(<<>>, s)
  BY DEF Rising, Known, Earlier
<1>3. CASE wire' = wire /\ queue' \in {queue, <<>>}
  BY <1>1, <1>2, <1>3 DEF InOrder, Known
<1>4. ASSUME NEW a, wire' = Append(wire, a),
             \/ a.irps = queue /\ queue' = <<>>
             \/ a.irps = <<>> /\ queue' = queue
      PROVE  InOrder'
  <2>1. \A i \in 1 .. Len(wire') : \/ i \in 1 .. Len(wire) /\ wire'[i] = wire[i]
                                   \/ i = Len(wire) + 1 /\ wire'[i] = a
    BY <1>1, <1>4
  <2>2. /\ Rising(a.irps) /\ Known(a.irps) /\ Earlier(captured, a.irps)
        /\ Earlier(a.irps, queue')
        /\ \A i \in 1 .. Len(wire) : Earlier(wire[i].irps, a.irps)
    BY <1>2, <1>4 DEF InOrder
  <2>3. /\ Rising(queue') /\ Known(queue') /\ Earlier(captured, queue')
        /\ \A i \in 1 .. Len(wire) : Earlier(wire[i].irps, queue')
    BY <1>2, <1>4 DEF InOrder
  <2>4. \A i \in 1 .. Len(wire') :
           /\ Rising(wire'[i].irps) /\ Known(wire'[i].irps)
           /\ Earlier(captured, wire'[i].irps) /\ Earlier(wire'[i].irps, queue')
    BY <2>1, <2>2, <2>3 DEF InOrder
  <2>5. \A i, j \in 1 .. Len(wire') : i < j => Earlier(wire'[i].irps, wire'[j].irps)
    <3> TAKE i, j \in 1 .. Len(wire')
    <3>1. i < j => i \in 1 .. Len(wire) /\ wire'[i] = wire[i]
      BY <1>1, <2>1
    <3>2. CASE j \in 1 .. Len(wire) /\ wire'[j] = wire[j]
      BY <3>1, <3>2 DEF InOrder
    <3>3. CASE wire'[j] = a
      BY <3>1, <3>3, <2>2
    <3> QED
      BY <2>1, <3>2, <3>3
  <2> QED
    BY <1>1, <2>3, <2>4, <2>5 DEF InOrder, Known
<1> QED
  BY <1>3, <1>4, ServeData

LEMMA CaptureKeepsInOrder ==
    ASSUME Shape, InOrder, Capture
    PROVE  InOrder'
<1>1. /\ queue' = Append(queue, last + 1) /\ last' = last + 1
      /\ UNCHANGED <<captured, wire>>
      /\ queue \in Seq(Irps) /\ last \in 0 .. MaxIrps
  BY DEF Capture, Shape, guiVars, linkVars
<1>2. \A s : Known(s) => Known(s)' /\ \A i \in 1 .. Len(s) : s[i] < last + 1
  BY <1>1 DEF Known
<1>3. \A s : Known(s) /\ Earlier(s, queue) => Earlier(s, queue')
  BY <1>1, <1>2 DEF Earlier
<1>4. Rising(queue') /\ Known(queue)'
  BY <1>1, <1>2 DEF InOrder, Rising, Known
<1> QED
  BY <1>1, <1>2, <1>3, <1>4 DEF InOrder

LEMMA InOrderStep ==
    ASSUME Shape, InOrder, [GuiNext]_vars
    PROVE  InOrder'
<1>1. CASE UNCHANGED <<captured, wire, queue, last>>
  BY <1>1 DEF InOrder, Known
<1>2. CASE Disconnect \/ Quit
  <2>1. /\ wire' = <<>> /\ captured' \in {captured, <<>>}
        /\ UNCHANGED <<queue, last>>
    BY <1>2 DEF Disconnect, Quit, AfterClose, guiVars, brokerVars
  <2>2. Rising(<<>>) /\ Known(<<>>) /\ Earlier(<<>>, queue) /\ <<>> \in Seq(Irps)
    BY DEF Rising, Known, Earlier
  <2>3. /\ captured' \in Seq(Irps) /\ Rising(captured') /\ Known(captured')
        /\ Earlier(captured', queue)
    BY <2>1, <2>2 DEF InOrder
  <2> QED
    BY <2>1, <2>3 DEF InOrder, Known
<1>3. CASE ServeLate \/ BrokerEnds
  <2>1. queue' \in {queue, <<>>} /\ UNCHANGED <<captured, wire, last>>
    BY <1>3 DEF ServeLate, BrokerEnds, ExecuteCommand, guiVars, linkVars
  <2>2. Rising(<<>>) /\ Known(<<>>) /\ \A s : Earlier(s, <<>>)
    BY DEF Rising, Known, Earlier
  <2> QED
    BY <2>1, <2>2 DEF InOrder, Known
<1> QED
  BY <1>1, <1>2, <1>3, ReceiveKeepsInOrder, ServeKeepsInOrder, CaptureKeepsInOrder,
     OnlyTheseMoveIrps

(* Whatever happens to answers, the IRPs that are shown are shown once and  *)
(* in the order of their capture: no trouble on the connection repeats one  *)
(* or lets one overtake another.                                            *)
THEOREM ShownOnceInOrder == GuiSpec => []CapturedOnceInOrder
<1>1. MatchInv /\ InOrder => CapturedOnceInOrder
  BY DEF InOrder, Rising, CapturedOnceInOrder
<1>2. GuiInit => MatchInv /\ InOrder
  BY MatchInvInit, InOrderInit
<1>3. MatchInv /\ InOrder /\ [GuiNext]_vars => (MatchInv /\ InOrder)'
  BY MatchInvStep, InOrderStep DEF MatchInv
<1> QED
  BY <1>1, <1>2, <1>3, PTL DEF GuiSpec
-----------------------------------------------------------------------------
(* A thread that reads an answer in pieces has its head, as long as threads *)
(* do not mix and no answer is cut; the window waits for its answer only    *)
(* while it is connected.                                                   *)
Heads ==
    /\ part \in [Threads -> BOOLEAN]
    /\ \A t \in Threads : part[t] => t \in Waiting
    /\ wire = <<>> => headless = None
    /\ headless \in Threads \cup {None, "nobody"}
    /\ "ui" \notin failed
    /\ Idle \/ link # "none"
    /\ Calm(trouble) =>
          /\ headless \in Open \cup {None}
          /\ \A t \in Open : link # "none" => (part[t] <=> headless = t)

LEMMA NoneIsNobody == None \notin Threads /\ None # "nobody" /\ "nobody" \notin Threads
BY GuiAssumption DEF Threads

LEMMA HeadsInit == GuiInit => Heads
<1> SUFFICES ASSUME GuiInit PROVE Heads
  OBVIOUS
<1>1. Waiting = {} /\ command["ui"] = None
  BY DEF GuiInit, Waiting, Threads
<1>2. part = [t \in Threads |-> FALSE] /\ headless = None /\ failed = {}
  BY Zenon DEF GuiInit
<1>3. part \in [Threads -> BOOLEAN] /\ \A t \in Threads : ~part[t]
  BY <1>2
<1> QED
  BY <1>1, <1>2, <1>3 DEF Heads, Open, Idle

(* Steps that leave the heads of answers as they are.                       *)
LEMMA QuietKeepsHeads ==
    ASSUME Shape, Heads, UNCHANGED <<part, headless>>,
           Waiting' = Waiting, failed' = failed, trouble' \in {trouble, trouble \cup {"lost"}},
           Idle' = Idle,
           link' # "none" \/ link' = link,
           link = "none" => link' = "none",
           wire' = wire \/ wire' # <<>>
    PROVE  Heads'
<1>1. Open' = Open
  BY DEF Open
<1>2. Calm(trouble') => Calm(trouble)
  BY DEF Calm
<1> QED
  BY <1>1, <1>2 DEF Heads

LEMMA SendKeepsHeads ==
    ASSUME Shape, Shape', Heads, NEW t \in Threads, NEW id, NEW d, Send(t, id, d)
    PROVE  Heads'
<1> DEFINE c == [by |-> t, id |-> id, driver |-> d]
<1>1. /\ UNCHANGED <<link, wire, headless, part, failed>> /\ link # "none"
      /\ command' = [command EXCEPT ![t] = c]
      /\ command[t] = None
      /\ trouble' = IF Waiting \subseteq failed THEN trouble ELSE trouble \cup {"mixed"}
  BY DEF Send
<1>2. Waiting \subseteq Waiting' /\ Waiting' \subseteq Waiting \cup {t} /\ t \notin Waiting
  BY <1>1 DEF Waiting, Shape
<1>3. /\ part' \in [Threads -> BOOLEAN]
      /\ \A u \in Threads : part'[u] => u \in Waiting'
  BY <1>1, <1>2 DEF Heads
<1>4. ASSUME Calm(trouble)'
      PROVE  /\ headless' \in Open' \cup {None}
             /\ \A u \in Open' : link' # "none" => (part'[u] <=> headless' = u)
  <2>1. Calm(trouble) /\ Waiting \subseteq failed
    BY <1>1, <1>4 DEF Calm
  <2>2. Open' \subseteq {t} /\ headless' = None
    BY <1>1, <1>2, <2>1 DEF Open, Heads
  <2>3. ~part'[t]
    BY <1>1, <1>2 DEF Heads
  <2> QED
    BY <2>2, <2>3, NoneIsNobody
<1> QED
  BY <1>1, <1>3, <1>4 DEF Heads

LEMMA GiveUpKeepsHeads ==
    ASSUME Shape, Heads, NEW t \in Threads, GiveUp(t)
    PROVE  Heads'
<1>1. /\ command' = [command EXCEPT ![t] = None]
      /\ part' = [part EXCEPT ![t] = FALSE]
      /\ failed' = failed \ {t}
      /\ UNCHANGED <<link, wire, headless, trouble>>
      /\ \/ link = "none" \/ t \in failed
         \/ link = "lost" /\ wire = <<>>
  BY DEF GiveUp, Finish
<1>2. Waiting' = Waiting \ {t} /\ Open' = Open \ {t}
  BY <1>1 DEF Waiting, Open, Shape
<1>3. /\ part' \in [Threads -> BOOLEAN] /\ ~part'[t]
      /\ \A u \in Threads \ {t} : part'[u] = part[u]
  BY <1>1 DEF Heads
<1>4. Idle' \/ link' # "none"
  BY <1>1 DEF Heads, Idle, Shape, Threads
<1>5. ASSUME Calm(trouble)'
      PROVE  /\ headless' \in Open' \cup {None}
             /\ \A u \in Open' : link' # "none" => (part'[u] <=> headless' = u)
  <2>1. Calm(trouble)
    BY <1>1, <1>5
  <2>2. headless = None \/ t \in failed
    BY <1>1 DEF Heads, Shape
  <2> QED
    BY <1>1, <1>2, <1>3, <2>1, <2>2 DEF Heads, Open
<1> QED
  BY <1>1, <1>2, <1>3, <1>4, <1>5 DEF Heads

(* While all stays calm, what is read to its end is the one answer on the   *)
(* wire, whole; what is not is its head.                                    *)
LEMMA CalmChunk ==
    ASSUME MatchInv, Heads, NEW t \in Threads, Receive(t), Calm(trouble)',
           NEW n \in 0 .. Len(wire), NEW more \in BOOLEAN, NEW full \in BOOLEAN,
           NEW brace \in BOOLEAN, Chunk(t, n, more, full, brace)
    PROVE  /\ OneAtATime /\ Open = {t} /\ Len(wire) = 1 /\ sent = <<>>
           /\ wire[1].to = command[t]
           /\ \/ /\ Finish(t, wire[1]) /\ wire' = <<>> /\ headless' = None
              \/ /\ UNCHANGED <<guiVars, failed, wire>>
                 /\ headless' = t /\ part' = [part EXCEPT ![t] = TRUE]
<1>1. /\ command[t] # None /\ t \notin failed /\ link # "none" /\ wire # <<>>
  BY DEF Receive
<1>2. /\ more /\ Stops(full, brace) => "cut" \in trouble'
      /\ trouble \subseteq trouble'
      /\ n = 0 => more /\ headless = None
      /\ more => n < Len(wire)
      /\ ~more => brace
      /\ wire' = SubSeq(wire, n + 1, Len(wire))
  BY DEF Chunk
<1>3. OneAtATime
  BY <1>2 DEF MatchInv, Calm
<1>4. t \in Open /\ Open = {t}
  BY <1>1, <1>3 DEF Open, Waiting, OneAtATime
<1>5. wire \in Seq(Answers) /\ Len(wire) \in Nat /\ Len(wire) > 0 /\ sent \in Seq(Commands)
  BY <1>1, NotEmpty DEF MatchInv, Shape
<1>6. Len(wire) = 1 /\ Len(sent) = 0 /\ sent = <<>>
  <2>1. Len(wire) + Len(sent) <= 1 /\ 1 \in 1 .. Len(wire)
    BY <1>3, <1>5 DEF OneAtATime
  <2>2. Len(wire) = 1 /\ Len(sent) = 0
    BY <1>5, <2>1, OnlyOne
  <2> QED
    BY <1>5, <2>2, EmptySeq
<1>7. wire[1].to = command[t]
  BY <1>3, <1>4, <1>6 DEF OneAtATime
<1>8. headless = IF part[t] THEN t ELSE None
  <2>1. /\ headless \in {t, None}
        /\ part[t] <=> headless = t
    BY <1>1, <1>2, <1>4 DEF Heads, Calm
  <2> QED
    BY <2>1
<1>9. CASE ~more
  <2>1. n = 1
    BY <1>2, <1>6, <1>9
  <2>2. Finish(t, wire[1]) /\ headless' = None
    BY <1>2, <1>8, <1>9, <2>1 DEF Chunk, Stops
  <2>3. wire' = <<>>
    BY <1>2, <1>5, <1>6, <2>1
  <2> QED
    BY <1>3, <1>4, <1>6, <1>7, <2>2, <2>3
<1>10. CASE more
  <2>1. n = 0 /\ headless = None /\ ~Stops(full, brace)
    BY <1>2, <1>6, <1>10 DEF Calm
  <2>2. ~part[t]
    BY <1>8, <2>1, NoneIsNobody
  <2>3. /\ headless' = t /\ part' = [part EXCEPT ![t] = TRUE]
        /\ UNCHANGED <<guiVars, failed>>
    BY <1>10, <2>1, <2>2 DEF Chunk
  <2>4. wire' = wire
    BY <1>2, <1>5, <2>1
  <2> QED
    BY <1>3, <1>4, <1>6, <1>7, <2>3, <2>4
<1> QED
  BY <1>9, <1>10

LEMMA ReceiveKeepsHeads ==
    ASSUME MatchInv, Heads, NEW t \in Threads, Receive(t)
    PROVE  Heads'
<1>1. PICK n \in 0 .. Len(wire), more, full, brace \in BOOLEAN :
         Chunk(t, n, more, full, brace)
  BY ReceivesChunk
<1>2. /\ link' = link /\ link # "none" /\ command[t] # None /\ t \notin failed
      /\ wire \in Seq(Answers)
  BY DEF Receive, MatchInv, Shape
<1>3. /\ \/ /\ command' = [command EXCEPT ![t] = None]
            /\ part' = [part EXCEPT ![t] = FALSE] /\ failed' = failed \ {t}
         \/ /\ command' = command /\ failed' = failed
            /\ part' = [part EXCEPT ![t] = TRUE]
  BY <1>1 DEF Chunk, Finish, guiVars
<1>4. /\ part' \in [Threads -> BOOLEAN]
      /\ \A u \in Threads : part'[u] => u \in Waiting'
  <2>1. /\ part \in [Threads -> BOOLEAN]
        /\ \A u \in Threads : part[u] => command[u] # None
        /\ command \in [Threads -> Commands \cup {None}]
    BY DEF Heads, Waiting, MatchInv, Shape
  <2>2. part' \in [Threads -> BOOLEAN]
    BY <1>3, <2>1
  <2>3. \A u \in Threads : part'[u] => command'[u] # None
    BY <1>2, <1>3, <2>1
  <2> QED
    BY <2>2, <2>3 DEF Waiting
<1>5. /\ wire' = <<>> => headless' = None
      /\ headless' \in Threads \cup {None, "nobody"}
  <2>1. /\ wire' = SubSeq(wire, n + 1, Len(wire))
        /\ more => n < Len(wire)
        /\ ~more => headless' = None
        /\ headless' \in {None, "nobody", t}
    BY <1>1 DEF Chunk
  <2>2. more => Len(wire') > 0
    BY <1>2, <2>1
  <2>3. more => wire' # <<>>
    BY <2>2
  <2> QED
    BY <2>1, <2>3, Zenon
<1>6. "ui" \notin failed'
  BY <1>3 DEF Heads
<1>7. ASSUME Calm(trouble)'
      PROVE  /\ headless' \in Open' \cup {None}
             /\ \A u \in Open' : link' # "none" => (part'[u] <=> headless' = u)
  <2>1. Open = {t} /\ part \in [Threads -> BOOLEAN]
    BY <1>1, <1>7, CalmChunk DEF Heads
  <2>2. CASE Finish(t, wire[1]) /\ headless' = None
    <3>1. Waiting' = Waiting \ {t} /\ failed' = failed \ {t}
      BY <2>2 DEF Finish, Waiting, MatchInv, Shape
    <3>2. Open' = {}
      BY <2>1, <3>1 DEF Open
    <3> QED
      BY <2>2, <3>2
  <2>3. CASE UNCHANGED <<guiVars, failed>> /\ headless' = t /\ part' = [part EXCEPT ![t] = TRUE]
    <3>1. Open' = {t} /\ part'[t]
      BY <2>1, <2>3 DEF Open, Waiting, guiVars
    <3> QED
      BY <2>3, <3>1
  <2> QED
    BY <1>1, <1>7, <2>2, <2>3, CalmChunk
<1> QED
  BY <1>2, <1>4, <1>5, <1>6, <1>7 DEF Heads
LEMMA AppendedIsThere ==
    ASSUME NEW S, NEW s \in Seq(S), NEW a
    PROVE  Append(s, a) # <<>>
<1>1. s \in Seq(S \cup {a})
  OBVIOUS
<1>2. Len(Append(s, a)) = Len(s) + 1 /\ Len(s) \in Nat
  BY <1>1
<1>3. Len(<<>>) = 0
  OBVIOUS
<1> QED
  BY <1>2, <1>3

LEMMA WindowKeepsHeads ==
    ASSUME Shape, Shape', Heads, Window
    PROVE  Heads'
<1>1. CASE \E id \in Changes, d \in Drivers : Click(id, d)
  BY <1>1, SendKeepsHeads DEF Click, Threads
<1>2. CASE \E r \in Refreshers : ClickRefresh(r)
  <2>1. /\ UNCHANGED <<command, part, headless, failed, trouble, link, wire>>
    BY <1>2 DEF ClickRefresh, linkVars
  <2>2. Waiting' = Waiting /\ Idle' = Idle
    BY <2>1 DEF Waiting, Idle
  <2> QED
    BY <2>1, <2>2, QuietKeepsHeads
<1>3. CASE Connect
  <2>1. /\ UNCHANGED <<command, part, headless, failed, wire>>
        /\ link' = "open"
        /\ trouble' = IF Waiting \subseteq failed THEN trouble ELSE trouble \cup {"mixed"}
    BY <1>3 DEF Connect, guiVars
  <2>2. Waiting' = Waiting /\ Open' = Open
    BY <2>1 DEF Waiting, Open
  <2>3. ASSUME Calm(trouble)' PROVE Open = {} /\ headless' \in Open' \cup {None}
    BY <2>1, <2>2, <2>3 DEF Calm, Heads, Open
  <2> QED
    BY <2>1, <2>2, <2>3 DEF Heads
<1>4. CASE Disconnect
  <2>1. /\ UNCHANGED <<command, part>> /\ headless' = None /\ command["ui"] = None
        /\ link' = "none"
    BY <1>4 DEF Disconnect, guiVars, Idle
  <2>2. PICK inRecv \in SUBSET Waiting : failed' = failed \cup inRecv
    BY <1>4 DEF Disconnect
  <2>3. Waiting' = Waiting /\ Idle' /\ "ui" \notin Waiting
    BY <2>1 DEF Waiting, Idle
  <2> QED
    BY <2>1, <2>2, <2>3 DEF Heads
<1>5. CASE Quit
  <2>1. /\ command' = [t \in Threads |-> None] /\ part' = [t \in Threads |-> FALSE]
        /\ failed' = {} /\ headless' = None
    BY <1>5 DEF Quit
  <2>2. /\ part' \in [Threads -> BOOLEAN]
        /\ \A t \in Threads : ~part'[t] /\ command'[t] = None
    BY <2>1
  <2>3. Open' = {} /\ Idle'
    BY <2>2 DEF Open, Waiting, Idle, Threads
  <2> QED
    BY <2>1, <2>2, <2>3 DEF Heads
<1> QED
  BY <1>1, <1>2, <1>3, <1>4, <1>5 DEF Window

LEMMA HeadsStep ==
    ASSUME MatchInv, MatchInv', Heads, [GuiNext]_vars
    PROVE  Heads'
<1>. Shape /\ Shape'
  BY DEF MatchInv
<1>1. CASE Poll
  BY <1>1, SendKeepsHeads DEF Poll, Threads, MatchInv
<1>2. ASSUME NEW r \in Refreshers, RefreshSends(r)
      PROVE  Heads'
  BY <1>2, SendKeepsHeads DEF RefreshSends, Threads, MatchInv
<1>3. ASSUME UNCHANGED <<command, part, headless, failed>>,
             trouble' \in {trouble, trouble \cup {"lost"}},
             link' # "none" \/ link' = link, link = "none" => link' = "none",
             wire' = wire \/ wire' # <<>>
      PROVE  Heads'
  <2>1. Waiting' = Waiting /\ Idle' = Idle
    BY <1>3 DEF Waiting, Idle
  <2> QED
    BY <1>3, <2>1, QuietKeepsHeads DEF MatchInv
<1>4. ASSUME NEW r \in Refreshers, RefreshClears(r) \/ RefreshNotConnected(r)
      PROVE  Heads'
  BY <1>3, <1>4 DEF RefreshClears, RefreshNotConnected, linkVars
<1>5. CASE Serve
  <2>1. /\ UNCHANGED <<command, part, headless, failed>> /\ link = "open"
        /\ \E a, unread : Reply(a, unread)
    BY <1>5 DEF Serve, guiVars
  <2>2. \A a : Append(wire, a) # <<>>
    BY AppendedIsThere DEF MatchInv, Shape
  <2> QED
    BY <1>3, <2>1, <2>2 DEF Reply
<1>6. CASE Capture \/ ServeLate \/ BrokerCloses \/ UNCHANGED vars
  BY <1>3, <1>6, Zenon DEF Capture, ServeLate, BrokerCloses, guiVars, linkVars, vars
<1>7. CASE BrokerEnds
  <2>1. /\ UNCHANGED <<command, part, headless, failed, wire>>
        /\ link' = IF link = "open" THEN "lost" ELSE link
        /\ trouble' = IF queue = <<>> THEN trouble ELSE trouble \cup {"lost"}
    BY <1>7 DEF BrokerEnds, guiVars
  <2> QED
    BY <1>3, <2>1
<1>8. CASE Window
  BY <1>8, WindowKeepsHeads DEF MatchInv
<1>9. ASSUME NEW t \in Threads, GiveUp(t) \/ Receive(t)
      PROVE  Heads'
  BY <1>9, GiveUpKeepsHeads, ReceiveKeepsHeads DEF MatchInv
<1> QED
  BY <1>1, <1>2, <1>4, <1>5, <1>6, <1>8, <1>9, <1>7 DEF GuiNext, Running, Refresh
-----------------------------------------------------------------------------
(* The captured IRPs, which never have trouble, are all there.              *)
OnWire == IF wire = <<>> THEN <<>> ELSE wire[1].irps
AllIrps == [i \in 1 .. last |-> i]

Conserved ==
    trouble = {} /\ gui = "running" => captured \o (OnWire \o queue) = AllIrps

LEMMA Regroup ==
    ASSUME NEW s \in Seq(Irps), NEW r \in Seq(Irps), NEW q \in Seq(Irps)
    PROVE  (s \o r) \o q = s \o (r \o q)
BY ConcatAssociative

LEMMA AppendBehind ==
    ASSUME NEW s \in Seq(Irps), NEW r \in Seq(Irps), NEW i \in Irps
    PROVE  s \o Append(r, i) = Append(s \o r, i)
<1>1. <<i>> \in Seq(Irps)
  OBVIOUS
<1>2. PICK e \in Seq(Irps) : e = <<i>>
  BY <1>1, Zenon
<1>3. Append(r, i) = r \o e
  BY <1>2, AppendIsConcat
<1>4. PICK u \in Seq(Irps) : u = s \o r
  BY ConcatProperties
<1>5. Append(u, i) = u \o e
  BY <1>2, AppendIsConcat
<1>6. (s \o r) \o e = s \o (r \o e)
  BY Regroup
<1> QED
  BY <1>3, <1>4, <1>5, <1>6, Zenon

LEMMA ConcatNothing ==
    ASSUME NEW s \in Seq(Irps)
    PROVE  s \o <<>> = s /\ <<>> \o s = s
BY ConcatEmptySeq

LEMMA OnWireTyped ==
    ASSUME wire \in Seq(Answers)
    PROVE  OnWire \in Seq(Irps)
<1>1. wire # <<>> => wire[1] \in Answers
  BY NotEmpty
<1>2. wire # <<>> => wire[1].irps \in Seq(Irps)
  BY <1>1 DEF Answers
<1> QED
  BY <1>2, EmptySeq DEF OnWire

(* A thread takes the IRPs off the wire only to show them.                  *)
LEMMA ReceiveConserves ==
    ASSUME MatchInv, Heads, captured \in Seq(Irps), NEW t \in Threads, Receive(t),
           Calm(trouble)'
    PROVE  captured' \o (OnWire \o queue)' = captured \o (OnWire \o queue)
<1>1. PICK n \in 0 .. Len(wire), more, full, brace \in BOOLEAN :
         Chunk(t, n, more, full, brace)
  BY ReceivesChunk
<1>2. /\ queue' = queue /\ queue \in Seq(Irps) /\ command[t] # None
      /\ command[t] \in Commands /\ command[t].by = t
      /\ wire \in Seq(Answers)
  BY DEF Receive, brokerVars, MatchInv, Shape
<1>3. /\ Len(wire) = 1 /\ wire[1].to = command[t] /\ wire # <<>>
      /\ wire[1] \in Answers /\ Plain(wire[1])
  BY <1>1, <1>2, CalmChunk DEF MatchInv, Shape
<1>4. CASE Finish(t, wire[1]) /\ wire' = <<>>
  <2>1. captured' = captured \o wire[1].irps
    <3>1. wire[1].irps \in Seq(Irps)
      BY <1>3 DEF Answers
    <3>2. CASE wire[1].irps = <<>>
      <4>1. ~HasIrps(wire[1])
        BY <3>2 DEF HasIrps
      <4>2. captured' = captured
        BY <1>4, <4>1 DEF Finish, UiFinish, PollerFinish, RefresherFinish
      <4> QED
        BY <3>2, <4>2, ConcatNothing
    <3>3. CASE wire[1].irps # <<>>
      <4>1. wire[1].to.id = "pending" /\ wire[1].success /\ wire[1].to # None
        BY <1>3, <3>3 DEF Plain
      <4>2. t = "poller"
        BY <1>2, <1>3, <4>1 DEF Commands, Enumerations, Changes
      <4>3. HasIrps(wire[1]) /\ Accepted(wire[1])
        BY <1>3, <3>1, <3>3, <4>1, NotEmpty, NoneIsNeither DEF HasIrps, Accepted, Good
      <4> QED
        BY <1>4, <4>2, <4>3 DEF Finish, PollerFinish, PushedBack
    <3> QED
      BY <3>2, <3>3
  <2>2. OnWire = wire[1].irps /\ OnWire' = <<>> /\ wire[1].irps \in Seq(Irps)
    BY <1>3, <1>4 DEF OnWire, Answers
  <2>3. (OnWire \o queue)' = queue
    BY <1>2, <2>2, ConcatNothing
  <2>4. (captured \o wire[1].irps) \o queue = captured \o (wire[1].irps \o queue)
    BY <1>2, <2>2, Regroup
  <2> QED
    BY <2>1, <2>2, <2>3, <2>4
<1>5. CASE UNCHANGED <<guiVars, failed, wire>>
  BY <1>2, <1>5 DEF OnWire, guiVars
<1> QED
  BY <1>1, <1>4, <1>5, CalmChunk
(* A request for the pending ones moves them from the queue to an answer.   *)
LEMMA ServeConserves ==
    ASSUME MatchInv, MatchInv', Serve, Calm(trouble)', "lost" \notin trouble'
    PROVE  captured' \o (OnWire \o queue)' = captured \o (OnWire \o queue)
<1>1. PICK a : /\ wire' = Append(wire, a)
               /\ \/ a.irps = queue /\ queue' = <<>>
                  \/ a.irps = <<>> /\ queue' = queue
  BY ServeData
<1>2. captured' = captured /\ queue \in Seq(Irps) /\ wire \in Seq(Answers)
      /\ wire' \in Seq(Answers) /\ sent' \in Seq(Commands)
  BY ServeData DEF MatchInv, Shape
<1>3. OneAtATime'
  BY DEF MatchInv
<1>4. wire = <<>>
  <2>1. wire' # <<>>
    BY <1>1, <1>2, AppendedIsThere
  <2>2. Len(wire') \in Nat /\ Len(wire') > 0 /\ Len(wire') + Len(sent') <= 1
    BY <1>2, <1>3, <2>1, NotEmpty DEF OneAtATime
  <2>3. Len(wire') = 1
    BY <1>2, <2>2, OnlyOne
  <2>4. wire \in Seq(Answers \cup {a})
    BY <1>2
  <2>5. Len(wire') = Len(wire) + 1 /\ Len(wire) \in Nat
    BY <1>1, <2>4
  <2>6. Len(wire) = 0
    BY <2>3, <2>5
  <2> QED
    BY <1>2, <2>6, EmptySeq
<1>5. wire' = <<a>> /\ wire'[1] = a /\ wire' # <<>>
  BY <1>1, <1>4
<1>6. OnWire = <<>> /\ OnWire' = a.irps
  BY <1>4, <1>5 DEF OnWire
<1>7. (OnWire \o queue)' = queue
  BY <1>1, <1>2, <1>6, ConcatNothing
<1>8. OnWire \o queue = queue
  BY <1>2, <1>6, ConcatNothing
<1> QED
  BY <1>2, <1>7, <1>8

LEMMA CaptureConserves ==
    ASSUME Shape, captured \in Seq(Irps), Capture,
           captured \o (OnWire \o queue) = AllIrps
    PROVE  captured' \o (OnWire \o queue)' = AllIrps'
<1>1. /\ queue' = Append(queue, last + 1) /\ last' = last + 1
      /\ UNCHANGED <<captured, wire>> /\ last < MaxIrps
      /\ queue \in Seq(Irps) /\ last \in 0 .. MaxIrps /\ wire \in Seq(Answers)
  BY DEF Capture, Shape, guiVars, linkVars
<1>2. PICK i : i = last + 1
  OBVIOUS
<1>3. i \in Irps
  BY <1>1, <1>2, GuiAssumption DEF Irps
<1>4. PICK w \in Seq(Irps) : w = OnWire
  BY <1>1, OnWireTyped
<1>5. OnWire' = w
  BY <1>1, <1>4 DEF OnWire
<1>6. w \o Append(queue, i) = Append(w \o queue, i)
  BY <1>1, <1>3, <1>4, AppendBehind
<1>10. w \o queue \in Seq(Irps)
  BY <1>1, <1>4
<1>7. captured \o Append(w \o queue, i) = Append(captured \o (w \o queue), i)
  BY <1>1, <1>3, <1>10, AppendBehind
<1>8. Append(AllIrps, i) = AllIrps'
  BY <1>1, <1>2, GuiAssumption DEF AllIrps
<1> QED
  BY <1>1, <1>2, <1>4, <1>5, <1>6, <1>7, <1>8

LEMMA TroubleStays ==
    ASSUME [GuiNext]_vars
    PROVE  /\ trouble \subseteq trouble'
           /\ gui' = "running" => gui = "running"
<1> DEFINE Grows == \E what : trouble' = trouble \cup what
<1> SUFFICES Grows
  <2>1. gui' = "running" => gui = "running"
    BY DEF GuiNext, Running, vars, guiVars
  <2> QED
    BY <2>1
<1>0. trouble' = trouble => Grows
  <2>1. trouble = trouble \cup {}
    OBVIOUS
  <2> QED
    BY <2>1
<1>1. ASSUME NEW t, NEW id, NEW d, Send(t, id, d)
      PROVE  Grows
  <2>1. trouble' = trouble \/ trouble' = trouble \cup {"mixed"}
    BY <1>1, Zenon DEF Send
  <2> QED
    BY <1>0, <2>1
<1>2. ASSUME NEW t \in Threads, Receive(t)
      PROVE  Grows
  <2>1. PICK n \in 0 .. Len(wire), more, full, brace \in BOOLEAN :
           Chunk(t, n, more, full, brace)
    BY <1>2, ReceivesChunk
  <2>2. \E x, y : trouble' = (trouble \cup x) \cup y
    BY <2>1, Zenon DEF Chunk
  <2>3. PICK x, y : trouble' = (trouble \cup x) \cup y
    BY <2>2
  <2>4. trouble' = trouble \cup (x \cup y)
    BY <2>3
  <2> QED
    BY <2>4
<1>3. ASSUME NEW t \in Threads, GiveUp(t)
      PROVE  Grows
  <2>1. trouble' = trouble
    BY <1>3, Zenon DEF GiveUp
  <2> QED
    BY <1>0, <2>1
<1>4. CASE Poll \/ \E r \in Refreshers : Refresh(r)
  <2>1. CASE Poll
    BY <1>1, <2>1, Zenon DEF Poll
  <2>2. ASSUME NEW r \in Refreshers, Refresh(r)
        PROVE  Grows
    <3>1. CASE RefreshSends(r)
      BY <1>1, <3>1, Zenon DEF RefreshSends
    <3>2. CASE RefreshClears(r) \/ RefreshNotConnected(r)
      BY <1>0, <3>2, Zenon DEF RefreshClears, RefreshNotConnected
    <3> QED
      BY <2>2, <3>1, <3>2 DEF Refresh
  <2> QED
    BY <1>4, <2>1, <2>2
<1>5. CASE Window
  <2>1. ASSUME NEW id, NEW d, Click(id, d)
        PROVE  Grows
    BY <1>1, <2>1, Zenon DEF Click
  <2>2. ASSUME NEW r, ClickRefresh(r)
        PROVE  Grows
    BY <1>0, <2>2, Zenon DEF ClickRefresh
  <2>3. CASE Connect
    <3>1. trouble' = trouble \/ trouble' = trouble \cup {"mixed"}
      BY <2>3, Zenon DEF Connect
    <3> QED
      BY <1>0, <3>1
  <2>4. CASE Disconnect
    <3>1. trouble' = trouble \/ trouble' = trouble \cup {"lost"}
      BY <2>4, Zenon DEF Disconnect
    <3> QED
      BY <1>0, <3>1
  <2>5. CASE Quit
    BY <1>0, <2>5, Zenon DEF Quit
  <2> HIDE DEF Grows
  <2> QED
    BY <1>5, <2>1, <2>2, <2>3, <2>4, <2>5 DEF Window
<1>6. CASE Serve
  <2>1. \E a, unread : Reply(a, unread)
    BY <1>6, Zenon DEF Serve
  <2>2. trouble' = trouble \/ trouble' = trouble \cup {"lost"}
    BY <2>1, Zenon DEF Reply
  <2> QED
    BY <1>0, <2>2
<1>7. CASE Capture \/ ServeLate \/ BrokerCloses \/ UNCHANGED vars
  BY <1>0, <1>7, Zenon DEF Capture, ServeLate, BrokerCloses, vars
<1>8. CASE BrokerEnds
  <2>1. trouble' = trouble \/ trouble' = trouble \cup {"lost"}
    BY <1>8, Zenon DEF BrokerEnds
  <2> QED
    BY <1>0, <2>1
<1>9. Grows
  <2> HIDE DEF Grows
  <2> QED
    BY <1>2, <1>3, <1>4, <1>5, <1>6, <1>7, <1>8 DEF GuiNext, Running
<1> QED
  BY <1>9

(* What the broker does after the end of its client leaves nobody unaware:  *)
(* an answer was lost.                                                      *)
Left ==
    /\ late \in Commands \cup {None}
    /\ outdated \in BOOLEAN
    /\ late # None => "lost" \in trouble

LEMMA LeftInit == GuiInit => Left
<1>1. GuiInit => late = None /\ outdated = FALSE
  BY Zenon DEF GuiInit
<1> QED
  BY <1>1 DEF Left

LEMMA LeftStep ==
    ASSUME Shape, Left, [GuiNext]_vars
    PROVE  Left'
<1>1. trouble \subseteq trouble'
  BY TroubleStays
<1>2. CASE UNCHANGED <<late, outdated>>
  BY <1>1, <1>2 DEF Left
<1>3. ASSUME NEW t, NEW id, NEW d, Send(t, id, d)
      PROVE  Left'
  BY <1>2, <1>3, Zenon DEF Send, brokerVars
<1>4. CASE Poll \/ \E r \in Refreshers : RefreshSends(r)
  BY <1>3, <1>4 DEF Poll, RefreshSends
<1>5. ASSUME NEW t \in Threads, Receive(t) \/ GiveUp(t)
      PROVE  Left'
  BY <1>2, <1>5, Zenon DEF Receive, GiveUp, brokerVars
<1>6. ASSUME NEW r \in Refreshers, RefreshClears(r)
      PROVE  Left'
  <2>1. late' = late /\ outdated' = (outdated /\ ~Idle)
    BY <1>6, Zenon DEF RefreshClears
  <2>2. outdated' \in BOOLEAN
    BY <2>1, Zenon
  <2> QED
    BY <1>1, <2>1, <2>2 DEF Left
<1>7. ASSUME NEW r \in Refreshers, RefreshNotConnected(r) \/ ClickRefresh(r)
      PROVE  Left'
  BY <1>2, <1>7, Zenon DEF RefreshNotConnected, ClickRefresh, brokerVars
<1>8. ASSUME NEW id, NEW d, Click(id, d)
      PROVE  Left'
  BY <1>3, <1>8 DEF Click
<1>9. CASE Disconnect
  <2>1. /\ late' \in {None} \cup Range(sent) /\ outdated' = outdated
        /\ late' # None => trouble' = trouble \cup {"lost"}
    BY <1>9 DEF Disconnect
  <2>2. Range(sent) \subseteq Commands
    BY DEF Shape, Range
  <2> QED
    BY <2>1, <2>2 DEF Left
<1>10. CASE Serve
  BY <1>2, <1>10, Zenon DEF Serve, ExecuteCommand, brokerVars
<1>11. CASE ServeLate \/ BrokerEnds
  <2>1. late' = None
    BY <1>11, Zenon DEF ServeLate, BrokerEnds
  <2>2. outdated' \in BOOLEAN
    <3>1. CASE ServeLate
      BY <3>1, Zenon DEF ServeLate, ExecuteCommand, Left
    <3>2. CASE BrokerEnds
      BY <3>2, Zenon DEF BrokerEnds
    <3> QED
      BY <1>11, <3>1, <3>2
  <2> QED
    BY <2>1, <2>2 DEF Left
<1>12. CASE Connect \/ Quit \/ Capture \/ BrokerCloses \/ UNCHANGED vars
  BY <1>2, <1>12, Zenon DEF Connect, Quit, Capture, BrokerCloses, vars, brokerVars
<1> QED
  BY <1>4, <1>5, <1>6, <1>7, <1>8, <1>9, <1>10, <1>11, <1>12
     DEF GuiNext, Running, Refresh, Window

LEMMA ConservedStep ==
    ASSUME MatchInv, MatchInv', Heads, InOrder, Left, Conserved, [GuiNext]_vars
    PROVE  Conserved'
<1> SUFFICES ASSUME trouble' = {}, gui' = "running"
             PROVE  captured' \o (OnWire \o queue)' = AllIrps'
  BY DEF Conserved
<1>1. trouble = {} /\ gui = "running" /\ Calm(trouble')
  BY TroubleStays DEF Calm
<1>2. /\ captured \o (OnWire \o queue) = AllIrps
      /\ captured \in Seq(Irps) /\ queue \in Seq(Irps) /\ wire \in Seq(Answers)
  BY <1>1 DEF Conserved, InOrder, MatchInv, Shape
<1>3. CASE UNCHANGED <<captured, wire, queue, last>>
  BY <1>2, <1>3 DEF OnWire, AllIrps
<1>4. ASSUME NEW t \in Threads, Receive(t)
      PROVE  captured' \o (OnWire \o queue)' = AllIrps'
  BY <1>1, <1>2, <1>4, ReceiveConserves, ReceiveData DEF MatchInv, AllIrps
<1>5. CASE Serve
  BY <1>1, <1>2, <1>5, ServeConserves, ServeData DEF AllIrps
<1>6. CASE Capture
  BY <1>2, <1>6, CaptureConserves DEF MatchInv
<1>7. CASE Disconnect
  <2>1. /\ wire' = <<>> /\ UNCHANGED <<captured, queue, last>>
        /\ \A i \in 1 .. Len(wire) : wire[i].irps = <<>>
    BY <1>1, <1>7 DEF Disconnect, AfterClose, guiVars, brokerVars
  <2>2. OnWire = <<>>
    <3>1. wire # <<>> => 1 \in 1 .. Len(wire)
      BY <1>2, NotEmpty
    <3> QED
      BY <2>1, <3>1 DEF OnWire
  <2>3. OnWire' = <<>>
    BY <2>1 DEF OnWire
  <2> QED
    BY <1>2, <2>1, <2>2, <2>3 DEF AllIrps
<1>8. CASE Quit
  BY <1>8 DEF Quit
<1>9. ~ServeLate
  BY <1>1 DEF ServeLate, Left
<1>10. CASE BrokerEnds
  <2>1. queue' = queue /\ UNCHANGED <<captured, wire, last>>
    BY <1>1, <1>10 DEF BrokerEnds, guiVars
  <2> QED
    BY <1>3, <2>1
<1> QED
  BY <1>3, <1>4, <1>5, <1>6, <1>7, <1>8, <1>9, <1>10, OnlyTheseMoveIrps

LEMMA ConservedInit == GuiInit => Conserved
<1> SUFFICES ASSUME GuiInit PROVE Conserved
  OBVIOUS
<1>1. captured = <<>> /\ wire = <<>> /\ queue = <<>> /\ last = 0
  BY Zenon DEF GuiInit
<1>2. OnWire = <<>> /\ AllIrps = <<>>
  BY <1>1 DEF OnWire, AllIrps
<1>3. captured \o (OnWire \o queue) = <<>>
  BY <1>1, <1>2, ConcatNothing
<1> QED
  BY <1>2, <1>3 DEF Conserved

(* The answers on the wire, one behind the other.                           *)
LEMMA FlattenOne ==
    ASSUME NEW s
    PROVE  FlattenSeq([i \in 1 .. 1 |-> s]) = s
<1> DEFINE ss == [i \in 1 .. 1 |-> s]
           Next(f) == [i \in 1 .. 1 |-> IF i = 1 THEN ss[i] ELSE f[i - 1] \o ss[i]]
           flatten == CHOOSE f : f = Next(f)
<1>1. Len(ss) = 1
  OBVIOUS
<1>2. ss = Next(ss)
  OBVIOUS
<1>3. flatten = Next(flatten)
  <2> HIDE DEF Next
  <2> QED
    BY <1>2
<1>4. flatten[1] = s
  <2> HIDE DEF flatten
  <2> QED
    BY <1>3
<1>5. FlattenSeq(ss) = flatten[1]
  BY <1>1 DEF FlattenSeq
<1> QED
  BY <1>4, <1>5

LEMMA FlattenWire ==
    ASSUME wire \in Seq(Answers), Len(wire) <= 1
    PROVE  FlattenSeq([i \in 1 .. Len(wire) |-> wire[i].irps]) = OnWire
<1>1. CASE wire = <<>>
  <2>1. [i \in 1 .. Len(wire) |-> wire[i].irps] = <<>>
    BY <1>1
  <2>2. FlattenSeq(<<>>) = <<>>
    BY DEF FlattenSeq
  <2> QED
    BY <1>1, <2>1, <2>2 DEF OnWire
<1>2. CASE wire # <<>>
  <2>0. Len(wire) \in Nat /\ Len(wire) > 0
    BY <1>2, NotEmpty
  <2>1. Len(wire) = 1
    <3>1. ASSUME NEW k \in Nat, k > 0, k <= 1
          PROVE  k = 1
      BY <3>1
    <3> QED
      BY <2>0, <3>1, Zenon
  <2> DEFINE s == wire[1].irps
  <2>2. [i \in 1 .. Len(wire) |-> wire[i].irps] = [i \in 1 .. 1 |-> s]
    BY <2>1
  <2>3. FlattenSeq([i \in 1 .. 1 |-> s]) = s
    BY FlattenOne
  <2> QED
    BY <1>2, <2>2, <2>3 DEF OnWire
<1> QED
  BY <1>1, <1>2

-----------------------------------------------------------------------------
(* What is shown of the drivers, and what they are.                         *)
FlagPairs == [hooked : BOOLEAN, monitored : BOOLEAN]

Flagged ==
    /\ \E listed \in SUBSET Drivers : shown \in [listed -> FlagPairs]
    /\ hook \in [Drivers -> {"no", "hooked", "monitored"}]

(* The answer on the wire says that the window's command was done.          *)
UiCommand(id, d) == [by |-> "ui", id |-> id, driver |-> d]
Done(id, d) == wire # <<>> /\ wire[1].success /\ wire[1].to = UiCommand(id, d)

(* The window is behind the driver only by the answer on the wire, unless   *)
(* it shows a broker that has ended.                                        *)
Hooks ==
    trouble = {} /\ ~outdated =>
        /\ \A d \in DOMAIN shown :
              shown[d].hooked /\ hook[d] = "no" => Done("unhook", d)
        /\ \A d \in Drivers : Done("hook", d) => hook[d] # "no"

LEMMA FlaggedInit == GuiInit => Flagged /\ Hooks
<1> SUFFICES ASSUME GuiInit PROVE Flagged /\ Hooks
  OBVIOUS
<1>1. /\ shown = [d \in {} |-> [hooked |-> FALSE, monitored |-> FALSE]]
      /\ hook = [d \in Drivers |-> "no"] /\ wire = <<>>
  BY Zenon DEF GuiInit
<1>2. shown \in [{} -> FlagPairs] /\ DOMAIN shown = {}
  BY <1>1
<1>3. hook \in [Drivers -> {"no", "hooked", "monitored"}]
  BY <1>1
<1> QED
  BY <1>1, <1>2, <1>3 DEF Flagged, Hooks, Done

LEMMA FlagsOf ==
    ASSUME Flagged, NEW d
    PROVE  /\ Flags(d) \in FlagPairs
           /\ Flags(d).hooked => d \in DOMAIN shown /\ shown[d].hooked
<1>1. CASE d \in DOMAIN shown
  BY <1>1 DEF Flags, Flagged
<1>2. CASE d \notin DOMAIN shown
  BY <1>2 DEF Flags, FlagPairs
<1> QED
  BY <1>1, <1>2

(* The command that the window waits for.                                   *)
LEMMA UiWaitsFor ==
    ASSUME Shape, command["ui"] # None
    PROVE  /\ command["ui"].id \in Changes /\ command["ui"].driver \in Drivers
           /\ command["ui"] = UiCommand(command["ui"].id, command["ui"].driver)
<1>1. command["ui"] \in Commands /\ command["ui"].by = "ui"
  BY DEF Shape, Threads
<1>2. command["ui"] \in [by : {"ui"}, id : Changes, driver : Drivers]
  BY <1>1, GuiAssumption DEF Commands
<1> QED
  BY <1>2 DEF UiCommand

(* What an answer, of whatever kind, makes of what is shown: only a hook    *)
(* that was done shows as hooked what did not, and what was unhooked does   *)
(* not stay so.                                                             *)
ShownAfter(t, a) ==
    /\ \E listed \in SUBSET Drivers : shown' \in [listed -> FlagPairs]
    /\ \A d \in DOMAIN shown' : shown'[d].hooked =>
          \/ /\ d \in DOMAIN shown /\ shown[d].hooked
             /\ t = "ui" /\ Accepted(a) => command["ui"] # UiCommand("unhook", d)
          \/ t = "ui" /\ Accepted(a) /\ command["ui"] = UiCommand("hook", d)

LEMMA UiShows ==
    ASSUME Shape, Flagged, NEW a, UiFinish(a), command["ui"] # None
    PROVE  ShownAfter("ui", a)
<1>1. CASE ~Accepted(a)
  <2>1. shown' = shown
    BY <1>1 DEF UiFinish
  <2> QED
    BY <1>1, <2>1 DEF Flagged, ShownAfter
<1>2. CASE Accepted(a)
  <2> DEFINE c == command["ui"]
             old == Flags(c.driver)
             flags == CASE c.id = "hook" -> [old EXCEPT !.hooked = TRUE]
                        [] c.id = "unhook" -> [old EXCEPT !.hooked = FALSE]
                        [] c.id = "monitor" -> [old EXCEPT !.monitored = TRUE]
                        [] c.id = "unmonitor" -> [old EXCEPT !.monitored = FALSE]
  <2>1. shown' = Set(c.driver, flags)
    BY <1>2 DEF UiFinish
  <2>2. c.id \in Changes /\ c.driver \in Drivers /\ c = UiCommand(c.id, c.driver)
    BY UiWaitsFor
  <2>3. PICK u : u = c.driver
    OBVIOUS
  <2>4. PICK o : o = old
    OBVIOUS
  <2>5. o \in FlagPairs /\ (o.hooked => u \in DOMAIN shown /\ shown[u].hooked)
    BY <2>3, <2>4, FlagsOf
  <2>6. PICK f : f = flags
    OBVIOUS
  <2>7. /\ f \in FlagPairs
        /\ c.id = "unhook" => ~f.hooked
        /\ f.hooked => c.id = "hook" \/ o.hooked
    <3>1. \/ c.id = "hook" /\ f = [o EXCEPT !.hooked = TRUE]
          \/ c.id = "unhook" /\ f = [o EXCEPT !.hooked = FALSE]
          \/ c.id = "monitor" /\ f = [o EXCEPT !.monitored = TRUE]
          \/ c.id = "unmonitor" /\ f = [o EXCEPT !.monitored = FALSE]
      BY <2>2, <2>4, <2>6 DEF Changes
    <3> HIDE DEF c, old, flags
    <3> QED
      BY <2>5, <3>1 DEF FlagPairs
  <2>8. shown' = [x \in DOMAIN shown \cup {u} |-> IF x = u THEN f ELSE Flags(x)]
    BY <2>1, <2>3, <2>6 DEF Set
  <2> HIDE DEF c, old, flags
  <2>9. DOMAIN shown \cup {u} \in SUBSET Drivers
    BY <2>2, <2>3 DEF Flagged
  <2>10. shown' \in [DOMAIN shown \cup {u} -> FlagPairs]
    BY <2>7, <2>8, FlagsOf
  <2>11. ASSUME NEW d \in DOMAIN shown', shown'[d].hooked
         PROVE  \/ /\ d \in DOMAIN shown /\ shown[d].hooked
                   /\ command["ui"] # UiCommand("unhook", d)
                \/ command["ui"] = UiCommand("hook", d)
    <3>1. CASE d = u
      <4>1. f.hooked /\ c.id # "unhook"
        BY <2>7, <2>8, <2>11, <3>1
      <4>2. c # UiCommand("unhook", d)
        BY <4>1 DEF UiCommand
      <4> QED
        BY <2>2, <2>3, <2>5, <2>7, <3>1, <4>1, <4>2 DEF c
    <3>2. CASE d # u
      <4>1. Flags(d).hooked
        BY <2>8, <2>11, <3>2
      <4>2. c # UiCommand("unhook", d)
        BY <2>3, <3>2 DEF UiCommand
      <4> QED
        BY <4>1, <4>2, FlagsOf DEF c
    <3> QED
      BY <3>1, <3>2
  <2> QED
    BY <1>2, <2>9, <2>10, <2>11 DEF ShownAfter
<1> QED
  BY <1>1, <1>2

LEMMA FinishShows ==
    ASSUME Shape, Flagged, NEW t \in Threads, NEW a, Finish(t, a), command[t] # None
    PROVE  ShownAfter(t, a)
<1>1. CASE t = "ui"
  BY <1>1, UiShows DEF Finish
<1>2. CASE t = "poller"
  <2>1. shown' = shown
    BY <1>2 DEF Finish, PollerFinish
  <2> QED
    BY <1>2, <2>1 DEF Flagged, ShownAfter
<1>3. CASE t \notin {"ui", "poller"}
  <2>1. RefresherFinish(t, a)
    BY <1>3 DEF Finish
  <2>2. CASE Good(a)
    <3>1. PICK L : L = Listed(a)
      OBVIOUS
    <3>2. L \subseteq Drivers
      BY <3>1, GuiAssumption DEF Listed
    <3>3. shown' = [d \in DOMAIN shown \cup L |-> Flags(d)]
      BY <2>1, <2>2, <3>1 DEF RefresherFinish
    <3>4. DOMAIN shown \cup L \in SUBSET Drivers
      BY <3>2 DEF Flagged
    <3>5. shown' \in [DOMAIN shown \cup L -> FlagPairs]
      BY <3>3, FlagsOf
    <3>6. \A d \in DOMAIN shown' : shown'[d].hooked => d \in DOMAIN shown /\ shown[d].hooked
      BY <3>3, FlagsOf
    <3> QED
      BY <1>3, <3>4, <3>5, <3>6 DEF ShownAfter
  <2>3. CASE ~Good(a)
    <3>1. shown' = shown
      BY <2>1, <2>3 DEF RefresherFinish
    <3> QED
      BY <1>3, <3>1 DEF Flagged, ShownAfter
  <2> QED
    BY <2>2, <2>3
<1> QED
  BY <1>1, <1>2, <1>3

(* Steps that neither show nor answer anything.                             *)
LEMMA QuietKeepsHooks ==
    ASSUME Flagged, Hooks, hook' = hook, outdated' = outdated,
           trouble \subseteq trouble',
           shown' = shown \/ shown' = [d \in {} |-> Flags(d)],
           wire' = wire \/ (wire' = <<>> /\ \A d : trouble = {} => ~Done("unhook", d))
    PROVE  Flagged' /\ Hooks'
<1>1. Flagged'
  BY DEF Flagged
<1>2. ASSUME trouble' = {}, ~outdated'
      PROVE  /\ \A d \in DOMAIN shown' :
                   shown'[d].hooked /\ hook'[d] = "no" => Done("unhook", d)'
             /\ \A d \in Drivers : Done("hook", d)' => hook'[d] # "no"
  <2>1. trouble = {} /\ ~outdated
    BY <1>2
  <2>2. \A d \in DOMAIN shown' : d \in DOMAIN shown /\ shown'[d] = shown[d]
    OBVIOUS
  <2>3. CASE wire' = wire
    <3>1. \A id, d : Done(id, d)' = Done(id, d)
      BY <2>3 DEF Done
    <3> QED
      BY <2>1, <2>2, <3>1 DEF Hooks
  <2>4. CASE wire' = <<>> /\ \A d : ~Done("unhook", d)
    <3>1. \A id, d : ~Done(id, d)'
      BY <2>4 DEF Done
    <3> QED
      BY <2>1, <2>2, <2>4, <3>1 DEF Hooks
  <2> QED
    BY <2>1, <2>3, <2>4
<1> QED
  BY <1>1, <1>2 DEF Hooks

(* The window waits for the answer to the command that it says was done.    *)
LEMMA DoneIsAwaited ==
    ASSUME MatchInv, Calm(trouble), NEW id, NEW d, Done(id, d)
    PROVE  "ui" \in Open /\ command["ui"] = UiCommand(id, d)
<1>1. wire \in Seq(Answers) /\ wire # <<>> /\ wire[1].to = UiCommand(id, d)
  BY DEF MatchInv, Shape, Done
<1>2. 1 \in 1 .. Len(wire)
  BY <1>1, NotEmpty
<1>3. PICK t \in Open : wire[1].to = command[t]
  BY <1>2 DEF MatchInv, OneAtATime
<1>4. t \in Threads /\ command[t] # None /\ command[t].by = t
  BY <1>3 DEF Open, Waiting, MatchInv, Shape
<1> QED
  BY <1>1, <1>3, <1>4 DEF UiCommand

LEMMA ReceiveKeepsHooks ==
    ASSUME MatchInv, Heads, Flagged, Hooks, NEW t \in Threads, Receive(t)
    PROVE  Flagged' /\ Hooks'
<1>1. PICK n \in 0 .. Len(wire), more, full, brace \in BOOLEAN :
         Chunk(t, n, more, full, brace)
  BY ReceivesChunk
<1>2. hook' = hook /\ outdated' = outdated /\ command[t] # None /\ Shape
  BY DEF Receive, brokerVars, MatchInv
<1>3. Flagged'
  <2>1. shown' = shown \/ \E a : Finish(t, a)
    BY <1>1 DEF Chunk, guiVars
  <2> QED
    BY <1>2, <2>1, FinishShows DEF Flagged, ShownAfter
<1>4. ASSUME trouble' = {}, ~outdated'
      PROVE  /\ \A d \in DOMAIN shown' :
                   shown'[d].hooked /\ hook'[d] = "no" => Done("unhook", d)'
             /\ \A d \in Drivers : Done("hook", d)' => hook'[d] # "no"
  <2>1. trouble = {} /\ ~outdated /\ Calm(trouble) /\ Calm(trouble')
    BY <1>1, <1>2, <1>4 DEF Chunk, Calm
  <2>2. CASE UNCHANGED <<guiVars, failed, wire>>
    <3>1. shown' = shown /\ wire' = wire
      BY <2>2 DEF guiVars
    <3>2. \A id, d : Done(id, d)' <=> Done(id, d)
      BY <3>1 DEF Done
    <3>3. /\ \A d \in DOMAIN shown :
                shown[d].hooked /\ hook[d] = "no" => Done("unhook", d)
          /\ \A d \in Drivers : Done("hook", d) => hook[d] # "no"
      BY <2>1 DEF Hooks
    <3> QED
      BY <1>2, <3>1, <3>2, <3>3
  <2>3. CASE Finish(t, wire[1]) /\ wire' = <<>>
    <3>1. wire[1].to = command[t] /\ wire # <<>>
      <4>1. wire # <<>>
        BY DEF Receive
      <4> QED
        BY <1>1, <2>1, <4>1, CalmChunk
    <3>2. ShownAfter(t, wire[1])
      BY <1>2, <2>3, FinishShows
    <3>3. \A id, d : ~Done(id, d)'
      BY <2>3 DEF Done
    <3>4. ASSUME NEW d \in DOMAIN shown', shown'[d].hooked
          PROVE  hook[d] # "no"
      <4>1. d \in Drivers
        BY <1>3 DEF Flagged
      <4>2. CASE t = "ui" /\ Accepted(wire[1]) /\ command["ui"] = UiCommand("hook", d)
        <5>1. Done("hook", d)
          BY <3>1, <4>2 DEF Done, Accepted
        <5> QED
          BY <2>1, <4>1, <5>1 DEF Hooks
      <4>3. CASE /\ d \in DOMAIN shown /\ shown[d].hooked
                 /\ t = "ui" /\ Accepted(wire[1]) => command["ui"] # UiCommand("unhook", d)
        <5>1. ASSUME Done("unhook", d)
              PROVE  FALSE
          <6>1. "ui" \in Open /\ command["ui"] = UiCommand("unhook", d)
            BY <2>1, <5>1, DoneIsAwaited
          <6>2. Open = {t}
            BY <1>1, <2>1, CalmChunk
          <6>3. t = "ui"
            BY <6>1, <6>2
          <6>4. command["ui"] # None /\ wire[1] \in Answers
            BY <1>2, <3>1, <6>3, NotEmpty DEF Shape
          <6>5. Accepted(wire[1])
            BY <3>1, <5>1, <6>3, <6>4, NoneIsNeither DEF Done, Accepted, Good
          <6> QED
            BY <4>3, <6>1, <6>3, <6>5
        <5> QED
          BY <2>1, <4>3, <5>1 DEF Hooks
      <4> QED
        BY <3>2, <3>4, <4>2, <4>3 DEF ShownAfter
    <3> QED
      BY <1>2, <3>3, <3>4
  <2> QED
    BY <1>1, <2>1, <2>2, <2>3, CalmChunk
<1> QED
  BY <1>3, <1>4 DEF Hooks

LEMMA ChangedTo ==
    ASSUME NEW c, c.id \in Changes
    PROVE  \E v \in {"no", "hooked", "monitored"} :
              /\ Changed(c) = [hook EXCEPT ![c.driver] = v]
              /\ v = "no" <=> c.id = "unhook"
<1>1. CASE c.id \in {"hook", "unmonitor"}
  BY <1>1 DEF Changed, Changes
<1>2. CASE c.id = "unhook"
  BY <1>2 DEF Changed, Changes
<1>3. CASE c.id = "monitor"
  BY <1>3 DEF Changed, Changes
<1> QED
  BY <1>1, <1>2, <1>3 DEF Changes

LEMMA ServeKeepsHooks ==
    ASSUME MatchInv, MatchInv', Flagged, Hooks, Serve
    PROVE  Flagged' /\ Hooks'
<1>1. /\ shown' = shown /\ link = "open" /\ sent # <<>>
      /\ \E x, unread : Reply(x, unread)
  BY DEF Serve, guiVars
<1>2. PICK n \in 1 .. Len(sent) :
         LET c == sent[1]
             unread == SubSeq(sent, n + 1, Len(sent))
             irps == IF c.id = "pending" THEN queue ELSE <<>>
         IN IF n = 1
            THEN \E success \in Outcomes(c) :
                    /\ ExecuteCommand(c, success)
                    /\ Reply([to |-> c, success |-> success, irps |-> irps], unread)
            ELSE /\ Reply([to |-> None, success |-> FALSE, irps |-> <<>>], unread)
                 /\ UNCHANGED brokerVars
  BY DEF Serve
<1>3. sent[1] \in Commands /\ Len(sent) \in Nat /\ Len(sent) > 0 /\ sent \in Seq(Commands)
      /\ wire \in Seq(Answers)
  BY <1>1, NotEmpty DEF MatchInv, Shape
<1>4. PICK c : c = sent[1]
  OBVIOUS
<1>5. /\ hook' = hook \/ (c.id \in Changes /\ hook' = Changed(c))
      /\ outdated' = outdated
  BY <1>2, <1>4 DEF ExecuteCommand, brokerVars
<1>6. c.id \in Changes => c.driver \in Drivers
  BY <1>3, <1>4, GuiAssumption DEF Commands, Changes, Enumerations
<1>7. Flagged'
  <2>1. \/ hook' = hook
        \/ /\ c.driver \in Drivers
           /\ \E v \in {"no", "hooked", "monitored"} : hook' = [hook EXCEPT ![c.driver] = v]
    BY <1>5, <1>6, ChangedTo
  <2> QED
    BY <1>1, <2>1 DEF Flagged
<1>8. ASSUME trouble' = {}, ~outdated'
      PROVE  /\ \A d \in DOMAIN shown' :
                   shown'[d].hooked /\ hook'[d] = "no" => Done("unhook", d)'
             /\ \A d \in Drivers : Done("hook", d)' => hook'[d] # "no"
  <2>1. /\ trouble = {} /\ ~outdated /\ OneAtATime
        /\ \A x, unread : Reply(x, unread) => wire' = Append(wire, x)
    BY <1>1, <1>5, <1>8 DEF Reply, Calm, MatchInv
  <2>2. n = 1 /\ wire = <<>>
    <3>1. 1 \in 1 .. Len(sent) /\ Len(sent) + Len(wire) <= 1
      BY <1>3, <2>1 DEF OneAtATime
    <3>2. n = 1 /\ Len(wire) = 0
      BY <1>3, <3>1, OnlyOne
    <3> QED
      BY <1>3, <3>2, EmptySeq
  <2>3. PICK success \in Outcomes(c) :
           /\ ExecuteCommand(c, success)
           /\ Reply([to |-> c, success |-> success,
                     irps |-> IF c.id = "pending" THEN queue ELSE <<>>],
                    SubSeq(sent, n + 1, Len(sent)))
    BY <1>2, <1>4, <2>2
  <2>4. PICK b : b = [to |-> c, success |-> success,
                      irps |-> IF c.id = "pending" THEN queue ELSE <<>>]
    OBVIOUS
  <2>5. wire' = Append(<<>>, b) /\ b.to = c /\ b.success = success
    BY <2>1, <2>2, <2>3, <2>4
  <2>6. \A id, d : Done(id, d)' <=> success /\ c = UiCommand(id, d)
    <3>1. wire' # <<>> /\ wire'[1] = b
      BY <2>5
    <3> QED
      BY <2>5, <3>1, Zenon DEF Done
  <2>7. \A d \in DOMAIN shown : shown[d].hooked => hook[d] # "no"
    BY <2>1, <2>2 DEF Hooks, Done
  <2>8. CASE success /\ c.id \in Changes
    <3>1. PICK v \in {"no", "hooked", "monitored"} :
             /\ hook' = [hook EXCEPT ![c.driver] = v]
             /\ v = "no" <=> c.id = "unhook"
      BY <2>3, <2>8, ChangedTo DEF ExecuteCommand
    <3>2. \A d \in Drivers : hook'[d] = IF d = c.driver THEN v ELSE hook[d]
      BY <3>1 DEF Flagged
    <3>3. c = UiCommand(c.id, c.driver)
      <4>1. c \in [by : {"ui"}, id : Changes, driver : Drivers]
        BY <1>3, <1>4, <2>8 DEF Commands, Changes, Enumerations
      <4> QED
        BY <4>1 DEF UiCommand
    <3>4. ASSUME NEW d \in DOMAIN shown', shown'[d].hooked, hook'[d] = "no"
          PROVE  Done("unhook", d)'
      <4>1. d \in Drivers /\ hook[d] # "no"
        BY <1>1, <2>7, <3>4 DEF Flagged
      <4>2. d = c.driver /\ v = "no"
        BY <3>2, <3>4, <4>1
      <4> QED
        BY <2>6, <2>8, <3>1, <3>3, <4>2
    <3>5. ASSUME NEW d \in Drivers, Done("hook", d)'
          PROVE  hook'[d] # "no"
      <4>1. c.id = "hook" /\ c.driver = d
        BY <2>6, <3>5 DEF UiCommand
      <4> QED
        BY <3>1, <3>2, <4>1
    <3> QED
      BY <3>4, <3>5
  <2>9. CASE ~(success /\ c.id \in Changes)
    <3>1. hook' = hook
      BY <2>3, <2>9, Zenon DEF ExecuteCommand
    <3>2. ASSUME NEW d, Done("hook", d)'
          PROVE  FALSE
      <4>1. success /\ c.id = "hook"
        BY <2>6, <3>2 DEF UiCommand
      <4> QED
        BY <2>9, <4>1 DEF Changes
    <3> QED
      BY <1>1, <2>7, <3>1, <3>2
  <2> QED
    BY <2>8, <2>9
<1> QED
  BY <1>7, <1>8 DEF Hooks

(* What the window waits for is not on the wire when it waits for nothing.  *)
LEMMA IdleHasNone ==
    ASSUME MatchInv, trouble = {}, Idle, NEW id, NEW d
    PROVE  ~Done(id, d)
<1>1. Done(id, d) => "ui" \in Open
  BY DoneIsAwaited DEF Calm
<1> QED
  BY <1>1 DEF Open, Waiting, Idle

LEMMA ClearKeepsHooks ==
    ASSUME MatchInv, Flagged, Hooks, NEW r \in Refreshers, RefreshClears(r)
    PROVE  Flagged' /\ Hooks'
<1>1. /\ shown' = [d \in {} |-> Flags(d)] /\ outdated' = (outdated /\ ~Idle)
      /\ UNCHANGED <<hook, wire, trouble>>
  BY Zenon DEF RefreshClears, linkVars
<1>2. CASE ~outdated
  <2>1. outdated' = FALSE
    BY <1>1, <1>2
  <2>2. ASSUME trouble = {}
        PROVE  /\ \A d \in DOMAIN shown : shown[d].hooked /\ hook[d] = "no" => Done("unhook", d)
               /\ \A d \in Drivers : Done("hook", d) => hook[d] # "no"
    BY <1>2, <2>2 DEF Hooks
  <2>3. DOMAIN shown' = {}
    BY <1>1
  <2>4. \A id, d : Done(id, d)' <=> Done(id, d)
    BY <1>1 DEF Done
  <2> QED
    BY <1>1, <2>2, <2>3, <2>4 DEF Flagged, Hooks
<1>3. CASE outdated
  <2>1. DOMAIN shown' = {} /\ shown' \in [{} -> FlagPairs]
    BY <1>1
  <2>2. ASSUME trouble' = {}, ~outdated', NEW d
        PROVE  ~Done("hook", d)'
    <3>1. Idle /\ trouble = {}
      BY <1>1, <1>3, <2>2
    <3>2. ~Done("hook", d)
      BY <3>1, IdleHasNone
    <3> QED
      BY <1>1, <3>2 DEF Done
  <2> QED
    BY <1>1, <2>1, <2>2 DEF Flagged, Hooks
<1> QED
  BY <1>2, <1>3

LEMMA LateKeepsHooks ==
    ASSUME Left, Flagged, ServeLate
    PROVE  Flagged' /\ Hooks'
<1>1. PICK c \in Commands : c = late
  BY DEF ServeLate, Left
<1>2. /\ hook' = hook \/ (c.id \in Changes /\ hook' = Changed(c))
      /\ shown' = shown /\ trouble' = trouble /\ late # None
  BY <1>1 DEF ServeLate, ExecuteCommand, guiVars
<1>3. c.id \in Changes => c.driver \in Drivers
  BY GuiAssumption DEF Commands, Changes, Enumerations
<1>4. \/ hook' = hook
      \/ /\ c.driver \in Drivers
         /\ \E v \in {"no", "hooked", "monitored"} : hook' = [hook EXCEPT ![c.driver] = v]
  BY <1>2, <1>3, ChangedTo
<1>5. Flagged'
  BY <1>2, <1>4 DEF Flagged
<1> QED
  BY <1>2, <1>5 DEF Left, Hooks

LEMMA EndKeepsHooks ==
    ASSUME MatchInv, Flagged, trouble \subseteq trouble', BrokerEnds
    PROVE  Flagged' /\ Hooks'
<1>1. /\ hook' = [d \in Drivers |-> "no"] /\ shown' = shown /\ wire' = wire
      /\ outdated' = (outdated \/ ~Idle \/ \E d \in DOMAIN shown : shown[d].hooked)
  BY Zenon DEF BrokerEnds, guiVars
<1>2. Flagged'
  BY <1>1 DEF Flagged
<1>3. ASSUME trouble' = {}, ~outdated'
      PROVE  /\ \A d \in DOMAIN shown' : ~shown'[d].hooked
             /\ \A d : ~Done("hook", d)'
  <2>1. trouble = {} /\ Idle /\ \A d \in DOMAIN shown : ~shown[d].hooked
    BY <1>1, <1>3
  <2>2. \A d : ~Done("hook", d)
    BY <2>1, IdleHasNone
  <2> QED
    BY <1>1, <2>1, <2>2 DEF Done
<1> QED
  BY <1>2, <1>3 DEF Hooks

LEMMA HooksStep ==
    ASSUME MatchInv, MatchInv', Heads, Left, Flagged, Hooks, [GuiNext]_vars
    PROVE  Flagged' /\ Hooks'
<1>1. trouble \subseteq trouble'
  BY TroubleStays
<1>2. CASE UNCHANGED <<shown, hook, wire, outdated>>
  BY <1>1, <1>2, QuietKeepsHooks
<1>3. ASSUME NEW t \in Threads, Receive(t)
      PROVE  Flagged' /\ Hooks'
  BY <1>3, ReceiveKeepsHooks
<1>4. CASE Serve
  BY <1>4, ServeKeepsHooks
<1>5. ASSUME Idle, wire' = <<>>, UNCHANGED <<hook, outdated>>,
             shown' = shown \/ shown' = [d \in {} |-> Flags(d)]
      PROVE  Flagged' /\ Hooks'
  <2>1. \A d : trouble = {} => ~Done("unhook", d)
    BY <1>5, IdleHasNone
  <2> QED
    BY <1>1, <1>5, <2>1, QuietKeepsHooks
<1>6. CASE Disconnect
  BY <1>5, <1>6 DEF Disconnect, AfterClose, guiVars, brokerVars
<1>7. CASE Quit
  BY <1>5, <1>7 DEF Quit, brokerVars
<1>8. ASSUME NEW r \in Refreshers, RefreshClears(r)
      PROVE  Flagged' /\ Hooks'
  BY <1>8, ClearKeepsHooks
<1>9. ASSUME NEW t \in Threads, GiveUp(t)
      PROVE  UNCHANGED <<shown, hook, wire, outdated>>
  BY <1>9 DEF GiveUp, Finish, UiFinish, PollerFinish, RefresherFinish, Accepted, Good,
              brokerVars
<1>10. ASSUME NEW t, NEW id, NEW d, Send(t, id, d)
       PROVE  UNCHANGED <<hook, wire, outdated>>
  BY <1>10 DEF Send, brokerVars
<1>11. ASSUME NEW r \in Refreshers, RefreshSends(r) \/ RefreshNotConnected(r)
       PROVE  UNCHANGED <<shown, hook, wire, outdated>>
  BY <1>10, <1>11, Zenon DEF RefreshSends, RefreshNotConnected, linkVars, brokerVars
<1>12. CASE \E id \in Changes, d \in Drivers : Click(id, d)
  BY <1>2, <1>10, <1>12 DEF Click
<1>13. CASE Poll \/ (\E r \in Refreshers : ClickRefresh(r)) \/ Connect
  BY <1>2, <1>10, <1>13, Zenon DEF Poll, ClickRefresh, Connect, guiVars, linkVars, brokerVars
<1>14. CASE Capture \/ BrokerCloses \/ UNCHANGED vars
  BY <1>2, <1>14, Zenon DEF Capture, BrokerCloses, vars, guiVars, linkVars, brokerVars
<1>15. CASE ServeLate \/ BrokerEnds
  BY <1>1, <1>15, LateKeepsHooks, EndKeepsHooks
<1> QED
  BY <1>2, <1>3, <1>4, <1>6, <1>7, <1>8, <1>9, <1>11, <1>12, <1>13, <1>14, <1>15
     DEF GuiNext, Running, Window, Refresh

-----------------------------------------------------------------------------
(* At most one answer comes for each thread that waits for one, and one     *)
(* more after an answer was cut: whatever ends a wait reads an answer whole *)
(* or cuts it, and what was asked on a closed connection is gone with it.   *)
Extra == IF "cut" \in trouble THEN 1 ELSE 0

Balanced ==
    /\ IsFiniteSet(Waiting)
    /\ Len(sent) + Len(wire) <= Cardinality(Open) + Extra

LEMMA Without ==
    ASSUME NEW W, NEW F, IsFiniteSet(W)
    PROVE  /\ IsFiniteSet(W \ F) /\ Cardinality(W \ F) \in Nat
           /\ Cardinality(W \ F) <= Cardinality(W) /\ Cardinality(W) \in Nat
<1>1. W \ F \in SUBSET W
  OBVIOUS
<1> QED
  BY <1>1, FS_Subset, FS_CardinalityType

LEMMA BalancedInit == GuiInit => Balanced
<1> SUFFICES ASSUME GuiInit PROVE Balanced
  OBVIOUS
<1>1. Waiting = {}
  BY DEF GuiInit, Waiting
<1>2. Len(sent) = 0 /\ Len(wire) = 0 /\ trouble = {}
  BY DEF GuiInit
<1>3. Open = {} /\ IsFiniteSet({}) /\ Cardinality({}) = 0
  BY <1>1, FS_EmptySet DEF Open
<1> QED
  BY <1>1, <1>2, <1>3 DEF Balanced, Extra

(* Steps after which nothing is under way, or no more than there was.       *)
LEMMA QuietKeepsBalance ==
    ASSUME Shape, Balanced, IsFiniteSet(Waiting'),
           \/ sent' = <<>> /\ wire' = <<>>
           \/ /\ Open' = Open /\ trouble \subseteq trouble'
              /\ sent' \in {sent, <<>>} /\ wire' = wire
    PROVE  Balanced'
<1>1. /\ Cardinality(Open') \in Nat /\ Cardinality(Open) \in Nat
      /\ Len(sent) \in Nat /\ Len(wire) \in Nat
  <2>1. Open = Waiting \ failed /\ Open' = Waiting' \ failed'
    BY DEF Open
  <2>2. Cardinality(Open') \in Nat /\ Cardinality(Open) \in Nat
    BY <2>1, Without DEF Balanced
  <2> QED
    BY <2>2 DEF Shape
<1>2. CASE sent' = <<>> /\ wire' = <<>>
  <2>1. Len(sent') = 0 /\ Len(wire') = 0
    BY <1>2
  <2> QED
    BY <1>1, <2>1 DEF Balanced, Extra
<1>3. CASE /\ Open' = Open /\ trouble \subseteq trouble'
           /\ sent' \in {sent, <<>>} /\ wire' = wire
  <2>1. Len(sent') \in {Len(sent), 0} /\ Len(wire') = Len(wire)
    BY <1>3
  <2>2. Cardinality(Open') = Cardinality(Open) /\ Extra <= Extra'
    BY <1>3 DEF Extra
  <2>3. Extra \in {0, 1} /\ Extra' \in {0, 1}
    BY DEF Extra
  <2> QED
    BY <1>1, <2>1, <2>2, <2>3 DEF Balanced
<1> QED
  BY <1>2, <1>3

LEMMA SendKeepsBalance ==
    ASSUME Shape, Balanced, NEW t \in Threads, NEW id, NEW d, Send(t, id, d),
           [by |-> t, id |-> id, driver |-> d] \in Commands
    PROVE  Balanced'
<1>1. PICK c \in Commands : /\ command' = [command EXCEPT ![t] = c]
                            /\ sent' = IF link = "open" THEN Append(sent, c) ELSE sent
  BY DEF Send
<1>2. /\ wire' = wire /\ failed' = failed /\ command[t] = None /\ trouble \subseteq trouble'
  BY DEF Send
<1>3. Waiting' = Waiting \cup {t} /\ t \notin Waiting /\ t \notin failed
  BY <1>1, <1>2, NoneIsNeither DEF Waiting, Shape
<1>4. Open' = Open \cup {t} /\ t \notin Open
  BY <1>2, <1>3 DEF Open
<1>5. IsFiniteSet(Waiting') /\ IsFiniteSet(Open)
  BY <1>3, FS_AddElement, Without DEF Balanced, Open
<1>6. /\ Cardinality(Open') = Cardinality(Open) + 1 /\ Cardinality(Open) \in Nat
      /\ Len(sent) \in Nat /\ Len(wire) \in Nat
  BY <1>4, <1>5, FS_AddElement, FS_CardinalityType DEF Shape
<1>7. Len(sent') \in {Len(sent), Len(sent) + 1} /\ Len(wire') = Len(wire)
  BY <1>1, <1>2 DEF Shape
<1>8. Extra <= Extra' /\ Extra \in {0, 1} /\ Extra' \in {0, 1}
  BY <1>2 DEF Extra
<1> QED
  BY <1>5, <1>6, <1>7, <1>8 DEF Balanced

LEMMA ReceiveKeepsBalance ==
    ASSUME Shape, Balanced, NEW t \in Threads, Receive(t)
    PROVE  Balanced'
<1>1. PICK n \in 0 .. Len(wire), more, full, brace \in BOOLEAN :
         Chunk(t, n, more, full, brace)
  BY ReceivesChunk
<1>2. sent' = sent /\ t \notin failed /\ command[t] # None
  BY DEF Receive
<1>3. /\ wire' = SubSeq(wire, n + 1, Len(wire)) /\ trouble \subseteq trouble'
      /\ n = 0 => more
      /\ ~more => brace
      /\ more /\ Stops(full, brace) => "cut" \notin trouble /\ "cut" \in trouble'
  BY <1>1 DEF Chunk
<1>4. /\ Len(wire') = Len(wire) - n /\ Len(wire) \in Nat /\ Len(sent) \in Nat
  BY <1>3 DEF Shape
<1>5. IsFiniteSet(Open) /\ Cardinality(Open) \in Nat
  BY Without DEF Balanced, Open
<1>6. Extra <= Extra' /\ Extra \in {0, 1} /\ Extra' \in {0, 1}
  BY <1>3 DEF Extra
<1>7. CASE Stops(full, brace)
  <2>1. command' = [command EXCEPT ![t] = None] /\ failed' = failed \ {t}
    BY <1>1, <1>7 DEF Chunk, Finish
  <2>2. Waiting' = Waiting \ {t} /\ t \in Waiting
    BY <1>2, <2>1 DEF Waiting, Shape
  <2>3. Open' = Open \ {t} /\ t \in Open
    BY <1>2, <2>1, <2>2 DEF Open
  <2>4. IsFiniteSet(Waiting') /\ Cardinality(Open') = Cardinality(Open) - 1
    BY <1>5, <2>2, <2>3, FS_RemoveElement DEF Balanced
  <2>5. (more => Extra = 0 /\ Extra' = 1) /\ (~more => n > 0)
    BY <1>3, <1>7 DEF Extra
  <2> QED
    BY <1>2, <1>4, <1>5, <1>6, <2>4, <2>5 DEF Balanced
<1>8. CASE ~Stops(full, brace)
  <2>1. command' = command /\ failed' = failed
    BY <1>1, <1>8 DEF Chunk, guiVars
  <2>2. Waiting' = Waiting /\ Open' = Open
    BY <2>1 DEF Waiting, Open
  <2> QED
    BY <1>2, <1>4, <1>5, <1>6, <2>2 DEF Balanced
<1> QED
  BY <1>7, <1>8

LEMMA ServeKeepsBalance ==
    ASSUME Shape, Balanced, Serve
    PROVE  Balanced'
<1>1. /\ UNCHANGED <<command, failed>> /\ sent # <<>>
      /\ \E n \in 1 .. Len(sent) : \E a : Reply(a, SubSeq(sent, n + 1, Len(sent)))
  BY DEF Serve, guiVars
<1>10. PICK n \in 1 .. Len(sent) : \E a : Reply(a, SubSeq(sent, n + 1, Len(sent)))
  BY <1>1
<1>2. PICK a : Reply(a, SubSeq(sent, n + 1, Len(sent)))
  BY <1>10
<1>3. Waiting' = Waiting /\ Open' = Open
  BY <1>1 DEF Waiting, Open
<1>4. IsFiniteSet(Waiting') /\ Cardinality(Open) \in Nat
  BY <1>3, Without DEF Balanced, Open
<1>5. Len(sent) \in Nat /\ Len(wire) \in Nat
  BY DEF Shape
<1>6. CASE /\ wire' = Append(wire, a) /\ sent' = SubSeq(sent, n + 1, Len(sent))
           /\ trouble' = trouble
  <2>1. wire \in Seq(Answers \cup {a}) /\ sent \in Seq(Commands)
    BY DEF Shape
  <2>2. Len(wire') = Len(wire) + 1 /\ Len(sent') = Len(sent) - n
    BY <1>6, <2>1
  <2>3. Extra' = Extra /\ Extra \in {0, 1}
    BY <1>6 DEF Extra
  <2> QED
    BY <1>3, <1>4, <1>5, <2>2, <2>3 DEF Balanced
<1>7. CASE sent' = <<>> /\ wire' = wire /\ trouble' = trouble \cup {"lost"}
  BY <1>3, <1>4, <1>7, QuietKeepsBalance
<1> QED
  BY <1>2, <1>6, <1>7 DEF Reply

LEMMA BalancedStep ==
    ASSUME Shape, Shape', Balanced, [GuiNext]_vars
    PROVE  Balanced'
<1>1. trouble \subseteq trouble'
  BY TroubleStays
<1>2. ASSUME UNCHANGED <<command, failed>>, sent' \in {sent, <<>>}, wire' = wire
      PROVE  Balanced'
  <2>1. Waiting' = Waiting /\ Open' = Open
    BY <1>2 DEF Waiting, Open
  <2> QED
    BY <1>1, <1>2, <2>1, QuietKeepsBalance DEF Balanced
<1>3. CASE Poll
  <2>1. [by |-> "poller", id |-> "pending", driver |-> None] \in Commands
        /\ "poller" \in Threads
    BY DEF Commands, Threads
  <2> QED
    BY <1>3, <2>1, SendKeepsBalance DEF Poll
<1>4. ASSUME NEW r \in Refreshers, Refresh(r)
      PROVE  Balanced'
  <2>1. CASE RefreshClears(r) \/ RefreshNotConnected(r)
    BY <1>2, <2>1, Zenon DEF RefreshClears, RefreshNotConnected, linkVars
  <2>2. CASE RefreshSends(r)
    <3>1. [by |-> r, id |-> todo[r], driver |-> None] \in Commands /\ r \in Threads
      BY <2>2 DEF RefreshSends, Commands, Threads
    <3>2. Send(r, todo[r], None)
      BY <2>2 DEF RefreshSends
    <3> QED
      BY <3>1, <3>2, SendKeepsBalance
  <2> QED
    BY <1>4, <2>1, <2>2 DEF Refresh
<1>5. ASSUME NEW t \in Threads, GiveUp(t)
      PROVE  Balanced'
  <2>1. /\ command' = [command EXCEPT ![t] = None] /\ failed' = failed \ {t}
        /\ UNCHANGED <<sent, wire, trouble>>
        /\ link = "none" \/ t \in failed \/ (link = "lost" /\ wire = <<>>)
    BY <1>5 DEF GiveUp, Finish
  <2>2. Waiting' = Waiting \ {t}
    BY <2>1 DEF Waiting, Shape
  <2>3. IsFiniteSet(Waiting')
    BY <2>2, FS_RemoveElement DEF Balanced
  <2>4. CASE t \in failed
    <3>1. Open' = Open
      BY <2>1, <2>2, <2>4 DEF Open
    <3> QED
      BY <2>1, <2>3, <3>1, QuietKeepsBalance
  <2>5. CASE t \notin failed
    <3>1. sent' = <<>> /\ wire' = <<>>
      BY <2>1, <2>5 DEF Shape
    <3> QED
      BY <2>3, <3>1, QuietKeepsBalance
  <2> QED
    BY <2>4, <2>5
<1>6. ASSUME NEW id \in Changes, NEW d \in Drivers, Click(id, d)
      PROVE  Balanced'
  <2>1. [by |-> "ui", id |-> id, driver |-> d] \in Commands /\ "ui" \in Threads
    BY DEF Commands, Threads
  <2> QED
    BY <1>6, <2>1, SendKeepsBalance DEF Click
<1>7. CASE (\E r \in Refreshers : ClickRefresh(r)) \/ Connect
  BY <1>2, <1>7, Zenon DEF ClickRefresh, Connect, guiVars, linkVars
<1>8. CASE Disconnect
  <2>1. command' = command /\ sent' = <<>> /\ wire' = <<>>
    BY <1>8 DEF Disconnect, AfterClose, guiVars
  <2>2. Waiting' = Waiting
    BY <2>1 DEF Waiting
  <2> QED
    BY <2>1, <2>2, QuietKeepsBalance DEF Balanced
<1>9. CASE Quit
  <2>1. command' = [t \in Threads |-> None] /\ sent' = <<>> /\ wire' = <<>>
    BY <1>9 DEF Quit
  <2>2. Waiting' = {}
    BY <2>1 DEF Waiting
  <2> QED
    BY <2>1, <2>2, FS_EmptySet, QuietKeepsBalance
<1>10. CASE Capture \/ ServeLate \/ BrokerCloses \/ BrokerEnds \/ UNCHANGED vars
  BY <1>2, <1>10, Zenon DEF Capture, ServeLate, BrokerCloses, BrokerEnds, guiVars, linkVars,
                            vars
<1> QED
  BY <1>3, <1>4, <1>5, <1>6, <1>7, <1>8, <1>9, <1>10, ReceiveKeepsBalance, ServeKeepsBalance
     DEF GuiNext, Running, Window

(* The rest of the types.                                                   *)
Flow ==
    /\ gui \in {"running", "gone", "crashed"}
    /\ refreshing \in BOOLEAN
    /\ link \in {"none", "open", "lost"}
    /\ trouble \subseteq Troubles

LEMMA FlowStep ==
    ASSUME Flow, [GuiNext]_vars
    PROVE  Flow'
<1>1. ASSUME NEW t \in Threads, NEW a, Finish(t, a)
      PROVE  /\ gui' \in {gui, "crashed"}
             /\ refreshing' \in BOOLEAN
  <2>1. CASE t = "ui"
    BY <1>1, <2>1 DEF Finish, UiFinish, Flow
  <2>2. CASE t = "poller"
    BY <1>1, <2>2 DEF Finish, PollerFinish, Flow
  <2>3. CASE t \notin {"ui", "poller"}
    <3>1. RefresherFinish(t, a)
      BY <1>1, <2>3 DEF Finish
    <3>2. refreshing' = TRUE \/ refreshing' = FALSE
      BY <3>1, Zenon DEF RefresherFinish
    <3> QED
      BY <3>1, <3>2 DEF RefresherFinish
  <2> QED
    BY <2>1, <2>2, <2>3
<1>2. ASSUME NEW t \in Threads, Receive(t)
      PROVE  Flow'
  <2>1. PICK n \in 0 .. Len(wire), more, full, brace \in BOOLEAN :
           Chunk(t, n, more, full, brace)
    BY <1>2, ReceivesChunk
  <2>2. link' = link
    BY <1>2 DEF Receive
  <2>3. trouble' \subseteq trouble \cup {"cut", "swapped"}
    BY <2>1 DEF Chunk
  <2>4. UNCHANGED <<gui, refreshing>> \/ \E a : Finish(t, a)
    BY <2>1 DEF Chunk, guiVars
  <2> QED
    BY <1>1, <2>2, <2>3, <2>4 DEF Flow, Troubles
<1>3. ASSUME NEW t \in Threads, GiveUp(t)
      PROVE  Flow'
  <2>1. UNCHANGED <<link, trouble>> /\ Finish(t, None)
    BY <1>3 DEF GiveUp
  <2> QED
    BY <1>1, <2>1 DEF Flow
<1>4. ASSUME UNCHANGED <<gui, refreshing, link>>,
             trouble' \in {trouble, trouble \cup {"mixed"}}
      PROVE  Flow'
  BY <1>4 DEF Flow, Troubles
<1>5. ASSUME NEW t, NEW id, NEW d, Send(t, id, d), UNCHANGED <<gui, refreshing>>
      PROVE  Flow'
  <2>1. link' = link /\ trouble' \in {trouble, trouble \cup {"mixed"}}
    BY <1>5 DEF Send
  <2> QED
    BY <1>4, <1>5, <2>1
<1>6. CASE Poll
  BY <1>5, <1>6 DEF Poll
<1>7. ASSUME NEW r \in Refreshers, Refresh(r)
      PROVE  Flow'
  <2>1. CASE RefreshSends(r)
    BY <1>5, <2>1 DEF RefreshSends
  <2>2. CASE RefreshClears(r)
    <3>1. UNCHANGED <<gui, link, trouble>> /\ refreshing' = TRUE
      BY <2>2 DEF RefreshClears, linkVars
    <3> QED
      BY <3>1 DEF Flow
  <2>3. CASE RefreshNotConnected(r)
    <3>1. UNCHANGED <<gui, link, trouble>> /\ refreshing' = FALSE
      BY <2>3 DEF RefreshNotConnected, linkVars
    <3> QED
      BY <3>1 DEF Flow
  <2> QED
    BY <1>7, <2>1, <2>2, <2>3 DEF Refresh
<1>8. CASE Window
  <2>1. ASSUME NEW id, NEW d, Click(id, d)
        PROVE  Flow'
    BY <1>5, <2>1 DEF Click
  <2>2. ASSUME NEW r, ClickRefresh(r)
        PROVE  Flow'
    BY <1>4, <2>2 DEF ClickRefresh, linkVars
  <2>3. CASE Connect
    <3>1. /\ UNCHANGED <<gui, refreshing>> /\ link' = "open"
          /\ trouble' \in {trouble, trouble \cup {"mixed"}}
      BY <2>3 DEF Connect, guiVars
    <3> QED
      BY <3>1 DEF Flow, Troubles
  <2>4. CASE Disconnect
    <3>1. /\ UNCHANGED <<gui, refreshing>> /\ link' = "none"
          /\ trouble' \in {trouble, trouble \cup {"lost"}}
      BY <2>4 DEF Disconnect, guiVars
    <3> QED
      BY <3>1 DEF Flow, Troubles
  <2>5. CASE Quit
    <3>1. gui' = "gone" /\ refreshing' = FALSE /\ link' = "none" /\ trouble' = trouble
      BY <2>5, Zenon DEF Quit
    <3> QED
      BY <3>1 DEF Flow
  <2> QED
    BY <1>8, <2>1, <2>2, <2>3, <2>4, <2>5 DEF Window
<1>9. CASE Serve
  <2>1. UNCHANGED <<gui, refreshing>> /\ \E a, unread : Reply(a, unread)
    BY <1>9 DEF Serve, guiVars
  <2>2. link' \in {link, "lost"} /\ trouble' \in {trouble, trouble \cup {"lost"}}
    BY <2>1 DEF Reply
  <2> QED
    BY <2>1, <2>2 DEF Flow, Troubles
<1>10. CASE BrokerCloses \/ BrokerEnds
  <2>1. /\ UNCHANGED <<gui, refreshing>> /\ link' \in {link, "lost"}
        /\ trouble' \in {trouble, trouble \cup {"lost"}}
    BY <1>10 DEF BrokerCloses, BrokerEnds, guiVars
  <2> QED
    BY <2>1 DEF Flow, Troubles
<1>11. CASE Capture \/ ServeLate \/ UNCHANGED vars
  <2>1. UNCHANGED <<gui, refreshing, link, trouble>>
    BY <1>11, Zenon DEF Capture, ServeLate, vars, guiVars, linkVars
  <2> QED
    BY <2>1 DEF Flow
<1> QED
  BY <1>2, <1>3, <1>6, <1>7, <1>8, <1>9, <1>10, <1>11 DEF GuiNext, Running

LEMMA FlowInit == GuiInit => Flow
<1>1. GuiInit => gui = "running" /\ refreshing = FALSE /\ link = "none" /\ trouble = {}
  BY Zenon DEF GuiInit
<1> QED
  BY <1>1 DEF Flow
-----------------------------------------------------------------------------
GuiInv ==
    /\ MatchInv /\ Heads /\ InOrder /\ Left /\ Conserved
    /\ Flagged /\ Hooks /\ Balanced /\ Flow

LEMMA GuiInvariance == GuiSpec => []GuiInv
<1>1. GuiInit => GuiInv
  BY MatchInvInit, HeadsInit, InOrderInit, LeftInit, ConservedInit, FlaggedInit,
     BalancedInit, FlowInit DEF GuiInv
<1>2. ASSUME GuiInv, [GuiNext]_vars
      PROVE  GuiInv'
  <2>1. MatchInv'
    BY <1>2, MatchInvStep DEF GuiInv
  <2>2. Heads' /\ InOrder' /\ Left'
    BY <1>2, <2>1, HeadsStep, InOrderStep, LeftStep DEF GuiInv, MatchInv
  <2>3. Conserved' /\ Flagged' /\ Hooks'
    BY <1>2, <2>1, ConservedStep, HooksStep DEF GuiInv
  <2>4. Balanced' /\ Flow'
    BY <1>2, <2>1, BalancedStep, FlowStep DEF GuiInv, MatchInv
  <2> QED
    BY <2>1, <2>2, <2>3, <2>4 DEF GuiInv
<1> QED
  BY <1>1, <1>2, PTL DEF GuiSpec

(* The types of the window, of its threads and of the connection; never     *)
(* more answers come than there are threads that wait for one, but for one  *)
(* after an answer was cut.                                                 *)
THEOREM GuiTypes == GuiSpec => []GuiTypeOK
<1>1. GuiInv => GuiTypeOK
  <2> SUFFICES ASSUME GuiInv PROVE GuiTypeOK
    OBVIOUS
  <2>1. Shape /\ Heads /\ InOrder /\ Left /\ Flagged /\ Balanced /\ Flow
    BY DEF GuiInv, MatchInv
  <2>2. Len(sent) + Len(wire) <= Cardinality(Waiting) + 1
    <3>1. /\ Cardinality(Open) \in Nat /\ Cardinality(Waiting) \in Nat
          /\ Cardinality(Open) <= Cardinality(Waiting)
      BY <2>1, Without DEF Balanced, Open
    <3>2. Len(sent) \in Nat /\ Len(wire) \in Nat
      BY <2>1 DEF Shape
    <3> QED
      BY <2>1, <3>1, <3>2 DEF Balanced, Extra
  <2>3. \A t \in Threads : command[t] \in Commands \cup {None}
    BY <2>1 DEF Shape
  <2>4. \E listed \in SUBSET Drivers :
           shown \in [listed -> [hooked : BOOLEAN, monitored : BOOLEAN]]
    BY <2>1 DEF Flagged, FlagPairs
  <2>5. /\ captured \in Seq(Irps) /\ sent \in Seq(Commands) /\ wire \in Seq(Answers)
        /\ queue \in Seq(Irps) /\ last \in 0 .. MaxIrps
        /\ todo \in [Refreshers -> {None, "clear"} \cup Enumerations]
        /\ failed \subseteq Waiting
    BY <2>1 DEF Shape, InOrder
  <2>6. /\ headless \in Threads \cup {None, "nobody"}
        /\ headless # None => wire # <<>>
        /\ part \in [Threads -> BOOLEAN]
    BY <2>1 DEF Heads
  <2>7. hook \in [Drivers -> {"no", "hooked", "monitored"}]
    BY <2>1 DEF Flagged
  <2> QED
    BY <2>1, <2>2, <2>3, <2>4, <2>5, <2>6, <2>7, Zenon DEF GuiTypeOK, Flow, Left
<1> QED
  BY <1>1, GuiInvariance, PTL

(* What the window shows as hooked is hooked in the driver, for any number  *)
(* of drivers and refreshes, unless answers were lost or taken by another,  *)
(* or its broker has ended and no refresh cleared the window since: the     *)
(* hooks that ended with the broker are never taken for those of the next.  *)
THEOREM ShownAreHooked == GuiSpec => []ShownIsHooked
<1>1. GuiInv => ShownIsHooked
  <2> SUFFICES ASSUME GuiInv, trouble = {}, ~outdated, Idle, NEW d \in DOMAIN shown,
                      shown[d].hooked, hook[d] = "no"
               PROVE  FALSE
    BY DEF ShownIsHooked
  <2>1. Done("unhook", d)
    BY DEF GuiInv, Hooks
  <2>2. "ui" \in Open
    BY <2>1, DoneIsAwaited DEF GuiInv, Calm
  <2> QED
    BY <2>2 DEF Open, Waiting, Idle
<1> QED
  BY <1>1, GuiInvariance, PTL

(* No IRP is lost between the queue of the broker and the window, for any   *)
(* number of them: as long as nothing went wrong on the connection, all     *)
(* that were captured are shown, on the wire or queued, in this order.      *)
THEOREM NoneLost == GuiSpec => []NothingLost
<1>1. GuiInv => NothingLost
  <2> SUFFICES ASSUME GuiInv, trouble = {}, gui = "running"
               PROVE  captured \o FlattenSeq([i \in 1 .. Len(wire) |-> wire[i].irps])
                          \o queue = [i \in 1 .. last |-> i]
    BY DEF NothingLost
  <2>1. /\ captured \in Seq(Irps) /\ queue \in Seq(Irps) /\ wire \in Seq(Answers)
        /\ sent \in Seq(Commands) /\ Len(sent) + Len(wire) <= 1
        /\ captured \o (OnWire \o queue) = AllIrps
    BY DEF GuiInv, MatchInv, Shape, InOrder, Conserved, OneAtATime, Calm
  <2>2. Len(wire) <= 1
    BY <2>1
  <2>3. FlattenSeq([i \in 1 .. Len(wire) |-> wire[i].irps]) = OnWire
    BY <2>1, <2>2, FlattenWire
  <2>4. (captured \o OnWire) \o queue = captured \o (OnWire \o queue)
    BY <2>1, OnWireTyped, Regroup
  <2> QED
    BY <2>1, <2>3, <2>4 DEF AllIrps
<1> QED
  BY <1>1, GuiInvariance, PTL
=============================================================================
