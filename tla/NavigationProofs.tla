--------------------------- MODULE NavigationProofs ---------------------------
(***************************************************************************)
(* What Navigation keeps whatever the width of the world, the waits and    *)
(* the bounds.  A step of the bot touches what it shares with the server   *)
(* in one of six ways (BotShape): the invariants about the two worlds and  *)
(* the two positions are shown for these six, those about the control of   *)
(* the functions for each action.  Base holds the types and says where a   *)
(* function may be; the other invariants rest on it.                       *)
(***************************************************************************)
EXTENDS Navigation, SequenceTheorems, WellFoundedInduction, TLAPS

Blocks == {Air, Soft, Hard}
Telling == [kind : {"block"}, cell : Cells, block : Blocks]
Moving == [kind : {"teleport"}, id : Nat, v : Int, rel : BOOLEAN]
ToBot == Telling \cup Moving
ToServer == [kind : {"move"}, pos : Int] \cup [kind : {"accept"}, id : Nat]
            \cup [kind : {"start", "finish", "place"}, cell : Cells]
Nodes == [cell : Int, to_break : {<<>>} \cup {<<c>> : c \in Cells}, place : BOOLEAN]

BotStates == [pos : Int, vel : {-1, 0, 1}, physics : BOOLEAN, world : [Cells -> Blocks], guessed : SUBSET Cells]
ServerStates == [pos : Int, awaiting : Nat, mining : Nat, world : [Cells -> Blocks], silent : SUBSET Cells]

Types ==
  /\ bot \in BotStates
  /\ last_sent = <<>> \/ \E p \in Int : last_sent = <<p>>
  /\ server \in ServerStates
  /\ to_bot \in Seq(ToBot) /\ to_server \in Seq(ToServer)
  /\ connected \in BOOLEAN /\ ended \in BOOLEAN /\ teleports \in Nat

\* The functions' own variables, and where each may be.
Locals ==
  /\ heading \in {-1, 0, 1} /\ goal \in Cells /\ target \in Cells
  /\ idx \in Nat /\ dig_progress \in Nat
  /\ path \in Seq(Nodes)
  /\ return_to \in {"idle", "follow"}

OnPath == idx \in 1 .. Len(path) /\ dig_progress <= Len(path[idx].to_break)
Where ==
  /\ Digging => heading = 0 /\ (return_to = "follow" => OnPath)
  /\ pc = "follow" => OnPath \/ idx = Len(path) + 1
  /\ pc = "walking" => OnPath /\ heading # 0 /\ dig_progress = Len(path[idx].to_break)

Control == Locals /\ Where

-----------------------------------------------------------------------------
\* Sets of naturals have a least element.
LEMMA Least_Natural ==
  ASSUME NEW T, T \subseteq Nat, T # {}
  PROVE  \E x \in T : \A y \in T : x <= y
<1>1. PICK x \in T : \A y \in T : ~(<<y, x>> \in OpToRel(<, Nat))
  BY NatLessThanWellFounded, WFMin
<1>2. ASSUME NEW y \in T PROVE x <= y
  <2>1. <<y, x>> \notin OpToRel(<, Nat) BY <1>1
  <2>2. <<y, x>> \in Nat \X Nat BY DEF OpToRel
  <2>3. ~(y < x) BY <2>1, <2>2 DEF OpToRel
  <2> QED BY <2>3
<1> QED BY <1>2

LEMMA DistanceType == \A a, b \in Int : Distance(a, b) \in Nat
BY DEF Distance

\* A path has a cell nearest to the bot.
LEMMA NearestType ==
  ASSUME bot.pos \in Int, NEW p \in Seq(Nodes), p # <<>>
  PROVE  Nearest(p) \in 1 .. Len(p)
<1> DEFINE dist(i) == Distance(p[i].cell, bot.pos)
<1>1. DOMAIN p = 1 .. Len(p) /\ Len(p) \in Nat \ {0} BY EmptySeq, LenProperties
<1>2. \A i \in DOMAIN p : dist(i) \in Nat
  <2> TAKE i \in DOMAIN p
  <2>0. p[i] \in Nodes BY <1>1, ElementOfSeq
  <2>1. p[i].cell \in Int BY <2>0 DEF Nodes
  <2> QED BY <2>1, DistanceType
<1> DEFINE D == {dist(i) : i \in DOMAIN p}
<1> HIDE DEF dist
<1>3. PICK d \in D : \A e \in D : d <= e
  <2>1. D \subseteq Nat BY <1>2
  <2>2. dist(1) \in D BY <1>1
  <2> QED BY <2>1, <2>2, Least_Natural
<1> DEFINE I == {i \in DOMAIN p : dist(i) = d}
<1>4. PICK i \in I : \A j \in I : i <= j
  <2>1. I \subseteq Nat BY <1>1
  <2>2. I # {} BY <1>3
  <2> QED BY <2>1, <2>2, Least_Natural
<1>5. \A j \in DOMAIN p : dist(i) < dist(j) \/ (dist(i) = dist(j) /\ i <= j)
  <2> TAKE j \in DOMAIN p
  <2>1. dist(i) = d /\ d <= dist(j) /\ dist(j) \in Nat /\ d \in Nat BY <1>2, <1>3, <1>4
  <2>2. dist(j) = d => i <= j BY <1>4
  <2> QED BY <2>1, <2>2
<1>6. \E k \in DOMAIN p : \A j \in DOMAIN p :
        \/ Distance(p[k].cell, bot.pos) < Distance(p[j].cell, bot.pos)
        \/ Distance(p[k].cell, bot.pos) = Distance(p[j].cell, bot.pos) /\ k <= j
  BY <1>4, <1>5 DEF dist
<1>7. Nearest(p) \in DOMAIN p BY <1>6 DEF Nearest
<1> QED BY <1>1, <1>7

LEMMA NodeType ==
  ASSUME NEW w \in [Cells -> Blocks], NEW c \in Int
  PROVE  Node(w, c) \in Nodes
BY DEF Node, Nodes, At, Blocks

\* The largest of some of the naturals up to n.
LEMMA Largest ==
  ASSUME NEW n \in Nat, NEW open, open \subseteq 0 .. n, open # {}
  PROVE  (CHOOSE k \in open : \A j \in open : j <= k) \in 0 .. n
<1> DEFINE short == {n - k : k \in open}
<1>1. short \subseteq Nat OBVIOUS
<1>2. short # {} OBVIOUS
<1>3. PICK x \in short : \A y \in short : x <= y
  <2> HIDE DEF short
  <2> QED BY <1>1, <1>2, Least_Natural
<1>4. PICK k \in open : x = n - k BY <1>3
<1>5. \A j \in open : j <= k
  <2> TAKE j \in open
  <2>1. n - k <= n - j BY <1>3, <1>4
  <2> QED BY <2>1
<1> QED BY <1>5

\* Every way that a search may give is one of nodes.
LEMMA SearchedType ==
  ASSUME bot.pos \in Int, bot.world \in [Cells -> Blocks], NEW to \in Int,
         NEW found \in Searched(bot.pos, to)
  PROVE  found.path \in Seq(Nodes)
<1> DEFINE d == IF to > bot.pos THEN 1 ELSE -1
           n == Distance(bot.pos, to)
           open == {k \in 0 .. n : \A i \in 1 .. k : At(bot.world, bot.pos + i * d) \notin CantBreak}
           far == CHOOSE k \in open : \A j \in open : j <= k
           node(i) == Node(bot.world, bot.pos + i * d)
<1>1. n \in Nat BY DistanceType
<1>2. d \in Int OBVIOUS
<1>3. far \in 0 .. n
  <2>1. 0 \in open BY <1>1
  <2>2. open \subseteq 0 .. n OBVIOUS
  <2> HIDE DEF open, n
  <2> QED BY <1>1, <2>1, <2>2, Largest
<1>4. Route(bot.pos, to) = [i \in 1 .. far |-> node(i)] BY DEF Route
<1> HIDE DEF far, d
<1>5. \A i \in 1 .. far : node(i) \in Nodes
  <2> TAKE i \in 1 .. far
  <2>1. i \in Int BY <1>3
  <2>2. bot.pos + i * d \in Int BY <1>2, <2>1
  <2> QED BY <2>2, NodeType
<1> HIDE DEF node
<1>6. Route(bot.pos, to) \in Seq(Nodes)
  <2>1. far \in Nat BY <1>3, <1>1
  <2> HIDE DEF n
  <2> QED BY <1>4, <1>5, <2>1, IsASeq
<1>7. \A k \in 0 .. Len(Route(bot.pos, to)) : SubSeq(Route(bot.pos, to), 1, k) \in Seq(Nodes)
  BY <1>6, SubSeqProperties, ElementOfSeq, LenProperties
<1> QED BY <1>6, <1>7 DEF Searched

-----------------------------------------------------------------------------
(* Control.                                                                *)

LEMMA One == 1 \in Cells
BY NavigationAssumption DEF Cells

LEMMA ReturnControl ==
  ASSUME NEW ACTION r, Return(r), heading' \in {-1, 0, 1}
  PROVE  Control'
BY One, EmptySeq DEF Return, NoPathFollowed, NoDig, Control, Locals, Where, Digging

LEMMA RetryControl ==
  ASSUME Locals, Retry, heading' \in {-1, 0, 1}
  PROVE  Control'
<1>1. CASE retries >= MaxRetries BY <1>1, ReturnControl DEF Retry
<1>2. CASE ~(retries >= MaxRetries)
  BY <1>2, EmptySeq DEF Retry, NoPathFollowed, Control, Locals, Where, Digging
<1> QED BY <1>1, <1>2

LEMMA DigReturnsControl ==
  ASSUME Control, Digging, DigReturns, UNCHANGED heading
  PROVE  Control'
<1>1. CASE return_to = "idle" BY <1>1, ReturnControl DEF DigReturns, Control, Locals
<1>2. CASE return_to = "follow"
  <2>1. OnPath BY <1>2 DEF Control, Where
  <2>2. OnPath' BY <1>2, <2>1 DEF OnPath, DigReturns
  <2>3. Locals' BY <1>2, One DEF DigReturns, NoDig, Control, Locals
  <2>4. pc' = "follow" BY <1>2 DEF DigReturns
  <2> QED BY <2>2, <2>3, <2>4 DEF Control, Where, Digging
<1> QED BY <1>1, <1>2 DEF Control, Locals

\* What stays where it is.
LEMMA SameControl ==
  ASSUME Control, UNCHANGED <<pc, call, heading>>
  PROVE  Control'
BY DEF Control, Locals, Where, OnPath, Digging, call

\* A call that is not digging, following or walking afterwards.
LEMMA ElsewhereControl ==
  ASSUME Control, UNCHANGED call, heading' \in {-1, 0, 1}, pc' \in {"arrived", "pause", "goto"}
  PROVE  Control'
BY DEF Control, Locals, Where, Digging, call

LEMMA DigControl ==
  ASSUME Control, Digging, UNCHANGED <<call, heading>>,
         pc' \in {"settle", "face", "start", "mine", "swing", "finish", "linger", "predict"}
  PROVE  Control'
BY DEF Control, Locals, Where, OnPath, Digging, call

LEMMA GotoControl ==
  ASSUME Types, Control, Arrive \/ Arrived \/ GotoTimesOut \/ FindsPath \/ Paused
  PROVE  Control'
<1>1. CASE Arrive BY <1>1, ElsewhereControl DEF Arrive
<1>2. CASE Arrived
  <2>1. CASE Return("true") /\ UNCHANGED heading BY <2>1, ReturnControl DEF Control, Locals
  <2>2. CASE UNCHANGED <<pc, call, heading>> BY <2>2, SameControl
  <2> QED BY <1>2, <2>1, <2>2 DEF Arrived, Waits
<1>3. CASE GotoTimesOut BY <1>3, ReturnControl DEF GotoTimesOut
<1>4. CASE FindsPath
  <2>1. PICK found \in Searched(bot.pos, goal) :
          IF found.path = <<>> THEN FindsNothing(found.status)
          ELSE /\ path' = found.path
               /\ idx' = Nearest(found.path)
               /\ dig_progress' = 0
               /\ pc' = "follow"
               /\ UNCHANGED <<heading, goal, retries, target, slow, return_to, result, left>>
    BY <1>4 DEF FindsPath
  <2>2. CASE found.path = <<>>
    <3>1. CASE heading' = 0 /\ Return("false") BY <3>1, ReturnControl
    <3>2. CASE pc' = "pause" /\ UNCHANGED <<heading, goal, path, idx, dig_progress, target, slow, return_to, result>>
      BY <3>2 DEF Control, Locals, Where, Digging
    <3> QED BY <2>1, <2>2, <3>1, <3>2 DEF FindsNothing
  <2>3. CASE found.path # <<>>
    <3>1. bot.pos \in Int /\ bot.world \in [Cells -> Blocks] BY DEF Types, BotStates
    <3>2. goal \in Int BY DEF Control, Locals, Cells
    <3>3. found.path \in Seq(Nodes) BY <3>1, <3>2, SearchedType
    <3>4. Nearest(found.path) \in 1 .. Len(found.path) BY <2>3, <3>1, <3>3, NearestType
    <3>5. path' \in Seq(Nodes) /\ idx' \in 1 .. Len(path') /\ dig_progress' = 0 BY <2>1, <2>3, <3>3, <3>4
    <3>6. OnPath'
      <4>1. path'[idx'] \in Nodes BY <3>5, ElementOfSeq
      <4>2. Len(path'[idx'].to_break) \in Nat BY <4>1 DEF Nodes
      <4> QED BY <3>5, <4>2 DEF OnPath
    <3>7. idx' \in Nat BY <3>5, LenProperties
    <3>8. pc' = "follow" /\ UNCHANGED <<heading, goal, target, return_to>> BY <2>1, <2>3
    <3> QED BY <3>5, <3>6, <3>7, <3>8 DEF Control, Locals, Where, Digging
  <2> QED BY <2>2, <2>3
<1>5. CASE Paused
  <2>1. CASE pc' = "goto" /\ UNCHANGED <<left, call, heading>> BY <2>1, ElsewhereControl DEF Control, Locals
  <2>2. CASE UNCHANGED <<pc, call, heading>> BY <2>2, SameControl
  <2> QED BY <1>5, <2>1, <2>2 DEF Paused, Waits
<1> QED BY <1>1, <1>2, <1>3, <1>4, <1>5

\* The node a path is at, and what is to be broken for it.
LEMMA NodeOnPath ==
  ASSUME Locals, idx \in 1 .. Len(path)
  PROVE  path[idx] \in Nodes /\ Len(path[idx].to_break) \in {0, 1}
<1>1. path[idx] \in Nodes BY ElementOfSeq DEF Locals
<1>2. \A c \in Cells : Len(<<c>>) = 1 OBVIOUS
<1> QED BY <1>1, <1>2 DEF Nodes

LEMMA FollowControl ==
  ASSUME Types, Control,
         FollowTimesOut \/ PathEnds \/ NextWaypoint \/ BreakNext \/ CannotPlace \/ WalkOn \/ Walking
  PROVE  Control'
<1> USE DEF Control
<1>1. CASE FollowTimesOut BY <1>1, RetryControl DEF FollowTimesOut
<1>2. CASE PathEnds BY <1>2, RetryControl DEF PathEnds
<1>3. CASE NextWaypoint
  <2>1. /\ idx \in 1 .. Len(path) /\ idx' = idx + 1 /\ dig_progress' = 0 /\ Len(path) \in Nat
        /\ pc' = "follow" /\ UNCHANGED <<heading, goal, path, target, return_to>>
    BY <1>3, LenProperties DEF NextWaypoint, Where, Locals, OnPath
  <2>2. Locals' BY <2>1 DEF Locals
  <2>3. OnPath' \/ idx' = Len(path') + 1
    <3>1. CASE idx = Len(path) BY <2>1, <3>1
    <3>2. CASE idx # Len(path)
      <4>1. idx' \in 1 .. Len(path') BY <2>1, <3>2
      <4>2. path'[idx'] \in Nodes BY <4>1, <2>2, ElementOfSeq DEF Locals
      <4>3. 0 <= Len(path'[idx'].to_break) BY <4>2 DEF Nodes
      <4> QED BY <2>1, <4>1, <4>3 DEF OnPath
    <3> QED BY <3>1, <3>2
  <2> QED BY <2>1, <2>2, <2>3 DEF Where, Digging
<1>4. CASE BreakNext
  <2>1. OnPath BY <1>4 DEF BreakNext, Where, OnPath, Locals
  <2>2. path[idx] \in Nodes /\ Len(path[idx].to_break) \in {0, 1} BY <2>1, NodeOnPath DEF OnPath
  <2>3. dig_progress = 0 /\ Len(path[idx].to_break) = 1 BY <1>4, <2>2 DEF BreakNext, Locals
  <2>4. path[idx].to_break[1] \in Cells BY <2>2, <2>3 DEF Nodes
  <2>5. dig_progress' = 1 /\ UNCHANGED <<goal, path, idx>> BY <1>4, <2>3 DEF BreakNext
  <2>6. OnPath' BY <2>1, <2>3, <2>5 DEF OnPath
  <2>7. CASE BeginDig(path[idx].to_break[1], "follow")
    BY <2>4, <2>5, <2>6, <2>7 DEF BeginDig, Locals, Where, Digging
  <2>8. CASE UNCHANGED <<heading, target, return_to, pc, left>>
    BY <1>4, <2>5, <2>6, <2>8 DEF BreakNext, Locals, Where, Digging
  <2> QED BY <1>4, <2>3, <2>7, <2>8 DEF BreakNext
<1>5. CASE CannotPlace BY <1>5, RetryControl DEF CannotPlace
<1>6. CASE WalkOn
  <2>1. OnPath BY <1>6 DEF WalkOn, NothingToBreak, Where, OnPath, Locals
  <2>2. Len(path[idx].to_break) \in {0, 1} BY <2>1, NodeOnPath DEF OnPath
  <2>3. dig_progress = Len(path[idx].to_break)
    BY <1>6, <2>1, <2>2 DEF WalkOn, NothingToBreak, OnPath, Locals
  <2>4. heading' \in {-1, 1} /\ pc' = "walking" /\ UNCHANGED call BY <1>6 DEF WalkOn
  <2> QED BY <2>1, <2>3, <2>4 DEF Locals, Where, OnPath, Digging, call
<1>7. CASE Walking
  <2>1. CASE pc' = "follow" /\ UNCHANGED <<heading, left, call>>
    BY <1>7, <2>1 DEF Walking, Locals, Where, OnPath, Digging, call
  <2>2. CASE heading' = 0 /\ Retry BY <2>2, RetryControl
  <2>3. CASE Return("false") /\ UNCHANGED heading BY <2>3, ReturnControl DEF Locals
  <2> QED BY <1>7, <2>1, <2>2, <2>3 DEF Walking
<1> QED BY <1>1, <1>2, <1>3, <1>4, <1>5, <1>6, <1>7

LEMMA DiggingControl ==
  ASSUME Types, Control,
         \/ Settle \/ Face \/ StartDig \/ MineEnds \/ Swing \/ Mine \/ Finish \/ Linger \/ Predict
  PROVE  Control'
<1> USE DEF Digging
<1>1. CASE Settle
  <2>1. CASE DigReturns /\ UNCHANGED heading BY <1>1, <2>1, DigReturnsControl DEF Settle
  <2>2. CASE DigRest /\ pc' \in {"settle", "face"} BY <1>1, <2>2, DigControl DEF Settle, DigRest
  <2> QED BY <1>1, <2>1, <2>2 DEF Settle
<1>2. CASE Face
  <2>1. UNCHANGED <<call, heading>> /\ pc' \in {"face", "start"} BY <1>2 DEF Face, Waits
  <2> QED BY <1>2, <2>1, DigControl DEF Face
<1>3. CASE StartDig BY <1>3 DEF StartDig, Control, Locals, Where, OnPath
<1>4. CASE MineEnds BY <1>4, DigControl DEF MineEnds, DigRest
<1>5. CASE Swing BY <1>5, DigControl DEF Swing, DigRest
<1>6. CASE Mine
  <2>1. UNCHANGED <<call, heading>> /\ pc' \in {"swing", "mine", "finish"} BY <1>6 DEF Mine, Waits, Swung
  <2> QED BY <1>6, <2>1, DigControl DEF Mine
<1>7. CASE Finish BY <1>7, DigControl DEF Finish, DigRest
<1>8. CASE Linger
  <2>1. UNCHANGED <<call, heading>> /\ pc' \in {"linger", "predict"} BY <1>8 DEF Linger, DigRest
  <2> QED BY <1>8, <2>1, DigControl DEF Linger
<1>9. CASE Predict BY <1>9, DigReturnsControl DEF Predict
<1> QED BY <1>1, <1>2, <1>3, <1>4, <1>5, <1>6, <1>7, <1>8, <1>9

LEMMA CalledControl ==
  ASSUME Control, Called \/ NextEvent \/ WriteFails
  PROVE  Control'
<1>1. ASSUME NEW g \in Goals, CallGoto(g) PROVE Control'
  BY <1>1, NavigationAssumption DEF CallGoto, MayCall, Control, Locals, Where, Digging
<1>2. ASSUME NEW c \in Sites, CallDig(c) PROVE Control'
  BY <1>2, NavigationAssumption DEF CallDig, BeginDig, MayCall, Control, Locals, Where, Digging
<1>3. ASSUME NEW c \in Sites, CallPlace(c) PROVE Control'
  BY <1>3, SameControl DEF CallPlace
<1>4. CASE NextEvent BY <1>4, SameControl DEF NextEvent
<1>5. CASE WriteFails BY <1>5, ReturnControl DEF WriteFails, Control, Locals
<1> QED BY <1>1, <1>2, <1>3, <1>4, <1>5 DEF Called

LEMMA BotControl ==
  ASSUME Types, Control, Bot
  PROVE  Control'
BY GotoControl, FollowControl, DiggingControl, CalledControl DEF Bot, Proceed

-----------------------------------------------------------------------------
(* What a step of the bot may do to what it shares with the server.        *)

Quiet == UNCHANGED <<bot, last_sent, to_bot, to_server>>
Says == \E k \in {"start", "finish"}, c \in Cells :
          Send([kind |-> k, cell |-> c]) /\ UNCHANGED <<bot, last_sent, to_bot>>
Places == \E c \in Cells : PlaceBlock(c) /\ UNCHANGED <<last_sent, to_bot>>
Guesses == \E c \in Cells : bot' = Guess(c, Air) /\ UNCHANGED <<last_sent, to_bot, to_server>>

Shape ==
  /\ Quiet \/ PhysicsTick \/ HandlePacket \/ Says \/ Places \/ Guesses
  /\ UNCHANGED <<server, connected, teleports, changes>>
  /\ ended' \in {ended, TRUE}

LEMMA WaitsShape ==
  ASSUME NEW ACTION next, Waits(next)
  PROVE  (Quiet \/ PhysicsTick \/ HandlePacket) /\ ended' \in {ended, TRUE}
BY DEF Waits, Quiet, PhysicsTick, HandlePacket, Disconnected

LEMMA DrivenShape ==
  ASSUME Driven \/ Disconnected
  PROVE  (Quiet \/ PhysicsTick \/ HandlePacket) /\ ended' \in {ended, TRUE}
BY DEF Driven, Quiet, PhysicsTick, HandlePacket, Disconnected

LEMMA BotShape ==
  ASSUME Control, Bot
  PROVE  Shape
<1> DEFINE some == /\ Quiet \/ PhysicsTick \/ HandlePacket \/ Says \/ Places \/ Guesses
                   /\ ended' \in {ended, TRUE}
<1> SUFFICES some BY DEF Bot, Shape
<1>1. CASE Arrive \/ GotoTimesOut \/ FindsPath \/ WriteFails
  BY <1>1 DEF Arrive, GotoTimesOut, FindsPath, WriteFails, Quiet
<1>2. CASE Arrived \/ Paused \/ Face \/ Mine
  BY <1>2, WaitsShape DEF Arrived, Paused, Face, Mine
<1>3. CASE FollowTimesOut \/ PathEnds \/ NextWaypoint \/ BreakNext \/ CannotPlace \/ WalkOn
  BY <1>3 DEF FollowTimesOut, PathEnds, NextWaypoint, BreakNext, CannotPlace, WalkOn, FollowRest, Quiet
<1>4. CASE Walking \/ Settle \/ Linger \/ NextEvent
  BY <1>4, DrivenShape DEF Walking, Settle, Linger, NextEvent
<1>5. CASE MineEnds \/ Swing BY <1>5 DEF MineEnds, Swing, Quiet
<1>6. CASE StartDig \/ Finish BY <1>6 DEF StartDig, Finish, Says, Control, Locals
<1>7. CASE Predict
  <2>1. target \in Cells BY DEF Control, Locals
  <2> QED BY <1>7, <2>1 DEF Predict, Guesses, Quiet
<1>8. CASE Called
  <2>1. ASSUME NEW g \in Goals, CallGoto(g) PROVE some BY <2>1 DEF CallGoto, Quiet
  <2>2. ASSUME NEW c \in Sites, CallDig(c) PROVE some BY <2>2 DEF CallDig, Quiet
  <2>3. ASSUME NEW c \in Sites, CallPlace(c) PROVE some
    BY <2>3, NavigationAssumption DEF CallPlace, Places
  <2> QED BY <1>8, <2>1, <2>2, <2>3 DEF Called
<1> HIDE DEF some
<1> QED BY <1>1, <1>2, <1>3, <1>4, <1>5, <1>6, <1>7, <1>8 DEF Bot, Proceed

-----------------------------------------------------------------------------
(* Types.                                                                  *)

LEMMA SendType ==
  ASSUME Types, NEW m \in ToServer, Send(m)
  PROVE  to_server' \in Seq(ToServer)
BY AppendProperties DEF Send, Types

\* A tick moves the bot's position and tells the server what is new.
LEMMA TickMoves ==
  ASSUME Types, heading \in {-1, 0, 1}, PhysicsTick
  PROVE  \/ UNCHANGED <<bot, last_sent, to_server, to_bot>>
         \/ \E p \in Int, v \in {-1, 0, 1} :
              /\ bot' = [bot EXCEPT !.pos = p, !.vel = v]
              /\ last_sent' = <<p>>
              /\ \/ last_sent = <<p>> /\ UNCHANGED to_server
                 \/ [kind |-> "move", pos |-> p] \in ToServer /\ Send([kind |-> "move", pos |-> p])
              /\ UNCHANGED to_bot
<1>1. CASE UNCHANGED <<bot, last_sent, to_server>> BY <1>1 DEF PhysicsTick
<1>2. ASSUME NEW v \in {0, IF heading = 0 THEN bot.vel ELSE heading},
             NEW p, p = (IF At(bot.world, bot.pos + v) = Air THEN bot.pos + v ELSE bot.pos),
             bot' = [bot EXCEPT !.pos = p, !.vel = IF heading = 0 THEN 0 ELSE p - bot.pos],
             last_sent' = <<p>>,
             IF last_sent = <<p>> THEN UNCHANGED to_server ELSE Send([kind |-> "move", pos |-> p])
      PROVE  \E q \in Int, u \in {-1, 0, 1} :
              /\ bot' = [bot EXCEPT !.pos = q, !.vel = u]
              /\ last_sent' = <<q>>
              /\ \/ last_sent = <<q>> /\ UNCHANGED to_server
                 \/ [kind |-> "move", pos |-> q] \in ToServer /\ Send([kind |-> "move", pos |-> q])
              /\ UNCHANGED to_bot
  <2>1. bot.pos \in Int /\ v \in {-1, 0, 1} BY <1>2 DEF Types, BotStates
  <2>2. p \in Int /\ p - bot.pos \in {-1, 0, 1} BY <1>2, <2>1
  <2>3. PICK u \in {-1, 0, 1} : u = IF heading = 0 THEN 0 ELSE p - bot.pos BY <2>2
  <2>4. [kind |-> "move", pos |-> p] \in ToServer BY <2>2 DEF ToServer
  <2>5. UNCHANGED to_bot BY DEF PhysicsTick
  <2> QED BY <1>2, <2>2, <2>3, <2>4, <2>5
<1> QED BY <1>1, <1>2 DEF PhysicsTick

\* A packet is a teleport, which is accepted, or the block of a cell.
LEMMA Handles ==
  ASSUME Types, HandlePacket
  PROVE  /\ to_bot # <<>> /\ to_bot' = Tail(to_bot) /\ to_bot' \in Seq(ToBot)
         /\ \/ \E m \in Moving, p \in Int :
                 /\ m = Head(to_bot)
                 /\ bot' = [bot EXCEPT !.pos = p, !.vel = 0, !.physics = TRUE]
                 /\ last_sent' = <<>>
                 /\ [kind |-> "accept", id |-> m.id] \in ToServer /\ Send([kind |-> "accept", id |-> m.id])
            \/ \E m \in Telling :
                 /\ m = Head(to_bot)
                 /\ bot' = [bot EXCEPT !.world[m.cell] = m.block, !.guessed = @ \ {m.cell}]
                 /\ UNCHANGED <<last_sent, to_server>>
<1>0. to_bot # <<>> /\ to_bot' = Tail(to_bot) /\ to_bot' \in Seq(ToBot) /\ Head(to_bot) \in ToBot
  BY HeadTailProperties DEF HandlePacket, Types
<1>1. PICK m \in ToBot : m = Head(to_bot) BY <1>0
<1>2. CASE m.kind = "teleport" /\ HandlePosition(m)
  <2>1. m \in Moving BY <1>2 DEF ToBot, Telling
  <2>2. PICK p \in Int : p = IF m.rel THEN bot.pos + m.v ELSE m.v BY <2>1 DEF Moving, Types, BotStates
  <2>3. [kind |-> "accept", id |-> m.id] \in ToServer BY <2>1 DEF Moving, ToServer
  <2>4. bot' = [bot EXCEPT !.pos = p, !.vel = 0, !.physics = TRUE] BY <1>2, <2>2 DEF HandlePosition
  <2> QED BY <1>0, <1>1, <1>2, <2>1, <2>3, <2>4 DEF HandlePosition
<1>3. CASE m.kind = "block" /\ HandleBlock(m)
  <2>1. m \in Telling BY <1>3 DEF ToBot, Moving
  <2> QED BY <1>0, <1>1, <1>3, <2>1 DEF HandleBlock
<1> QED BY <1>1, <1>2, <1>3 DEF HandlePacket

LEMMA ShapeTypes ==
  ASSUME Types, heading \in {-1, 0, 1}, Shape
  PROVE  Types'
<1>0. UNCHANGED <<server, connected, teleports>> /\ ended' \in BOOLEAN BY DEF Shape, Types
<1>1. CASE UNCHANGED <<bot, last_sent, to_bot, to_server>> BY <1>0, <1>1 DEF Types
<1>2. CASE PhysicsTick
  <2>1. ASSUME NEW p \in Int, NEW v \in {-1, 0, 1},
               bot' = [bot EXCEPT !.pos = p, !.vel = v], last_sent' = <<p>>, UNCHANGED to_bot,
               \/ UNCHANGED to_server
               \/ [kind |-> "move", pos |-> p] \in ToServer /\ Send([kind |-> "move", pos |-> p])
        PROVE  Types'
    <3>1. bot' \in BotStates BY <2>1 DEF Types, BotStates
    <3>2. to_server' \in Seq(ToServer) BY <2>1, SendType DEF Types
    <3> QED BY <1>0, <2>1, <3>1, <3>2 DEF Types
  <2> QED BY <1>1, <1>2, <2>1, TickMoves
<1>3. CASE HandlePacket
  <2>1. to_bot' \in Seq(ToBot) BY <1>3, Handles
  <2>2. ASSUME NEW m \in Moving, NEW p \in Int, bot' = [bot EXCEPT !.pos = p, !.vel = 0, !.physics = TRUE],
               last_sent' = <<>>, [kind |-> "accept", id |-> m.id] \in ToServer, Send([kind |-> "accept", id |-> m.id])
        PROVE  Types'
    <3>1. bot' \in BotStates BY <2>2 DEF Types, BotStates
    <3>2. to_server' \in Seq(ToServer) BY <2>2, SendType
    <3> QED BY <1>0, <2>1, <2>2, <3>1, <3>2 DEF Types
  <2>3. ASSUME NEW m \in Telling, bot' = [bot EXCEPT !.world[m.cell] = m.block, !.guessed = @ \ {m.cell}],
               UNCHANGED <<last_sent, to_server>>
        PROVE  Types'
    <3>1. bot' \in BotStates BY <2>3 DEF Types, BotStates, Telling
    <3> QED BY <1>0, <2>1, <2>3, <3>1 DEF Types
  <2> QED BY <1>3, <2>2, <2>3, Handles
<1>4. CASE Says
  <2>1. PICK k \in {"start", "finish"}, c \in Cells :
          Send([kind |-> k, cell |-> c]) /\ UNCHANGED <<bot, last_sent, to_bot>>
    BY <1>4 DEF Says
  <2>2. [kind |-> k, cell |-> c] \in ToServer BY DEF ToServer
  <2>3. to_server' \in Seq(ToServer) BY <2>1, <2>2, SendType
  <2> QED BY <1>0, <2>1, <2>3 DEF Types
<1>5. CASE Places
  <2>1. PICK c \in Cells : PlaceBlock(c) /\ UNCHANGED <<last_sent, to_bot>> BY <1>5 DEF Places
  <2>2. [kind |-> "place", cell |-> c] \in ToServer BY DEF ToServer
  <2>3. to_server' \in Seq(ToServer) BY <2>1, <2>2, SendType DEF PlaceBlock
  <2>4. bot' \in BotStates
    BY <2>1 DEF PlaceBlock, Guess, Types, BotStates, Blocks
  <2> QED BY <1>0, <2>1, <2>3, <2>4 DEF Types
<1>6. CASE Guesses
  <2>1. PICK c \in Cells : bot' = Guess(c, Air) /\ UNCHANGED <<last_sent, to_bot, to_server>>
    BY <1>6 DEF Guesses
  <2>2. bot' \in BotStates BY <2>1 DEF Guess, Types, BotStates, Blocks
  <2> QED BY <1>0, <2>1, <2>2 DEF Types
<1> QED BY <1>1, <1>2, <1>3, <1>4, <1>5, <1>6 DEF Shape, Quiet

\* A step of the server: what it takes from the queue, or what it does by
\* itself.
LEMMA UpdateType ==
  ASSUME Types, NEW c \in Cells, NEW b \in Blocks
  PROVE  Update(c, b) \in ToBot /\ Append(to_bot, Update(c, b)) \in Seq(ToBot)
<1>1. Update(c, b) \in ToBot BY DEF Update, ToBot, Telling
<1> QED BY <1>1, AppendProperties DEF Types

LEMMA TeleportTypes ==
  ASSUME Types, NEW k \in [v : Int, rel : BOOLEAN], Teleport(k)
  PROVE  server' \in ServerStates /\ to_bot' \in Seq(ToBot) /\ teleports' \in Nat
<1>1. [kind |-> "teleport", id |-> teleports + 1, v |-> k.v, rel |-> k.rel] \in ToBot
  BY DEF Types, ToBot, Moving
<1>2. to_bot' \in Seq(ToBot) BY <1>1, AppendProperties DEF Teleport, Types
<1>3. server' \in ServerStates
  <2> DEFINE p == IF k.rel THEN server.pos + k.v ELSE k.v
  <2>1. p \in Int BY DEF Types, ServerStates
  <2>2. server' = [server EXCEPT !.pos = p, !.awaiting = teleports + 1] BY DEF Teleport
  <2>3. teleports + 1 \in Nat BY DEF Types
  <2>4. server \in ServerStates BY DEF Types
  <2> HIDE DEF p
  <2> QED BY <2>1, <2>2, <2>3, <2>4 DEF ServerStates
<1> QED BY <1>2, <1>3 DEF Teleport, Types

LEMMA RefuseTypes ==
  ASSUME Types, NEW c \in Cells, Refuse(c)
  PROVE  server' \in ServerStates /\ to_bot' \in Seq(ToBot)
<1>1. server.world[c] \in Blocks BY DEF Types, ServerStates
<1> QED BY <1>1, UpdateType DEF Refuse, Types, ServerStates

LEMMA SetsTypes ==
  ASSUME Types, NEW c \in Cells, NEW b \in Blocks, Sets(c, b)
  PROVE  server' \in ServerStates /\ to_bot' \in Seq(ToBot)
<1>1. Append(to_bot, Update(c, b)) \in Seq(ToBot) /\ to_bot \in Seq(ToBot) BY UpdateType DEF Types
<1>2. server \in ServerStates BY DEF Types
<1>3. to_bot' \in Seq(ToBot) BY <1>1 DEF Sets
<1>4. server' \in ServerStates
  <2>1. CASE server' = [server EXCEPT !.mining = 0, !.world[c] = b, !.silent = @ \cup {c}]
    BY <1>2, <2>1 DEF ServerStates
  <2>2. CASE server' = [server EXCEPT !.mining = 0, !.world[c] = b, !.silent = @ \ {c}]
    BY <1>2, <2>2 DEF ServerStates
  <2> QED BY <2>1, <2>2 DEF Sets
<1> QED BY <1>3, <1>4

\* What is taken is the oldest message, each kind as its own type.
LEMMA TakenType ==
  ASSUME Types, to_server # <<>>
  PROVE  /\ Head(to_server) \in ToServer
         /\ Tail(to_server) \in Seq(ToServer)
         /\ Head(to_server).kind = "move" => Head(to_server).pos \in Int
         /\ Head(to_server).kind = "accept" => Head(to_server).id \in Nat
         /\ Head(to_server).kind \in {"start", "finish", "place"} => Head(to_server).cell \in Cells
<1>1. Head(to_server) \in ToServer /\ Tail(to_server) \in Seq(ToServer) BY HeadTailProperties DEF Types
<1> QED BY <1>1 DEF ToServer

LEMMA ServerTypes ==
  ASSUME Types, Server
  PROVE  Types'
<1>0. UNCHANGED <<bot, last_sent, ended>> BY DEF Server
<1> SUFFICES /\ server' \in ServerStates /\ to_bot' \in Seq(ToBot) /\ to_server' \in Seq(ToServer)
             /\ connected' \in BOOLEAN /\ teleports' \in Nat
  BY <1>0 DEF Types
<1>1. CASE ServerTakes
  <2> DEFINE m == Head(to_server)
  <2>0. to_server' = Tail(to_server) /\ to_server # <<>> /\ UNCHANGED connected BY <1>1 DEF ServerTakes
  <2> HIDE DEF m
  <2>1. to_server' \in Seq(ToServer) /\ connected' \in BOOLEAN BY <2>0, TakenType DEF Types
  <2>2. CASE m.kind = "move" /\ TakeMove(m)
    <3>1. m.pos \in Int BY <2>0, <2>2, TakenType DEF m
    <3>2. CASE server' = [server EXCEPT !.pos = IF server.awaiting = 0 THEN m.pos ELSE @]
               /\ UNCHANGED <<to_bot, teleports>>
      BY <2>1, <3>1, <3>2 DEF Types, ServerStates
    <3>3. CASE Teleport([v |-> server.pos, rel |-> FALSE])
      BY <2>1, <3>3, TeleportTypes DEF Types, ServerStates
    <3> QED BY <2>2, <3>2, <3>3 DEF TakeMove
  <2>3. CASE m.kind = "accept" /\ TakeAccept(m)
    BY <2>1, <2>3 DEF TakeAccept, Types, ServerStates
  <2>4. CASE m.kind = "start" /\ TakeStart(m)
    <3>1. m.cell \in Cells BY <2>0, <2>4, TakenType DEF m
    <3>2. CASE Refuse(m.cell) BY <2>1, <2>4, <3>1, <3>2, RefuseTypes DEF TakeStart, Types
    <3>3. CASE server' = [server EXCEPT !.mining = m.cell] /\ UNCHANGED to_bot
      <4>1. m.cell \in Nat BY <3>1 DEF Cells
      <4> QED BY <2>1, <2>4, <3>3, <4>1 DEF TakeStart, Types, ServerStates
    <3> QED BY <2>4, <3>2, <3>3 DEF TakeStart
  <2>5. CASE m.kind = "finish" /\ TakeFinish(m)
    <3>1. m.cell \in Cells BY <2>0, <2>5, TakenType DEF m
    <3> QED BY <2>1, <2>5, <3>1, RefuseTypes, SetsTypes DEF TakeFinish, Types, Blocks
  <2>6. CASE m.kind = "place" /\ TakePlace(m)
    <3>1. m.cell \in Cells BY <2>0, <2>6, TakenType DEF m
    <3> QED BY <2>1, <2>6, <3>1, RefuseTypes, SetsTypes DEF TakePlace, Types, Blocks
  <2> QED BY <1>1, <2>2, <2>3, <2>4, <2>5, <2>6 DEF ServerTakes, m
<1>2. CASE ServerTeleports
  BY <1>2, TeleportTypes, NavigationAssumption DEF ServerTeleports, Types
<1>3. CASE ServerSets
  <2>1. PICK c \in Sites, b \in {Air, Soft} :
          /\ server' = [server EXCEPT !.world[c] = b, !.silent = @ \ {c}]
          /\ to_bot' = Append(to_bot, Update(c, b))
    BY <1>3 DEF ServerSets
  <2>2. c \in Cells /\ b \in Blocks BY NavigationAssumption DEF Blocks
  <2>3. server' \in ServerStates BY <2>1, <2>2 DEF Types, ServerStates
  <2> QED BY <1>3, <2>1, <2>2, <2>3, UpdateType DEF ServerSets, Types
<1>4. CASE ServerLeaves BY <1>4, EmptySeq DEF ServerLeaves, Types
<1> QED BY <1>1, <1>2, <1>3, <1>4 DEF Server

Base == Types /\ Control

LEMMA InitBase == Init => Base
<1> SUFFICES ASSUME Init PROVE Base OBVIOUS
<1>1. Control
  BY One, EmptySeq DEF Init, Control, Locals, Where, Digging
<1>2. Types
  <2>1. PICK w \in Worlds :
          /\ bot = [pos |-> 0, vel |-> 0, physics |-> FALSE, world |-> w, guessed |-> {}]
          /\ server = [pos |-> 1, awaiting |-> 1, mining |-> 0, world |-> w, silent |-> {}]
    BY DEF Init
  <2>2. w \in [Cells -> Blocks] BY NavigationAssumption DEF Blocks
  <2>3. bot \in BotStates /\ server \in ServerStates BY <2>1, <2>2 DEF BotStates, ServerStates
  <2>4. [kind |-> "teleport", id |-> 1, v |-> 1, rel |-> FALSE] \in ToBot BY DEF ToBot, Moving
  <2>5. to_bot \in Seq(ToBot) BY <2>4 DEF Init
  <2> QED BY <2>3, <2>5, EmptySeq DEF Init, Types
<1> QED BY <1>1, <1>2 DEF Base

LEMMA NextBase == Base /\ [Next]_vars => Base'
<1> SUFFICES ASSUME Types, Control, [Next]_vars PROVE Types' /\ Control' BY DEF Base
<1>1. CASE Bot
  <2>1. heading \in {-1, 0, 1} BY DEF Control, Locals
  <2> QED BY <1>1, <2>1, BotControl, BotShape, ShapeTypes
<1>2. CASE Server
  <2>1. Control' BY <1>2, SameControl DEF Server
  <2> QED BY <1>2, <2>1, ServerTypes
<1>3. CASE UNCHANGED vars
  <2>1. Control' BY <1>3, SameControl DEF vars
  <2> QED BY <1>3, <2>1 DEF vars, counts, Types
<1> QED BY <1>1, <1>2, <1>3 DEF Next

LEMMA Based == Spec => []Base
BY InitBase, NextBase, PTL DEF Spec

LEMMA BaseTypeOK == Base => TypeOK
<1> SUFFICES ASSUME Types, Control PROVE TypeOK BY DEF Base
<1>1. bot.world \in [Cells -> {Air, Soft, Hard}] /\ bot.vel \in {-1, 0, 1} /\ bot.physics \in BOOLEAN
  BY DEF Types, BotStates, Blocks
<1>2. Len(path) \in Nat BY LenProperties DEF Control, Locals
<1>3. OnPath => idx \in 1 .. Len(path) + 1 /\ idx \in 1 .. Len(path) BY <1>2 DEF OnPath
<1>4. idx = Len(path) + 1 => idx \in 1 .. Len(path) + 1 BY <1>2
<1> QED BY <1>1, <1>3, <1>4 DEF TypeOK, Control, Locals, Where

-----------------------------------------------------------------------------
(* How a call ends.                                                        *)

LEMMA DigReturnsTrue ==
  ASSUME DigReturns, Control
  PROVE  pc' = "idle" => result' = "true"
BY DEF DigReturns, Return, Control, Locals

LEMMA FailingStep ==
  ASSUME Control, Bot, pc # "idle", pc' = "idle", result' = "false", ~ended'
  PROVE  bot'.pos # goal
<1>1. CASE GotoTimesOut \/ FindsPath
  BY <1>1 DEF GotoTimesOut, FindsPath, FindsNothing
<1>2. CASE Arrive \/ Arrived \/ Paused
  BY <1>2 DEF Arrive, Arrived, Paused, Waits, Return, call
<1>3. CASE FollowTimesOut \/ PathEnds \/ CannotPlace
  BY <1>3 DEF FollowTimesOut, PathEnds, CannotPlace, Retry, Return
<1>4. CASE NextWaypoint \/ WalkOn
  BY <1>4 DEF NextWaypoint, WalkOn
<1>5. CASE BreakNext
  BY <1>5 DEF BreakNext, BeginDig
<1>6. CASE Walking
  <2>1. CASE Retry BY <2>1 DEF Retry, Return
  <2>2. CASE pc' = "follow" BY <2>2
  <2>3. CASE Disconnected BY <2>3 DEF Disconnected
  <2> QED BY <1>6, <2>1, <2>2, <2>3 DEF Walking
<1>7. CASE Settle
  <2>1. CASE DigReturns BY <2>1, DigReturnsTrue
  <2> QED BY <1>7, <2>1 DEF Settle
<1>8. CASE Face \/ StartDig \/ MineEnds \/ Swing \/ Mine \/ Finish \/ Linger
  BY <1>8 DEF Face, StartDig, MineEnds, Swing, Mine, Swung, Finish, Linger, Waits
<1>9. CASE Predict BY <1>9, DigReturnsTrue DEF Predict
<1>10. CASE WriteFails BY <1>10 DEF WriteFails
<1>11. ~NextEvent /\ ~Called
  BY DEF NextEvent, Called, CallGoto, CallDig, CallPlace, MayCall
<1> QED BY <1>1, <1>2, <1>3, <1>4, <1>5, <1>6, <1>7, <1>8, <1>9, <1>10, <1>11 DEF Bot, Proceed

\* goto (bot/mod.rs 1306-1376) answers false only where the goal is not,
\* however long the way and however often the server moves the bot.
THEOREM FailureIsElsewhere == Spec => FailsElsewhere
<1>1. Base /\ [Next]_vars => [pc # "idle" /\ pc' = "idle" /\ result' = "false" /\ ~ended' => bot'.pos # goal]_vars
  BY FailingStep DEF Base, Next, Server
<1> QED BY <1>1, Based, PTL DEF Spec, FailsElsewhere

-----------------------------------------------------------------------------
(* What a call leaves: the keys.                                           *)

Released == pc \in {"idle", "goto", "arrived", "pause"} /\ ~ended => heading = 0

LEMMA ReleasedStep ==
  ASSUME Control, Released, Bot
  PROVE  Released'
<1>0. ended' \in {ended, TRUE} BY BotShape DEF Shape
<1>1. CASE Arrive \/ GotoTimesOut \/ FindsPath
  BY <1>1 DEF Arrive, GotoTimesOut, FindsPath, FindsNothing, Return, Released
<1>2. CASE Arrived \/ Paused \/ NextEvent
  BY <1>0, <1>2 DEF Arrived, Paused, NextEvent, Waits, Return, Released
<1>3. CASE FollowTimesOut \/ PathEnds \/ CannotPlace \/ NextWaypoint \/ WalkOn
  BY <1>3 DEF FollowTimesOut, PathEnds, CannotPlace, NextWaypoint, WalkOn, Released
<1>4. CASE BreakNext
  BY <1>4 DEF BreakNext, BeginDig, Released
<1>5. CASE Walking
  BY <1>5 DEF Walking, Disconnected, Released
<1>6. CASE Settle \/ Face \/ StartDig \/ MineEnds \/ Swing \/ Mine \/ Finish \/ Linger \/ Predict
  <2>1. heading = 0
    BY <1>6 DEF Settle, Face, StartDig, MineEnds, Swing, Mine, Finish, Linger, Predict, Control, Where, Digging
  <2>2. UNCHANGED heading
    BY <1>6 DEF Settle, Face, StartDig, MineEnds, Swing, Mine, Finish, Linger, Predict, DigRest, Waits
  <2> QED BY <2>1, <2>2 DEF Released
<1>7. CASE WriteFails BY <1>7 DEF WriteFails, Released
<1>8. CASE Called
  BY <1>8 DEF Called, CallGoto, CallDig, CallPlace, BeginDig, MayCall, Released
<1> QED BY <1>1, <1>2, <1>3, <1>4, <1>5, <1>6, <1>7, <1>8 DEF Bot, Proceed

-----------------------------------------------------------------------------
(* What a call leaves: the dig at the server.                              *)

\* What joins the queue of the server comes after all else, and what leaves
\* it was before all else.
LEMMA Appended ==
  ASSUME NEW S, NEW q \in Seq(S), NEW m \in S
  PROVE  /\ DOMAIN q = 1 .. Len(q) /\ Len(q) \in Nat
         /\ DOMAIN Append(q, m) = 1 .. Len(q) + 1
         /\ \A i \in DOMAIN q : Append(q, m)[i] = q[i] /\ i \in DOMAIN Append(q, m) /\ i < Len(q) + 1
         /\ Len(q) + 1 \in DOMAIN Append(q, m) /\ Append(q, m)[Len(q) + 1] = m
         /\ \A i \in DOMAIN Append(q, m) : i = Len(q) + 1 \/ i \in DOMAIN q
BY AppendProperties, LenProperties

LEMMA Taken ==
  ASSUME NEW S, NEW q \in Seq(S), q # <<>>
  PROVE  /\ DOMAIN q = 1 .. Len(q) /\ Len(q) \in Nat /\ q[1] = Head(q) /\ 1 \in DOMAIN q
         /\ \A i \in DOMAIN Tail(q) : i \in Nat /\ i + 1 \in DOMAIN q /\ Tail(q)[i] = q[i + 1]
         /\ \A i \in DOMAIN q : i = 1 \/ (i > 1 /\ i - 1 \in DOMAIN Tail(q) /\ Tail(q)[i - 1] = q[i])
<1>1. Len(q) \in Nat \ {0} /\ DOMAIN q = 1 .. Len(q) BY EmptySeq, LenProperties
<1>2. Tail(q) \in Seq(S) /\ Len(Tail(q)) = Len(q) - 1 /\ \A i \in 1 .. Len(Tail(q)) : Tail(q)[i] = q[i + 1]
  BY HeadTailProperties
<1>3. DOMAIN Tail(q) = 1 .. Len(q) - 1 BY <1>2, LenProperties
<1>4. q[1] = Head(q) BY HeadTailProperties
<1> QED BY <1>1, <1>2, <1>3, <1>4

Breaking == pc \in {"mine", "swing", "finish"}
Begins(i) == i \in DOMAIN to_server /\ to_server[i].kind = "start"
Ends(i) == i \in DOMAIN to_server /\ to_server[i].kind \in {"finish", "place"}

\* Every dig that begins ends.
Closed ==
  /\ \A i \in DOMAIN to_server : Begins(i) => \E j \in DOMAIN to_server : j > i /\ Ends(j)
  /\ server.mining # 0 => \E j \in DOMAIN to_server : Ends(j)
Abandoned == connected /\ ~Breaking => Closed

\* A step that leaves no dig open: the end of one, or no beginning.
LEMMA BotBreaking ==
  ASSUME Control, Bot
  PROVE  \/ Breaking' \/ ~connected
         \/ \E c \in Cells : Send([kind |-> "finish", cell |-> c])
         \/ ~Breaking /\ (UNCHANGED to_server \/ PhysicsTick \/ HandlePacket \/ Places)
<1> SUFFICES ASSUME ~Breaking', connected
             PROVE  \/ \E c \in Cells : Send([kind |-> "finish", cell |-> c])
                    \/ ~Breaking /\ (UNCHANGED to_server \/ PhysicsTick \/ HandlePacket \/ Places)
  OBVIOUS
<1>1. CASE Finish
  <2>1. target \in Cells BY DEF Control, Locals
  <2> QED BY <1>1, <2>1 DEF Finish
<1>2. ~MineEnds /\ ~Swing /\ ~Mine /\ ~StartDig /\ ~WriteFails
  BY DEF MineEnds, Swing, Mine, StartDig, WriteFails, Waits, Swung, Breaking
<1>3. ~Finish => ~Breaking
  <2>1. CASE Called \/ NextEvent BY <2>1 DEF Called, CallGoto, CallDig, CallPlace, MayCall, NextEvent, Breaking
  <2>2. CASE Proceed
    BY <1>2, <2>2 DEF Proceed, Breaking, Arrive, Arrived, GotoTimesOut, FindsPath, Paused, FollowTimesOut, PathEnds,
       NextWaypoint, BreakNext, CannotPlace, NothingToBreak, WalkOn, Walking, Settle, Face, Linger, Predict
  <2> QED BY <2>1, <2>2 DEF Bot
<1>4. ASSUME ~Finish PROVE UNCHANGED to_server \/ PhysicsTick \/ HandlePacket \/ Places
  <2>1. CASE Called
    <3>1. ASSUME NEW g \in Goals, CallGoto(g) PROVE UNCHANGED to_server BY <3>1 DEF CallGoto
    <3>2. ASSUME NEW c \in Sites, CallDig(c) PROVE UNCHANGED to_server BY <3>2 DEF CallDig
    <3>3. ASSUME NEW c \in Sites, CallPlace(c) PROVE Places BY <3>3, NavigationAssumption DEF CallPlace, Places
    <3> QED BY <2>1, <3>1, <3>2, <3>3 DEF Called
  <2>2. CASE Arrive \/ GotoTimesOut \/ FindsPath \/ Predict
    BY <2>2 DEF Arrive, GotoTimesOut, FindsPath, Predict
  <2>3. CASE FollowTimesOut \/ PathEnds \/ NextWaypoint \/ BreakNext \/ CannotPlace \/ WalkOn
    BY <2>3 DEF FollowTimesOut, PathEnds, NextWaypoint, BreakNext, CannotPlace, WalkOn, FollowRest
  <2>4. CASE Arrived \/ Paused \/ Face
    BY <2>4, WaitsShape DEF Arrived, Paused, Face, Quiet
  <2>5. CASE Walking \/ Settle \/ Linger \/ NextEvent
    BY <2>5, DrivenShape DEF Walking, Settle, Linger, NextEvent, Quiet
  <2> QED BY <1>2, <1>4, <2>1, <2>2, <2>3, <2>4, <2>5 DEF Bot, Proceed
<1> QED BY <1>1, <1>3, <1>4

\* Whatever is sent but a start leaves every dig closed.
LEMMA ClosedSend ==
  ASSUME Types, Closed, UNCHANGED server, NEW m \in ToServer, m.kind # "start", Send(m)
  PROVE  Closed'
<1>1. CASE UNCHANGED to_server BY <1>1 DEF Closed, Begins, Ends
<1>2. CASE to_server' = Append(to_server, m)
  <2>1. to_server \in Seq(ToServer) BY DEF Types
  <2>2. \A i \in DOMAIN to_server : Ends(i) => Ends(i)' BY <1>2, <2>1, Appended DEF Ends
  <2>3. \A i \in DOMAIN to_server' : Begins(i)' => Begins(i) BY <1>2, <2>1, Appended DEF Begins
  <2> QED BY <1>2, <2>1, <2>2, <2>3, Appended DEF Closed, Begins
<1> QED BY <1>1, <1>2 DEF Send

\* An end closes whatever was open.
LEMMA FinishCloses ==
  ASSUME Types, connected, NEW c \in Cells, Send([kind |-> "finish", cell |-> c])
  PROVE  Closed'
<1> DEFINE m == [kind |-> "finish", cell |-> c]
<1>1. to_server \in Seq(ToServer) /\ m \in ToServer BY DEF Types, ToServer
<1>2. to_server' = Append(to_server, m) BY DEF Send
<1>3. m.kind = "finish" OBVIOUS
<1> HIDE DEF m
<1>4. PICK n \in Nat : n = Len(to_server) + 1 BY <1>1, Appended
<1>5. n \in DOMAIN to_server' /\ Ends(n)' BY <1>1, <1>2, <1>3, <1>4, Appended DEF Ends
<1>6. \A i \in DOMAIN to_server' : Begins(i)' => n > i
  <2> TAKE i \in DOMAIN to_server'
  <2>1. i = n \/ i \in DOMAIN to_server BY <1>1, <1>2, <1>4, Appended
  <2>2. i = n => ~Begins(i)' BY <1>1, <1>2, <1>3, <1>4, Appended DEF Begins
  <2>3. i \in DOMAIN to_server => n > i BY <1>1, <1>4, Appended
  <2> QED BY <2>1, <2>2, <2>3
<1> QED BY <1>5, <1>6 DEF Closed

\* The server takes the oldest message: a start's end is behind it, an end
\* leaves nothing being mined.
LEMMA TakesClosed ==
  ASSUME Types, Closed, ServerTakes
  PROVE  Closed'
<1> DEFINE m == Head(to_server)
<1>1. to_server \in Seq(ToServer) /\ to_server # <<>> /\ to_server' = Tail(to_server)
  BY DEF Types, ServerTakes
<1>2. to_server[1] = m /\ 1 \in DOMAIN to_server BY <1>1, Taken
<1>3. \A i \in DOMAIN to_server' : Begins(i)' => \E j \in DOMAIN to_server' : j > i /\ Ends(j)'
  <2> SUFFICES ASSUME NEW i \in DOMAIN to_server', Begins(i)'
               PROVE  \E j \in DOMAIN to_server' : j > i /\ Ends(j)'
    OBVIOUS
  <2>1. i \in Nat /\ i + 1 \in DOMAIN to_server /\ Begins(i + 1) BY <1>1, Taken DEF Begins
  <2>2. PICK j \in DOMAIN to_server : j > i + 1 /\ Ends(j) BY <2>1 DEF Closed
  <2>3. j \in Nat BY <1>1, Taken
  <2>4. j - 1 \in DOMAIN to_server' /\ to_server'[j - 1] = to_server[j] BY <1>1, <2>1, <2>2, <2>3, Taken
  <2>5. j - 1 > i BY <2>1, <2>2, <2>3
  <2>6. Ends(j - 1)' BY <2>2, <2>4 DEF Ends
  <2> QED BY <2>4, <2>5, <2>6
<1>4. m.kind \in {"finish", "place"} \/ (m.kind \in {"move", "accept", "start"})
  BY <1>1, TakenType DEF ToServer
<1>5. ASSUME server'.mining # 0 PROVE \E j \in DOMAIN to_server' : Ends(j)'
  <2>1. PICK j \in DOMAIN to_server : j > 1 /\ Ends(j)
    <3>1. CASE m.kind \in {"finish", "place"}
      <4>1. server'.mining = 0 BY <3>1 DEF ServerTakes, TakeFinish, TakePlace, Refuse, Sets, Types, ServerStates
      <4> QED BY <1>5, <4>1
    <3>2. CASE m.kind = "start" BY <1>2, <3>2 DEF Closed, Begins
    <3>3. CASE m.kind \in {"move", "accept"}
      <4>1. server'.mining = server.mining
        BY <3>3 DEF ServerTakes, TakeMove, TakeAccept, Teleport, Types, ServerStates
      <4>2. PICK k \in DOMAIN to_server : Ends(k) BY <1>5, <4>1 DEF Closed
      <4>3. k # 1 BY <1>2, <3>3, <4>2 DEF Ends
      <4>4. k > 1 BY <1>1, <4>3, Taken
      <4> QED BY <4>2, <4>4
    <3> QED BY <1>4, <3>1, <3>2, <3>3
  <2>2. j \in Nat /\ j - 1 \in DOMAIN to_server' /\ to_server'[j - 1] = to_server[j] BY <1>1, <2>1, Taken
  <2>3. Ends(j - 1)' BY <2>1, <2>2 DEF Ends
  <2> QED BY <2>2, <2>3
<1> QED BY <1>3, <1>5 DEF Closed

LEMMA AbandonedStep ==
  ASSUME Base, Abandoned, [Next]_vars
  PROVE  Abandoned'
<1> SUFFICES ASSUME connected', ~Breaking' PROVE Closed' BY DEF Abandoned
<1> USE DEF Base
<1>1. CASE Bot
  <2>0. Shape BY <1>1, BotShape
  <2>1. connected /\ UNCHANGED server BY <2>0 DEF Shape
  <2>2. ASSUME NEW c \in Cells, Send([kind |-> "finish", cell |-> c]) PROVE Closed' BY <2>1, <2>2, FinishCloses
  <2>3. CASE ~Breaking /\ (UNCHANGED to_server \/ PhysicsTick \/ HandlePacket \/ Places)
    <3>1. Closed BY <2>1, <2>3 DEF Abandoned
    <3>2. UNCHANGED to_server => Closed' BY <2>1, <3>1 DEF Closed, Begins, Ends
    <3>3. heading \in {-1, 0, 1} BY DEF Control, Locals
    <3>4. CASE PhysicsTick
      <4>1. ASSUME NEW p \in Int, [kind |-> "move", pos |-> p] \in ToServer, Send([kind |-> "move", pos |-> p])
            PROVE  Closed'
        BY <2>1, <3>1, <4>1, ClosedSend
      <4> QED BY <3>2, <3>3, <3>4, <4>1, TickMoves
    <3>5. CASE HandlePacket
      <4>1. ASSUME NEW m \in Moving, [kind |-> "accept", id |-> m.id] \in ToServer,
                   Send([kind |-> "accept", id |-> m.id])
            PROVE  Closed'
        BY <2>1, <3>1, <4>1, ClosedSend
      <4> QED BY <3>2, <3>5, <4>1, Handles
    <3>6. CASE Places
      <4>1. PICK c \in Cells : PlaceBlock(c) BY <3>6 DEF Places
      <4>2. [kind |-> "place", cell |-> c] \in ToServer BY DEF ToServer
      <4> QED BY <2>1, <3>1, <4>1, <4>2, ClosedSend DEF PlaceBlock
    <3> QED BY <2>3, <3>2, <3>4, <3>5, <3>6
  <2> QED BY <1>1, <2>1, <2>2, <2>3, BotBreaking
<1>2. CASE Server
  <2>1. ~Breaking BY <1>2 DEF Server, Breaking
  <2>2. CASE ServerTakes
    <3>1. connected BY <2>2 DEF ServerTakes
    <3> QED BY <2>1, <2>2, <3>1, TakesClosed DEF Abandoned
  <2>3. CASE ServerTeleports
    <3>1. connected /\ UNCHANGED to_server /\ server'.mining = server.mining
      BY <2>3 DEF ServerTeleports, Teleport, Types, ServerStates
    <3> QED BY <2>1, <3>1 DEF Abandoned, Closed, Begins, Ends
  <2>4. CASE ServerSets
    <3>1. connected /\ UNCHANGED to_server /\ server'.mining = server.mining
      BY <2>4 DEF ServerSets, Types, ServerStates
    <3> QED BY <2>1, <3>1 DEF Abandoned, Closed, Begins, Ends
  <2>5. CASE ServerLeaves BY <2>5 DEF ServerLeaves
  <2> QED BY <1>2, <2>2, <2>3, <2>4, <2>5 DEF Server
<1>3. CASE UNCHANGED vars
  BY <1>3 DEF vars, Abandoned, Closed, Begins, Ends, Breaking
<1> QED BY <1>1, <1>2, <1>3 DEF Next

\* When a call is over no key is pressed, and no dig is left open at the
\* server (bot/mod.rs 1073-1117, 1314-1494): every start that goto and dig
\* send has its end behind it in the same stream.
THEOREM CallsLeaveNothing == Spec => []NothingLeftBehind
<1>1. Init => Released /\ Abandoned
  BY DEF Init, Released, Abandoned, Closed, Begins, Ends
<1>2. Base /\ Released /\ [Next]_vars => Released'
  BY ReleasedStep DEF Base, Next, Server, vars, Released
<1>3. Base /\ Abandoned /\ [Next]_vars => Abandoned'
  BY AbandonedStep
<1>4. Released /\ Abandoned => NothingLeftBehind
  BY DEF Released, Abandoned, Closed, NothingLeftBehind, Breaking
<1> QED BY <1>1, <1>2, <1>3, <1>4, Based, PTL DEF Spec

-----------------------------------------------------------------------------
(* The two worlds.                                                         *)

Tells(i, c) == i \in DOMAIN to_bot /\ to_bot[i].kind = "block" /\ to_bot[i].cell = c
LastTold(i, c) == Tells(i, c) /\ \A j \in DOMAIN to_bot : j > i => ~Tells(j, c)

\* Of a cell the server is not silent about: the last update under way is
\* the server's block, and without one the bot has it or has guessed.
Believes(c) ==
  c \in server.silent
  \/ /\ \A i \in DOMAIN to_bot : LastTold(i, c) => to_bot[i].block = server.world[c]
     /\ (\E i \in DOMAIN to_bot : Tells(i, c)) \/ c \in bot.guessed \/ bot.world[c] = server.world[c]

LEMMA SameBelief ==
  ASSUME NEW c \in Cells, Believes(c), UNCHANGED to_bot,
         server'.world[c] = server.world[c], c \in server.silent => c \in server'.silent,
         bot'.world[c] = bot.world[c] \/ c \in bot'.guessed, c \in bot.guessed => c \in bot'.guessed
  PROVE  Believes(c)'
BY DEF Believes, LastTold, Tells

\* What the server tells of a cell is what it holds then.
LEMMA ToldBelief ==
  ASSUME Types, NEW c \in Cells, Believes(c), UNCHANGED bot,
         NEW m \in ToBot, to_bot' = Append(to_bot, m),
         \/ /\ ~(m.kind = "block" /\ m.cell = c)
            /\ server'.world[c] = server.world[c] /\ (c \in server.silent => c \in server'.silent)
         \/ m.kind = "block" /\ m.cell = c /\ m.block = server'.world[c]
  PROVE  Believes(c)'
<1>1. to_bot \in Seq(ToBot) BY DEF Types
<1>2. PICK n \in Nat : n = Len(to_bot) + 1 BY <1>1, LenProperties
<1>3. n \in DOMAIN to_bot' /\ to_bot'[n] = m BY <1>1, <1>2, Appended
<1>4. \A i \in DOMAIN to_bot' : i = n \/ (i \in DOMAIN to_bot /\ to_bot'[i] = to_bot[i] /\ n > i)
  BY <1>1, <1>2, Appended
<1>5. \A i \in DOMAIN to_bot : i \in DOMAIN to_bot' /\ to_bot'[i] = to_bot[i] BY <1>1, <1>2, Appended
<1>6. CASE m.kind = "block" /\ m.cell = c /\ m.block = server'.world[c]
  <2>1. Tells(n, c)' BY <1>3, <1>6 DEF Tells
  <2>2. \A i \in DOMAIN to_bot' : LastTold(i, c)' => i = n BY <1>3, <1>4, <2>1 DEF LastTold
  <2> QED BY <1>3, <1>6, <2>1, <2>2 DEF Believes
<1>7. CASE /\ ~(m.kind = "block" /\ m.cell = c)
           /\ server'.world[c] = server.world[c] /\ (c \in server.silent => c \in server'.silent)
  <2>1. \A i \in DOMAIN to_bot' : Tells(i, c)' => Tells(i, c) BY <1>3, <1>4, <1>7 DEF Tells
  <2>2. \A i \in DOMAIN to_bot : Tells(i, c) => Tells(i, c)' BY <1>5 DEF Tells
  <2>3. \A i \in DOMAIN to_bot' : LastTold(i, c)' => LastTold(i, c) /\ to_bot'[i] = to_bot[i]
    BY <1>5, <2>1, <2>2 DEF LastTold, Tells
  <2>4. (\E i \in DOMAIN to_bot : Tells(i, c)) => \E i \in DOMAIN to_bot' : Tells(i, c)' BY <1>5, <2>2
  <2>5. \A i \in DOMAIN to_bot' : LastTold(i, c)' => i \in DOMAIN to_bot BY <2>1 DEF LastTold, Tells
  <2> QED BY <1>7, <2>3, <2>4, <2>5 DEF Believes
<1> QED BY <1>6, <1>7

\* The bot reads the oldest packet: the update of a cell, or something else.
LEMMA ReadBelief ==
  ASSUME Types, NEW c \in Cells, Believes(c), UNCHANGED server, to_bot # <<>>, to_bot' = Tail(to_bot),
         NEW m, m = Head(to_bot),
         \/ /\ ~(m.kind = "block" /\ m.cell = c)
            /\ bot'.world[c] = bot.world[c] /\ (c \in bot.guessed => c \in bot'.guessed)
         \/ m.kind = "block" /\ m.cell = c /\ bot'.world[c] = m.block
  PROVE  Believes(c)'
<1>1. to_bot \in Seq(ToBot) BY DEF Types
<1>2. 1 \in DOMAIN to_bot /\ to_bot[1] = m BY <1>1, Taken
<1>3. \A i \in DOMAIN to_bot' : i \in Nat /\ i + 1 \in DOMAIN to_bot /\ to_bot'[i] = to_bot[i + 1] BY <1>1, Taken
<1>4. \A i \in DOMAIN to_bot : i \in Nat /\ (i = 1 \/ (i - 1 \in DOMAIN to_bot' /\ to_bot'[i - 1] = to_bot[i] /\ i > 1))
  BY <1>1, Taken
<1>5. \A i \in DOMAIN to_bot' : Tells(i, c)' => Tells(i + 1, c) BY <1>3 DEF Tells
<1>6. \A i \in DOMAIN to_bot : Tells(i, c) => i = 1 \/ Tells(i - 1, c)' BY <1>4 DEF Tells
<1>7. \A i \in DOMAIN to_bot' : LastTold(i, c)' => LastTold(i + 1, c)
  <2> SUFFICES ASSUME NEW i \in DOMAIN to_bot', LastTold(i, c)' PROVE LastTold(i + 1, c) OBVIOUS
  <2>1. Tells(i + 1, c) BY <1>5 DEF LastTold
  <2>2. ASSUME NEW j \in DOMAIN to_bot, j > i + 1, Tells(j, c) PROVE FALSE
    <3>1. j - 1 \in DOMAIN to_bot' /\ Tells(j - 1, c)' /\ j - 1 > i BY <1>3, <1>4, <1>6, <2>2
    <3> QED BY <3>1 DEF LastTold
  <2> QED BY <2>1, <2>2 DEF LastTold
<1>8. c \notin server.silent => \A i \in DOMAIN to_bot' : LastTold(i, c)' => to_bot'[i].block = server'.world[c]
  BY <1>3, <1>7 DEF Believes
<1>9. (\E i \in DOMAIN to_bot' : Tells(i, c)') \/ \A i \in DOMAIN to_bot : Tells(i, c) => i = 1 BY <1>4, <1>6
<1>10. CASE m.kind = "block" /\ m.cell = c /\ bot'.world[c] = m.block
  <2>1. Tells(1, c) BY <1>2, <1>10 DEF Tells
  <2>2. (\A i \in DOMAIN to_bot : Tells(i, c) => i = 1) => LastTold(1, c) BY <1>2, <2>1 DEF LastTold
  <2>3. c \notin server.silent /\ LastTold(1, c) => bot'.world[c] = server'.world[c] BY <1>2, <1>10 DEF Believes
  <2> QED BY <1>8, <1>9, <2>2, <2>3 DEF Believes
<1>11. CASE /\ ~(m.kind = "block" /\ m.cell = c)
            /\ bot'.world[c] = bot.world[c] /\ (c \in bot.guessed => c \in bot'.guessed)
  <2>1. ~Tells(1, c) BY <1>2, <1>11 DEF Tells
  <2> QED BY <1>8, <1>9, <1>11, <2>1 DEF Believes
<1> QED BY <1>10, <1>11

LEMMA BotBelief ==
  ASSUME Types, heading \in {-1, 0, 1}, Shape, NEW c \in Cells, Believes(c)
  PROVE  Believes(c)'
<1>0. UNCHANGED server /\ bot \in BotStates BY DEF Shape, Types
<1>1. CASE Quiet BY <1>0, <1>1, SameBelief DEF Quiet
<1>2. CASE PhysicsTick
  <2>1. UNCHANGED to_bot /\ bot'.world[c] = bot.world[c] /\ bot'.guessed = bot.guessed
    BY <1>0, <1>2, TickMoves DEF BotStates
  <2> QED BY <1>0, <2>1, SameBelief
<1>3. CASE HandlePacket
  <2>0. to_bot # <<>> /\ to_bot' = Tail(to_bot) BY <1>3, Handles
  <2>1. ASSUME NEW m \in Moving, NEW p \in Int, m = Head(to_bot),
               bot' = [bot EXCEPT !.pos = p, !.vel = 0, !.physics = TRUE]
        PROVE  Believes(c)'
    <3>1. m.kind # "block" BY DEF Moving
    <3>2. bot'.world[c] = bot.world[c] /\ bot'.guessed = bot.guessed BY <1>0, <2>1 DEF BotStates
    <3> QED BY <1>0, <2>0, <2>1, <3>1, <3>2, ReadBelief
  <2>2. ASSUME NEW m \in Telling, m = Head(to_bot),
               bot' = [bot EXCEPT !.world[m.cell] = m.block, !.guessed = @ \ {m.cell}]
        PROVE  Believes(c)'
    <3>1. m.kind = "block" /\ m.cell \in Cells BY DEF Telling
    <3>2. m.cell = c => bot'.world[c] = m.block BY <1>0, <2>2, <3>1 DEF BotStates
    <3>3. m.cell # c => bot'.world[c] = bot.world[c] /\ (c \in bot.guessed => c \in bot'.guessed)
      BY <1>0, <2>2, <3>1 DEF BotStates
    <3> QED BY <1>0, <2>0, <2>2, <3>1, <3>2, <3>3, ReadBelief
  <2> QED BY <1>3, <2>1, <2>2, Handles
<1>4. CASE Says BY <1>0, <1>4, SameBelief DEF Says
<1>5. ASSUME NEW d \in Cells, NEW b \in Blocks, bot' = Guess(d, b), UNCHANGED to_bot PROVE Believes(c)'
  <2>1. bot'.world[c] = bot.world[c] \/ c \in bot'.guessed BY <1>0, <1>5 DEF Guess, BotStates
  <2>2. c \in bot.guessed => c \in bot'.guessed BY <1>0, <1>5 DEF Guess, BotStates
  <2> QED BY <1>0, <1>5, <2>1, <2>2, SameBelief
<1>6. CASE Places
  <2>1. Soft \in Blocks BY DEF Blocks
  <2>2. UNCHANGED bot => Believes(c)' BY <1>0, <1>6, SameBelief DEF Places
  <2> QED BY <1>5, <1>6, <2>1, <2>2 DEF Places, PlaceBlock
<1>7. CASE Guesses BY <1>5, <1>7 DEF Guesses, Blocks
<1> QED BY <1>1, <1>2, <1>3, <1>4, <1>6, <1>7 DEF Shape

LEMMA TeleportBelief ==
  ASSUME Types, NEW c \in Cells, Believes(c), UNCHANGED bot,
         NEW k \in [v : Int, rel : BOOLEAN], Teleport(k)
  PROVE  Believes(c)'
<1>1. PICK m \in ToBot : m.kind = "teleport" /\ to_bot' = Append(to_bot, m)
  <2> DEFINE m == [kind |-> "teleport", id |-> teleports + 1, v |-> k.v, rel |-> k.rel]
  <2>1. m \in ToBot BY DEF Types, ToBot, Moving
  <2> QED BY <2>1 DEF Teleport
<1>2. server'.world = server.world /\ server'.silent = server.silent BY DEF Teleport, Types, ServerStates
<1> QED BY <1>1, <1>2, ToldBelief

LEMMA TellsBelief ==
  ASSUME Types, NEW c \in Cells, Believes(c), UNCHANGED bot, NEW d \in Cells, NEW b \in Blocks,
         to_bot' = Append(to_bot, Update(d, b)), server'.world[d] = b,
         d # c => server'.world[c] = server.world[c] /\ (c \in server.silent => c \in server'.silent)
  PROVE  Believes(c)'
<1>1. Update(d, b) \in ToBot BY UpdateType
<1>2. Update(d, b).kind = "block" /\ Update(d, b).cell = d /\ Update(d, b).block = b BY DEF Update
<1> QED BY <1>1, <1>2, ToldBelief

LEMMA RefuseBelief ==
  ASSUME Types, NEW c \in Cells, Believes(c), UNCHANGED bot, NEW d \in Cells, Refuse(d)
  PROVE  Believes(c)'
<1>1. server \in ServerStates /\ server.world[d] \in Blocks BY DEF Types, ServerStates
<1>2. /\ server'.world = server.world /\ server'.silent = server.silent \ {d}
      /\ to_bot' = Append(to_bot, Update(d, server.world[d]))
  BY <1>1 DEF Refuse, ServerStates
<1> QED BY <1>1, <1>2, TellsBelief

LEMMA SetsBelief ==
  ASSUME Types, NEW c \in Cells, Believes(c), UNCHANGED bot, NEW d \in Cells, NEW b \in Blocks, Sets(d, b)
  PROVE  Believes(c)'
<1>0. server \in ServerStates BY DEF Types
<1>1. server'.world[d] = b /\ (d # c => server'.world[c] = server.world[c]) BY <1>0 DEF Sets, ServerStates
<1>2. CASE server'.silent = server.silent \cup {d} /\ UNCHANGED to_bot
  <2>1. CASE d = c BY <1>2, <2>1 DEF Believes
  <2>2. CASE d # c BY <1>1, <1>2, <2>2, SameBelief
  <2> QED BY <2>1, <2>2
<1>3. CASE server'.silent = server.silent \ {d} /\ to_bot' = Append(to_bot, Update(d, b))
  BY <1>1, <1>3, TellsBelief
<1>4. \/ server'.silent = server.silent \cup {d} /\ UNCHANGED to_bot
      \/ server'.silent = server.silent \ {d} /\ to_bot' = Append(to_bot, Update(d, b))
  BY <1>0 DEF Sets, ServerStates
<1> QED BY <1>2, <1>3, <1>4

LEMMA ServerBelief ==
  ASSUME Types, Server, NEW c \in Cells, Believes(c)
  PROVE  Believes(c)'
<1>0. UNCHANGED bot /\ server \in ServerStates BY DEF Server, Types
<1>1. CASE server'.world = server.world /\ server'.silent = server.silent /\ UNCHANGED to_bot
  BY <1>0, <1>1, SameBelief
<1>2. CASE ServerTakes
  <2> DEFINE m == Head(to_server)
  <2>0. m.kind \in {"start", "finish", "place"} => m.cell \in Cells BY <1>2, TakenType DEF ServerTakes
  <2>1. CASE TakeMove(m)
    <3>1. CASE Teleport([v |-> server.pos, rel |-> FALSE])
      BY <1>0, <3>1, TeleportBelief DEF ServerStates
    <3>2. CASE server' = [server EXCEPT !.pos = IF server.awaiting = 0 THEN m.pos ELSE @] /\ UNCHANGED to_bot
      BY <1>0, <1>1, <3>2 DEF ServerStates
    <3> QED BY <2>1, <3>1, <3>2 DEF TakeMove
  <2>2. CASE TakeAccept(m) BY <1>0, <1>1, <2>2 DEF TakeAccept, ServerStates
  <2>3. CASE m.kind = "start" /\ TakeStart(m)
    <3>1. CASE Refuse(m.cell) BY <1>0, <2>0, <2>3, <3>1, RefuseBelief
    <3>2. CASE server' = [server EXCEPT !.mining = m.cell] /\ UNCHANGED to_bot
      BY <1>0, <1>1, <3>2 DEF ServerStates
    <3> QED BY <2>3, <3>1, <3>2 DEF TakeStart
  <2>4. CASE m.kind = "finish" /\ TakeFinish(m)
    BY <1>0, <2>0, <2>4, RefuseBelief, SetsBelief DEF TakeFinish, Blocks
  <2>5. CASE m.kind = "place" /\ TakePlace(m)
    BY <1>0, <2>0, <2>5, RefuseBelief, SetsBelief DEF TakePlace, Blocks
  <2> QED BY <1>2, <2>1, <2>2, <2>3, <2>4, <2>5 DEF ServerTakes
<1>3. CASE ServerTeleports
  BY <1>0, <1>3, TeleportBelief, NavigationAssumption DEF ServerTeleports
<1>4. CASE ServerSets
  <2>1. PICK d \in Sites, b \in {Air, Soft} :
          /\ server' = [server EXCEPT !.world[d] = b, !.silent = @ \ {d}]
          /\ to_bot' = Append(to_bot, Update(d, b))
    BY <1>4 DEF ServerSets
  <2>2. d \in Cells /\ b \in Blocks BY NavigationAssumption DEF Blocks
  <2>3. /\ server'.world[d] = b
        /\ d # c => server'.world[c] = server.world[c] /\ (c \in server.silent => c \in server'.silent)
    BY <1>0, <2>1, <2>2 DEF ServerStates
  <2> QED BY <1>0, <2>1, <2>2, <2>3, TellsBelief
<1>5. CASE ServerLeaves BY <1>1, <1>5 DEF ServerLeaves
<1> QED BY <1>2, <1>3, <1>4, <1>5 DEF Server

Belief == \A c \in Cells : Believes(c)

\* The bot's blocks are the server's, but for an update under way, a block
\* the server did not tell of, and a guess (bot/mod.rs 452-502, 1132-1138,
\* 1263-1283): however updates, digs, refusals and guesses interleave.
THEOREM WhatIsToldIsBelieved == Spec => []TellingIsBelieved
<1>1. Init => Belief
  BY DEF Init, Belief, Believes, LastTold, Tells
<1>2. Base /\ Belief /\ [Next]_vars => Belief'
  <2> SUFFICES ASSUME Base, [Next]_vars, NEW c \in Cells, Believes(c) PROVE Believes(c)'
    BY DEF Belief
  <2>1. CASE Bot
    <3>1. heading \in {-1, 0, 1} BY DEF Base, Control, Locals
    <3> QED BY <2>1, <3>1, BotShape, BotBelief DEF Base
  <2>2. CASE Server BY <2>2, ServerBelief DEF Base
  <2>3. CASE UNCHANGED vars BY <2>3 DEF vars, Believes, LastTold, Tells
  <2> QED BY <2>1, <2>2, <2>3 DEF Next
<1>3. Belief => TellingIsBelieved
  BY DEF Belief, Believes, TellingIsBelieved, UnderWay, Tells
<1> QED BY <1>1, <1>2, <1>3, Based, PTL DEF Spec

-----------------------------------------------------------------------------
(* The two positions.                                                      *)

Coming(i) == i \in DOMAIN to_bot /\ to_bot[i].kind = "teleport"
Accepts(i) == i \in DOMAIN to_server /\ to_server[i].kind = "accept"
Moves(i) == i \in DOMAIN to_server /\ to_server[i].kind = "move"

\* The last move under way is to where the bot thinks the server knows it.
LastMove(i) == /\ Moves(i) /\ \A j \in DOMAIN to_server : j > i => ~Moves(j)
               /\ <<to_server[i].pos>> = last_sent

\* A teleport awaited is the latest one, and the bot has it before it or
\* has answered it.
Awaited ==
  /\ server.awaiting \in {0, teleports}
  /\ \A i \in DOMAIN to_bot : Coming(i) => to_bot[i].id <= teleports
  /\ \A i \in DOMAIN to_server : Accepts(i) => to_server[i].id <= teleports
  /\ server.awaiting # 0 => \/ \E i \in DOMAIN to_bot : Coming(i) /\ to_bot[i].id = server.awaiting
                            \/ \E i \in DOMAIN to_server : Accepts(i) /\ to_server[i].id = server.awaiting

\* What was sent last the server knows or will know; when it still ignores
\* moves, the answer that ends this comes before the move.
Known ==
  last_sent # <<>> =>
    /\ server.awaiting = 0 =>
         \/ (\A i \in DOMAIN to_server : ~Moves(i)) /\ <<server.pos>> = last_sent
         \/ \E i \in DOMAIN to_server : LastMove(i)
    /\ server.awaiting # 0 =>
         \A i \in DOMAIN to_server : Accepts(i) /\ to_server[i].id = server.awaiting
           => \E j \in DOMAIN to_server : j > i /\ LastMove(j)

Agreed == connected => Awaited /\ Known

\* A message to the server that is not a move, and not an answer or one to
\* a teleport there was.
LEMMA SaysAgreed ==
  ASSUME Types, Agreed, UNCHANGED <<server, teleports, connected, to_bot, last_sent>>, NEW m \in ToServer,
         m.kind # "move", m.kind # "accept", Send(m)
  PROVE  Agreed'
<1> SUFFICES ASSUME connected PROVE Agreed' BY DEF Agreed
<1>1. to_server \in Seq(ToServer) /\ to_server' = Append(to_server, m) BY DEF Types, Send
<1>2. \A i \in DOMAIN to_server : i \in DOMAIN to_server' /\ to_server'[i] = to_server[i] BY <1>1, Appended
<1>3. \A i \in DOMAIN to_server' : (Accepts(i)' => Accepts(i)) /\ (Moves(i)' => Moves(i))
  BY <1>1, Appended DEF Accepts, Moves
<1>4. \A i \in DOMAIN to_server : (Accepts(i) => Accepts(i)') /\ (LastMove(i) => LastMove(i)')
  BY <1>2, <1>3 DEF Accepts, Moves, LastMove
<1>5. Awaited' BY <1>2, <1>3, <1>4 DEF Agreed, Awaited, Accepts, Coming
<1>6. Known'
  <2> SUFFICES ASSUME last_sent # <<>> PROVE Known' BY DEF Known
  <2>1. server.awaiting = 0 => \/ (\A i \in DOMAIN to_server' : ~Moves(i)') /\ <<server.pos>> = last_sent
                              \/ \E i \in DOMAIN to_server' : LastMove(i)'
    BY <1>2, <1>3, <1>4 DEF Agreed, Known, Moves
  <2>2. ASSUME server.awaiting # 0, NEW i \in DOMAIN to_server', Accepts(i)', to_server'[i].id = server.awaiting
        PROVE  \E j \in DOMAIN to_server' : j > i /\ LastMove(j)'
    <3>1. i \in DOMAIN to_server /\ Accepts(i) /\ to_server[i].id = server.awaiting BY <1>2, <1>3, <2>2 DEF Accepts
    <3>2. PICK j \in DOMAIN to_server : j > i /\ LastMove(j) BY <2>2, <3>1 DEF Agreed, Known
    <3> QED BY <1>2, <1>4, <3>2
  <2> QED BY <2>1, <2>2 DEF Known
<1> QED BY <1>5, <1>6 DEF Agreed

LEMMA MoveAgreed ==
  ASSUME Types, Agreed, UNCHANGED <<server, teleports, connected, to_bot>>, NEW p \in Int,
         [kind |-> "move", pos |-> p] \in ToServer, last_sent' = <<p>>, Send([kind |-> "move", pos |-> p])
  PROVE  Agreed'
<1> SUFFICES ASSUME connected PROVE Agreed' BY DEF Agreed
<1>1. PICK m \in ToServer : m = [kind |-> "move", pos |-> p] OBVIOUS
<1>2. to_server \in Seq(ToServer) /\ to_server' = Append(to_server, m) BY <1>1 DEF Types, Send
<1>3. PICK n \in Nat : n = Len(to_server) + 1 BY <1>2, LenProperties
<1>4. n \in DOMAIN to_server' /\ to_server'[n] = m BY <1>2, <1>3, Appended
<1>5. \A i \in DOMAIN to_server' :
        i \in Nat /\ i <= n /\ (i = n \/ (i < n /\ i \in DOMAIN to_server /\ to_server'[i] = to_server[i]))
  BY <1>2, <1>3, Appended
<1>6. LastMove(n)' BY <1>1, <1>4, <1>5 DEF LastMove, Moves
<1>7. \A i \in DOMAIN to_server' : Accepts(i)' => Accepts(i) /\ i < n /\ to_server'[i] = to_server[i]
  BY <1>1, <1>4, <1>5 DEF Accepts
<1>8. \A i \in DOMAIN to_server : i \in DOMAIN to_server' /\ (Accepts(i) => Accepts(i)' /\ to_server'[i] = to_server[i])
  BY <1>2, Appended DEF Accepts
<1>9. Awaited' BY <1>7, <1>8 DEF Agreed, Awaited, Accepts, Coming
<1>10. Known' BY <1>4, <1>6, <1>7 DEF Known
<1> QED BY <1>9, <1>10 DEF Agreed

\* The bot reads an update, or a teleport, which it answers.
LEMMA ReadAgreed ==
  ASSUME Types, Agreed, UNCHANGED <<server, teleports, connected, to_server, last_sent>>,
         to_bot # <<>>, to_bot' = Tail(to_bot), Head(to_bot).kind # "teleport"
  PROVE  Agreed'
<1>1. to_bot \in Seq(ToBot) BY DEF Types
<1>2. \A i \in DOMAIN to_bot' : Coming(i)' => i + 1 \in DOMAIN to_bot /\ Coming(i + 1) /\ to_bot'[i] = to_bot[i + 1]
  BY <1>1, Taken DEF Coming
<1>3. \A i \in DOMAIN to_bot : Coming(i) => i - 1 \in DOMAIN to_bot' /\ Coming(i - 1)' /\ to_bot'[i - 1] = to_bot[i]
  BY <1>1, Taken DEF Coming
<1>4. Awaited => Awaited' BY <1>2, <1>3 DEF Awaited, Accepts
<1>5. Known => Known' BY DEF Known, Moves, LastMove, Accepts
<1> QED BY <1>4, <1>5 DEF Agreed

LEMMA AnswerAgreed ==
  ASSUME Types, Agreed, UNCHANGED <<server, teleports, connected>>, to_bot # <<>>, to_bot' = Tail(to_bot),
         NEW m \in Moving, m = Head(to_bot), last_sent' = <<>>,
         [kind |-> "accept", id |-> m.id] \in ToServer, Send([kind |-> "accept", id |-> m.id])
  PROVE  Agreed'
<1> SUFFICES ASSUME connected PROVE Agreed' BY DEF Agreed
<1>1. PICK a \in ToServer : a = [kind |-> "accept", id |-> m.id] OBVIOUS
<1>2. to_server \in Seq(ToServer) /\ to_server' = Append(to_server, a) /\ to_bot \in Seq(ToBot)
  BY <1>1 DEF Types, Send
<1>3. PICK n \in Nat : n \in DOMAIN to_server' /\ to_server'[n] = a
                      /\ \A i \in DOMAIN to_server' : i = n \/ (i \in DOMAIN to_server /\ to_server'[i] = to_server[i])
  BY <1>2, Appended
<1>4. \A i \in DOMAIN to_server : i \in DOMAIN to_server' /\ to_server'[i] = to_server[i] BY <1>2, Appended
<1>5. 1 \in DOMAIN to_bot /\ to_bot[1] = m /\ Coming(1) BY <1>2, Taken DEF Coming, Moving
<1>6. m.id <= teleports BY <1>5 DEF Agreed, Awaited
<1>7. \A i \in DOMAIN to_bot' : Coming(i)' => i + 1 \in DOMAIN to_bot /\ Coming(i + 1) /\ to_bot'[i] = to_bot[i + 1]
  BY <1>2, Taken DEF Coming
<1>8. \A i \in DOMAIN to_bot :
        Coming(i) => i = 1 \/ (i - 1 \in DOMAIN to_bot' /\ Coming(i - 1)' /\ to_bot'[i - 1] = to_bot[i])
  BY <1>2, Taken DEF Coming
<1>9. \A i \in DOMAIN to_bot' : Coming(i)' => to_bot'[i].id <= teleports BY <1>7 DEF Agreed, Awaited
<1>10. \A i \in DOMAIN to_server' : Accepts(i)' => to_server'[i].id <= teleports
  BY <1>1, <1>3, <1>6 DEF Agreed, Awaited, Accepts
<1>11. ASSUME server.awaiting # 0
       PROVE  \/ \E i \in DOMAIN to_bot' : Coming(i)' /\ to_bot'[i].id = server.awaiting
              \/ \E i \in DOMAIN to_server' : Accepts(i)' /\ to_server'[i].id = server.awaiting
  <2>1. CASE \E i \in DOMAIN to_server : Accepts(i) /\ to_server[i].id = server.awaiting
    BY <1>4, <2>1 DEF Accepts
  <2>2. CASE m.id = server.awaiting BY <1>1, <1>3, <2>2 DEF Accepts
  <2>3. CASE (\E i \in DOMAIN to_bot : Coming(i) /\ to_bot[i].id = server.awaiting) /\ m.id # server.awaiting
    BY <1>5, <1>8, <2>3
  <2> QED BY <1>11, <2>1, <2>2, <2>3 DEF Agreed, Awaited
<1>12. Awaited' BY <1>9, <1>10, <1>11 DEF Agreed, Awaited
<1> QED BY <1>12 DEF Agreed, Known

\* The server tells of blocks without a teleport.
SameComing ==
  /\ \A i \in DOMAIN to_bot' : Coming(i)' => i \in DOMAIN to_bot /\ Coming(i) /\ to_bot'[i] = to_bot[i]
  /\ \A i \in DOMAIN to_bot : Coming(i) => i \in DOMAIN to_bot' /\ Coming(i)' /\ to_bot'[i] = to_bot[i]

LEMMA UpdateComing ==
  ASSUME Types, NEW c \in Cells, NEW b \in Blocks, to_bot' = Append(to_bot, Update(c, b)) \/ UNCHANGED to_bot
  PROVE  SameComing
<1>1. CASE to_bot' = Append(to_bot, Update(c, b))
  <2>1. to_bot \in Seq(ToBot) /\ Update(c, b) \in ToBot /\ Update(c, b).kind = "block"
    BY UpdateType DEF Types, Update
  <2> QED BY <1>1, <2>1, Appended DEF SameComing, Coming
<1>2. CASE UNCHANGED to_bot BY <1>2 DEF SameComing, Coming
<1> QED BY <1>1, <1>2

\* A new teleport: there is no answer to it yet, and moves are ignored.
LEMMA TeleportAgreed ==
  ASSUME Types, NEW k \in [v : Int, rel : BOOLEAN], Teleport(k), Awaited,
         \A i \in DOMAIN to_server' : Accepts(i)' => to_server'[i].id \in Nat /\ to_server'[i].id <= teleports
  PROVE  Awaited' /\ Known'
<1> DEFINE t == [kind |-> "teleport", id |-> teleports + 1, v |-> k.v, rel |-> k.rel]
<1>1. to_bot \in Seq(ToBot) /\ teleports \in Nat BY DEF Types
<1>2. t \in ToBot /\ t.kind = "teleport" /\ t.id = teleports + 1 BY <1>1 DEF ToBot, Moving
<1>3. to_bot' = Append(to_bot, t) /\ teleports' = teleports + 1 /\ server'.awaiting = teleports + 1
  BY DEF Teleport, Types, ServerStates
<1> HIDE DEF t
<1>4. PICK n \in Nat : n \in DOMAIN to_bot' /\ to_bot'[n] = t
                      /\ \A i \in DOMAIN to_bot' : i = n \/ (i \in DOMAIN to_bot /\ to_bot'[i] = to_bot[i])
  BY <1>1, <1>2, <1>3, Appended
<1>5. \A i \in DOMAIN to_bot : Coming(i) => to_bot[i].id \in Nat /\ to_bot[i].id <= teleports
  <2> SUFFICES ASSUME NEW i \in DOMAIN to_bot, Coming(i) PROVE to_bot[i].id \in Nat /\ to_bot[i].id <= teleports
    OBVIOUS
  <2>1. to_bot[i] \in ToBot BY <1>1, ElementOfSeq, LenProperties
  <2>2. to_bot[i].id \in Nat BY <2>1 DEF Coming, ToBot, Moving, Telling
  <2> QED BY <2>2 DEF Awaited
<1>6. \A i \in DOMAIN to_bot' : Coming(i)' => to_bot'[i].id <= teleports + 1
  BY <1>1, <1>2, <1>4, <1>5 DEF Coming
<1>7. Coming(n)' BY <1>2, <1>4 DEF Coming
<1>8. Awaited' BY <1>1, <1>2, <1>3, <1>4, <1>6, <1>7 DEF Awaited
<1>9. \A i \in DOMAIN to_server' : Accepts(i)' => to_server'[i].id # server'.awaiting BY <1>1, <1>3
<1>10. server'.awaiting # 0 BY <1>1, <1>3
<1>11. Known' BY <1>9, <1>10 DEF Known
<1> QED BY <1>8, <1>11

\* What the server takes that does not end its waiting.
LEMMA TakesAgreed ==
  ASSUME Types, Awaited, Known, to_server # <<>>, to_server' = Tail(to_server), UNCHANGED <<teleports, last_sent>>,
         SameComing, NEW m, m = Head(to_server), server'.awaiting = server.awaiting,
         server.awaiting # 0 => ~(m.kind = "accept" /\ m.id = server.awaiting),
         IF m.kind = "move" /\ server.awaiting = 0 THEN server'.pos = m.pos ELSE server'.pos = server.pos
  PROVE  Awaited' /\ Known'
<1>1. to_server \in Seq(ToServer) BY DEF Types
<1>2. 1 \in DOMAIN to_server /\ to_server[1] = m BY <1>1, Taken
<1>3. \A i \in DOMAIN to_server' : i \in Nat /\ i + 1 \in DOMAIN to_server /\ to_server'[i] = to_server[i + 1]
  BY <1>1, Taken
<1>4. \A i \in DOMAIN to_server :
        i \in Nat /\ (i = 1 \/ (i > 1 /\ i - 1 \in DOMAIN to_server' /\ to_server'[i - 1] = to_server[i]))
  BY <1>1, Taken
<1>5. \A i \in DOMAIN to_server' : (Accepts(i)' => Accepts(i + 1)) /\ (Moves(i)' => Moves(i + 1))
  BY <1>3 DEF Accepts, Moves
<1>6. \A i \in DOMAIN to_server : i > 1 => (LastMove(i) => LastMove(i - 1)')
  <2> SUFFICES ASSUME NEW i \in DOMAIN to_server, i > 1, LastMove(i) PROVE LastMove(i - 1)' OBVIOUS
  <2>1. i - 1 \in DOMAIN to_server' /\ to_server'[i - 1] = to_server[i] BY <1>4
  <2>2. Moves(i - 1)' BY <2>1 DEF LastMove, Moves
  <2>3. ASSUME NEW j \in DOMAIN to_server', j > i - 1, Moves(j)' PROVE FALSE
    <3>1. j + 1 \in DOMAIN to_server /\ j + 1 > i /\ Moves(j + 1) BY <1>3, <1>4, <1>5, <2>3
    <3> QED BY <3>1 DEF LastMove
  <2> QED BY <2>1, <2>2, <2>3 DEF LastMove
<1>7. Awaited'
  <2>1. \A i \in DOMAIN to_server : Accepts(i) /\ to_server[i].id = server.awaiting /\ server.awaiting # 0
          => i - 1 \in DOMAIN to_server' /\ Accepts(i - 1)' /\ to_server'[i - 1].id = server.awaiting
    BY <1>2, <1>4 DEF Accepts
  <2>2. \A i \in DOMAIN to_server' : Accepts(i)' => to_server'[i].id <= teleports BY <1>3, <1>5 DEF Awaited
  <2>3. \A i \in DOMAIN to_bot' : Coming(i)' => to_bot'[i].id <= teleports BY DEF Awaited, SameComing
  <2>4. server.awaiting # 0 =>
          \/ \E i \in DOMAIN to_bot' : Coming(i)' /\ to_bot'[i].id = server.awaiting
          \/ \E i \in DOMAIN to_server' : Accepts(i)' /\ to_server'[i].id = server.awaiting
    BY <2>1 DEF Awaited, SameComing
  <2> QED BY <2>2, <2>3, <2>4 DEF Awaited
<1>8. Known'
  <2> SUFFICES ASSUME last_sent # <<>> PROVE Known' BY DEF Known
  <2>1. ASSUME server.awaiting = 0
        PROVE  \/ (\A i \in DOMAIN to_server' : ~Moves(i)') /\ <<server'.pos>> = last_sent
               \/ \E i \in DOMAIN to_server' : LastMove(i)'
    <3>1. CASE \A i \in DOMAIN to_server : ~Moves(i)
      <4>1. m.kind # "move" BY <1>2, <3>1 DEF Moves
      <4>2. <<server.pos>> = last_sent BY <2>1, <3>1 DEF Known, LastMove
      <4> QED BY <1>3, <1>5, <3>1, <4>1, <4>2
    <3>2. CASE LastMove(1)
      <4>1. m.kind = "move" /\ <<m.pos>> = last_sent BY <1>2, <3>2 DEF LastMove, Moves
      <4>2. \A i \in DOMAIN to_server' : ~Moves(i)'
        <5> SUFFICES ASSUME NEW i \in DOMAIN to_server', Moves(i)' PROVE FALSE OBVIOUS
        <5>1. i + 1 \in DOMAIN to_server /\ Moves(i + 1) /\ i + 1 > 1 BY <1>3, <1>4, <1>5
        <5> QED BY <3>2, <5>1 DEF LastMove
      <4> QED BY <2>1, <4>1, <4>2
    <3>3. ASSUME NEW j \in DOMAIN to_server, j # 1, LastMove(j)
          PROVE  \E i \in DOMAIN to_server' : LastMove(i)'
      BY <1>4, <1>6, <3>3
    <3> QED BY <2>1, <3>1, <3>2, <3>3 DEF Known
  <2>2. ASSUME server.awaiting # 0, NEW i \in DOMAIN to_server', Accepts(i)', to_server'[i].id = server.awaiting
        PROVE  \E j \in DOMAIN to_server' : j > i /\ LastMove(j)'
    <3>1. i \in Nat /\ i + 1 \in DOMAIN to_server /\ Accepts(i + 1) /\ to_server[i + 1].id = server.awaiting
      BY <1>3, <1>5, <2>2
    <3>2. PICK j \in DOMAIN to_server : j > i + 1 /\ LastMove(j) BY <2>2, <3>1 DEF Known
    <3>3. j \in Nat /\ j > 1 /\ j - 1 > i BY <1>4, <3>1, <3>2
    <3> QED BY <1>4, <1>6, <3>2, <3>3
  <2> QED BY <2>1, <2>2 DEF Known
<1> QED BY <1>7, <1>8

\* The answer to the latest teleport: what is behind it is where the bot is.
LEMMA EndsWaiting ==
  ASSUME Types, Awaited, Known, to_server # <<>>, to_server' = Tail(to_server), UNCHANGED <<teleports, last_sent, to_bot>>,
         Head(to_server).kind = "accept", Head(to_server).id = server.awaiting, server.awaiting # 0, server'.awaiting = 0
  PROVE  Awaited' /\ Known'
<1>1. to_server \in Seq(ToServer) BY DEF Types
<1>2. Accepts(1) /\ to_server[1].id = server.awaiting /\ 1 \in DOMAIN to_server BY <1>1, Taken DEF Accepts
<1>3. \A i \in DOMAIN to_server' : i \in Nat /\ i + 1 \in DOMAIN to_server /\ to_server'[i] = to_server[i + 1]
  BY <1>1, Taken
<1>4. \A i \in DOMAIN to_server' : (Accepts(i)' => Accepts(i + 1)) /\ (Moves(i)' => Moves(i + 1))
  BY <1>3 DEF Accepts, Moves
<1>5. Awaited' BY <1>3, <1>4 DEF Awaited, Coming
<1>6. ASSUME last_sent # <<>> PROVE \E i \in DOMAIN to_server' : LastMove(i)'
  <2>1. PICK j \in DOMAIN to_server : j > 1 /\ LastMove(j) BY <1>2, <1>6 DEF Known
  <2>2. j \in Nat /\ j - 1 \in DOMAIN to_server' /\ to_server'[j - 1] = to_server[j] BY <1>1, <2>1, Taken
  <2>3. Moves(j - 1)' BY <2>1, <2>2 DEF LastMove, Moves
  <2>4. ASSUME NEW i \in DOMAIN to_server', i > j - 1, Moves(i)' PROVE FALSE
    <3>1. i + 1 \in DOMAIN to_server /\ i + 1 > j /\ Moves(i + 1) BY <1>3, <1>4, <2>2, <2>4
    <3> QED BY <2>1, <3>1 DEF LastMove
  <2> QED BY <2>1, <2>2, <2>3, <2>4 DEF LastMove
<1> QED BY <1>5, <1>6 DEF Known

LEMMA SameAgreed ==
  ASSUME Awaited, Known, UNCHANGED <<teleports, to_server, last_sent>>, SameComing,
         server'.awaiting = server.awaiting, server'.pos = server.pos
  PROVE  Awaited' /\ Known'
<1>1. Awaited' BY DEF Awaited, SameComing, Accepts
<1>2. Known' BY DEF Known, Moves, LastMove, Accepts
<1> QED BY <1>1, <1>2

LEMMA BotAgreed ==
  ASSUME Types, heading \in {-1, 0, 1}, Shape, Agreed
  PROVE  Agreed'
<1>0. UNCHANGED <<server, connected, teleports>> BY DEF Shape
<1>1. CASE UNCHANGED <<last_sent, to_bot, to_server>>
  BY <1>0, <1>1, SameAgreed DEF Agreed, SameComing, Coming
<1>2. CASE PhysicsTick
  <2>1. ASSUME NEW p \in Int, last_sent' = <<p>>, UNCHANGED to_bot, [kind |-> "move", pos |-> p] \in ToServer,
               Send([kind |-> "move", pos |-> p])
        PROVE  Agreed'
    BY <1>0, <2>1, MoveAgreed
  <2> QED BY <1>1, <1>2, <2>1, TickMoves
<1>3. CASE HandlePacket
  <2>0. to_bot # <<>> /\ to_bot' = Tail(to_bot) BY <1>3, Handles
  <2>1. ASSUME NEW m \in Moving, m = Head(to_bot), last_sent' = <<>>,
               [kind |-> "accept", id |-> m.id] \in ToServer, Send([kind |-> "accept", id |-> m.id])
        PROVE  Agreed'
    BY <1>0, <2>0, <2>1, AnswerAgreed
  <2>2. ASSUME NEW m \in Telling, m = Head(to_bot), UNCHANGED <<last_sent, to_server>> PROVE Agreed'
    <3>1. m.kind # "teleport" BY DEF Telling
    <3> QED BY <1>0, <2>0, <2>2, <3>1, ReadAgreed
  <2> QED BY <1>3, <2>1, <2>2, Handles
<1>4. CASE Says
  <2>1. PICK k \in {"start", "finish"}, c \in Cells :
          Send([kind |-> k, cell |-> c]) /\ UNCHANGED <<bot, last_sent, to_bot>>
    BY <1>4 DEF Says
  <2>2. [kind |-> k, cell |-> c] \in ToServer BY DEF ToServer
  <2> QED BY <1>0, <2>1, <2>2, SaysAgreed
<1>5. CASE Places
  <2>1. PICK c \in Cells : PlaceBlock(c) /\ UNCHANGED <<last_sent, to_bot>> BY <1>5 DEF Places
  <2>2. [kind |-> "place", cell |-> c] \in ToServer BY DEF ToServer
  <2> QED BY <1>0, <2>1, <2>2, SaysAgreed DEF PlaceBlock
<1>6. CASE Guesses BY <1>1, <1>6 DEF Guesses
<1> QED BY <1>1, <1>2, <1>3, <1>4, <1>5, <1>6 DEF Shape, Quiet

LEMMA ServerAgreed ==
  ASSUME Types, Server, Agreed
  PROVE  Agreed'
<1> SUFFICES ASSUME connected, connected' PROVE Awaited' /\ Known'
  BY DEF Agreed, Server, ServerTakes, ServerTeleports, ServerSets, ServerLeaves
<1>0. Awaited /\ Known /\ UNCHANGED last_sent /\ server \in ServerStates BY DEF Agreed, Server, Types
<1>1. \A i \in DOMAIN to_server : Accepts(i) => to_server[i].id \in Nat /\ to_server[i].id <= teleports
  <2> SUFFICES ASSUME NEW i \in DOMAIN to_server, Accepts(i) PROVE to_server[i].id \in Nat BY <1>0 DEF Awaited
  <2>1. to_server[i] \in ToServer BY ElementOfSeq, LenProperties DEF Types
  <2> QED BY <2>1 DEF Accepts, ToServer
<1>2. CASE ServerTakes
  <2>0. to_server \in Seq(ToServer) /\ to_server # <<>> /\ to_server' = Tail(to_server) BY <1>2 DEF ServerTakes, Types
  <2>1. PICK m : m = Head(to_server) OBVIOUS
  <2>2. m.kind \in {"start", "finish", "place"} => m.cell \in Cells BY <2>0, <2>1, TakenType
  <2>3. ASSUME m.kind \in {"start", "finish", "place"}, UNCHANGED teleports,
               server'.awaiting = server.awaiting, server'.pos = server.pos,
               UNCHANGED to_bot \/ \E b \in Blocks : to_bot' = Append(to_bot, Update(m.cell, b))
        PROVE  Awaited' /\ Known'
    <3>1. m.kind # "move" /\ m.kind # "accept" BY <2>3
    <3>2. SameComing
      <4>1. CASE UNCHANGED to_bot BY <4>1 DEF SameComing, Coming
      <4> QED BY <2>2, <2>3, <4>1, UpdateComing
    <3> QED BY <1>0, <2>0, <2>1, <2>3, <3>1, <3>2, TakesAgreed
  <2>4. CASE m.kind = "move" /\ TakeMove(m)
    <3>1. CASE Teleport([v |-> server.pos, rel |-> FALSE])
      <4>1. \A i \in DOMAIN to_server' : i + 1 \in DOMAIN to_server /\ to_server'[i] = to_server[i + 1] BY <2>0, Taken
      <4>2. \A i \in DOMAIN to_server' : Accepts(i)' => to_server'[i].id \in Nat /\ to_server'[i].id <= teleports
        BY <1>1, <4>1 DEF Accepts
      <4> QED BY <1>0, <3>1, <4>2, TeleportAgreed DEF ServerStates
    <3>2. CASE server' = [server EXCEPT !.pos = IF server.awaiting = 0 THEN m.pos ELSE @] /\ UNCHANGED <<to_bot, teleports>>
      <4>1. SameComing BY <3>2 DEF SameComing, Coming
      <4>2. server'.awaiting = server.awaiting /\ server'.pos = IF server.awaiting = 0 THEN m.pos ELSE server.pos
        BY <1>0, <3>2 DEF ServerStates
      <4>3. m.kind # "accept" BY <2>4
      <4> QED BY <1>0, <2>0, <2>1, <2>4, <3>2, <4>1, <4>2, <4>3, TakesAgreed
    <3> QED BY <2>4, <3>1, <3>2 DEF TakeMove
  <2>5. CASE m.kind = "accept" /\ TakeAccept(m)
    <3>0. UNCHANGED <<to_bot, teleports>> BY <2>5 DEF TakeAccept
    <3>1. server'.pos = server.pos /\ server'.awaiting = IF server.awaiting = m.id THEN 0 ELSE server.awaiting
      BY <1>0, <2>5 DEF TakeAccept, ServerStates
    <3>2. CASE server.awaiting = m.id /\ server.awaiting # 0
      BY <1>0, <2>0, <2>1, <2>5, <3>0, <3>1, <3>2, EndsWaiting
    <3>3. CASE ~(server.awaiting = m.id /\ server.awaiting # 0)
      <4>1. SameComing BY <3>0 DEF SameComing, Coming
      <4>2. server'.awaiting = server.awaiting BY <3>1, <3>3
      <4>3. m.kind # "move" BY <2>5
      <4> QED BY <1>0, <2>0, <2>1, <3>0, <3>1, <3>3, <4>1, <4>2, <4>3, TakesAgreed
    <3> QED BY <3>2, <3>3
  <2>6. ASSUME NEW d \in Cells, Refuse(d)
        PROVE  /\ server'.awaiting = server.awaiting /\ server'.pos = server.pos
               /\ \E b \in Blocks : to_bot' = Append(to_bot, Update(d, b))
    BY <1>0, <2>6 DEF Refuse, ServerStates
  <2>7. ASSUME NEW d \in Cells, NEW b \in Blocks, Sets(d, b)
        PROVE  /\ server'.awaiting = server.awaiting /\ server'.pos = server.pos
               /\ UNCHANGED to_bot \/ to_bot' = Append(to_bot, Update(d, b))
    BY <1>0, <2>7 DEF Sets, ServerStates
  <2>8. CASE m.kind = "start" /\ TakeStart(m)
    <3>1. UNCHANGED teleports BY <2>8 DEF TakeStart
    <3>2. CASE Refuse(m.cell) BY <2>2, <2>3, <2>6, <2>8, <3>1, <3>2
    <3>3. CASE server' = [server EXCEPT !.mining = m.cell] /\ UNCHANGED to_bot
      BY <1>0, <2>3, <2>8, <3>1, <3>3 DEF ServerStates
    <3> QED BY <2>8, <3>2, <3>3 DEF TakeStart
  <2>9. CASE m.kind = "finish" /\ TakeFinish(m)
    <3>1. UNCHANGED teleports /\ Air \in Blocks BY <2>9 DEF TakeFinish, Blocks
    <3>2. CASE Refuse(m.cell) BY <2>2, <2>3, <2>6, <2>9, <3>1, <3>2
    <3>3. CASE Sets(m.cell, Air) BY <2>2, <2>3, <2>7, <2>9, <3>1, <3>3
    <3> QED BY <2>9, <3>2, <3>3 DEF TakeFinish
  <2>10. CASE m.kind = "place" /\ TakePlace(m)
    <3>1. UNCHANGED teleports /\ Soft \in Blocks BY <2>10 DEF TakePlace, Blocks
    <3>2. CASE Refuse(m.cell) BY <2>2, <2>3, <2>6, <2>10, <3>1, <3>2
    <3>3. CASE Sets(m.cell, Soft) BY <2>2, <2>3, <2>7, <2>10, <3>1, <3>3
    <3> QED BY <2>10, <3>2, <3>3 DEF TakePlace
  <2> QED BY <1>2, <2>1, <2>4, <2>5, <2>8, <2>9, <2>10 DEF ServerTakes
<1>3. CASE ServerTeleports
  <2>1. PICK k \in TeleportKinds : Teleport(k) BY <1>3 DEF ServerTeleports
  <2>2. k \in [v : Int, rel : BOOLEAN] BY NavigationAssumption
  <2>3. UNCHANGED to_server BY <1>3 DEF ServerTeleports
  <2>4. \A i \in DOMAIN to_server' : Accepts(i)' => to_server'[i].id \in Nat /\ to_server'[i].id <= teleports
    BY <1>1, <2>3 DEF Accepts
  <2> QED BY <1>0, <2>1, <2>2, <2>4, TeleportAgreed
<1>4. CASE ServerSets
  <2>1. PICK d \in Sites, b \in {Air, Soft} :
          /\ server' = [server EXCEPT !.world[d] = b, !.silent = @ \ {d}]
          /\ to_bot' = Append(to_bot, Update(d, b))
    BY <1>4 DEF ServerSets
  <2>2. SameComing BY <2>1, UpdateComing, NavigationAssumption DEF Blocks
  <2>3. server'.awaiting = server.awaiting /\ server'.pos = server.pos BY <1>0, <2>1 DEF ServerStates
  <2>4. UNCHANGED <<teleports, to_server>> BY <1>4 DEF ServerSets
  <2> QED BY <1>0, <2>2, <2>3, <2>4, SameAgreed
<1>5. ~ServerLeaves BY DEF ServerLeaves
<1> QED BY <1>2, <1>3, <1>4, <1>5 DEF Server

\* When all has arrived, the server has the bot where it is
\* (bot/mod.rs 316-371, 647-671): an answer to a teleport is always before
\* the move that follows it, and last_sent is forgotten when one comes.
THEOREM PositionsComeToAgree == Spec => []PositionsAgree
<1>1. Init => Agreed
  <2> SUFFICES ASSUME Init PROVE Agreed OBVIOUS
  <2>1. server.awaiting = 1 /\ teleports = 1 /\ to_server = <<>> /\ last_sent = <<>>
    BY DEF Init
  <2>2. DOMAIN to_bot = {1} /\ to_bot[1].kind = "teleport" /\ to_bot[1].id = 1 BY DEF Init
  <2> QED BY <2>1, <2>2 DEF Agreed, Awaited, Known, Coming, Accepts
<1>2. Base /\ Agreed /\ [Next]_vars => Agreed'
  <2> SUFFICES ASSUME Base, Agreed, [Next]_vars PROVE Agreed' OBVIOUS
  <2>1. CASE Bot
    <3>1. heading \in {-1, 0, 1} BY DEF Base, Control, Locals
    <3> QED BY <2>1, <3>1, BotShape, BotAgreed DEF Base
  <2>2. CASE Server BY <2>2, ServerAgreed DEF Base
  <2>3. CASE UNCHANGED vars
    BY <2>3 DEF vars, counts, Agreed, Awaited, Known, Coming, Accepts, Moves, LastMove
  <2> QED BY <2>1, <2>2, <2>3 DEF Next
<1>3. Base /\ Agreed => PositionsAgree
  <2> SUFFICES ASSUME Base, Agreed, connected, to_bot = <<>>, to_server = <<>>, last_sent = <<bot.pos>>
               PROVE  server.pos = bot.pos
    BY BaseTypeOK DEF PositionsAgree
  <2>1. DOMAIN to_bot = {} /\ DOMAIN to_server = {} OBVIOUS
  <2>2. server.awaiting = 0 BY <2>1 DEF Agreed, Awaited
  <2>3. last_sent # <<>> OBVIOUS
  <2>4. <<server.pos>> = <<bot.pos>> BY <2>1, <2>2, <2>3 DEF Agreed, Known
  <2> QED BY <2>4
<1> QED BY <1>1, <1>2, <1>3, Based, PTL DEF Spec
===============================================================================
