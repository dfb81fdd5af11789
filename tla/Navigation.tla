------------------------------ MODULE Navigation ------------------------------
(***************************************************************************)
(* bot/mod.rs: walking to a goal, digging and placing, with a server that  *)
(* moves the bot, changes blocks and takes its own decisions.  The world   *)
(* is a line of cells.  What a tick of the physics does to the position is *)
(* a choice; times are choices too: a deadline may pass at any step.       *)
(***************************************************************************)
EXTENDS Integers, Sequences

CONSTANTS
  Width,             \* cells 1 .. Width may hold blocks
  Worlds,            \* the blocks at first: Air, Soft or Hard in each cell
  Goals,             \* where the bot is told to go
  Sites,             \* where the program digs and places by itself
  CantBreak,         \* kinds of blocks that paths do not lead through
  Scaffold,          \* cells a path reaches only by placing a block
  Reach,             \* how far the server lets the bot dig and place
  MaxRetries,        \* 12 paths in a call
  MaxPauses,         \* 6 searches without a path
  Ticks,             \* of a wait
  Drives,            \* 12 and 6 steps that a dig waits before and after
  TeleportKinds,     \* [v, rel]: to v, or by v
  MaxTeleports, MaxChanges, MaxCalls, MaxQueue   \* bounds of the instance

VARIABLES
  bot,        \* [pos, vel, physics, world, guessed]: physics is should_physics;
              \* guessed: blocks it set itself since it was last told of them
  last_sent,  \* <<>>, or <<the position sent last>>
  heading,    \* control_state: -1 or 1 when walking that way, 0 when cleared
  pc, goal, retries, path, idx, dig_progress,   \* goto_goal and follow_path
  target, slow, return_to,                      \* dig
  left,       \* ticks or steps that a wait still takes
  result,     \* of the last call
  server,     \* [pos, awaiting, mining, world, silent]: silent: blocks it broke
              \* or placed for the bot without telling it
  to_bot, to_server, connected,
  ended,      \* the bot has noticed that the connection is gone
  teleports, changes, calls

call == <<goal, retries, path, idx, dig_progress, target, slow, return_to, result>>
counts == <<teleports, changes, calls>>
vars == <<bot, last_sent, heading, pc, left, call, server, to_bot, to_server, connected, ended, counts>>

Cells == 1 .. Width
Air == "air"
Soft == "soft"   \* breaks by hand in less than four seconds
Hard == "hard"

ASSUME NavigationAssumption ==
  /\ Width \in Nat \ {0} /\ Goals \subseteq Cells /\ Sites \subseteq Cells
  /\ Worlds \subseteq [Cells -> {Air, Soft, Hard}]
  /\ TeleportKinds \subseteq [v : Int, rel : BOOLEAN]
  /\ MaxRetries \in Nat /\ MaxPauses \in Nat /\ Ticks \in Nat \ {0} /\ Drives \in Nat \ {0}

At(world, c) == IF c \in Cells THEN world[c] ELSE Air
Distance(a, b) == IF a > b THEN a - b ELSE b - a

-----------------------------------------------------------------------------
(* One step of the connection and the physics: drive_tick.                 *)

\* A write waits for room; after the end it is lost (see WriteFails).
CanSend == ~connected \/ Len(to_server) < MaxQueue
Send(m) == to_server' = IF connected THEN Append(to_server, m) ELSE to_server

\* A tick moves the bot by a cell at most, and not into a block; without
\* controls it slides once at most.  The position is sent when it is new.
PhysicsTick ==
  /\ CanSend
  /\ IF ~bot.physics THEN UNCHANGED <<bot, last_sent, to_server>>
     ELSE \E v \in {0, IF heading = 0 THEN bot.vel ELSE heading} :
            LET p == IF At(bot.world, bot.pos + v) = Air THEN bot.pos + v ELSE bot.pos
            IN  /\ bot' = [bot EXCEPT !.pos = p, !.vel = IF heading = 0 THEN 0 ELSE p - bot.pos]
                /\ last_sent' = <<p>>
                /\ IF last_sent = <<p>> THEN UNCHANGED to_server ELSE Send([kind |-> "move", pos |-> p])
  /\ UNCHANGED <<to_bot, ended>>

\* Mutant of HandlePosition: what was sent before a teleport still counts.
HandlePositionKeeping(m) ==
  /\ bot' = [bot EXCEPT !.pos = IF m.rel THEN @ + m.v ELSE m.v, !.vel = 0, !.physics = TRUE]
  /\ Send([kind |-> "accept", id |-> m.id])
  /\ UNCHANGED last_sent

HandlePosition(m) ==
  /\ bot' = [bot EXCEPT !.pos = IF m.rel THEN @ + m.v ELSE m.v, !.vel = 0, !.physics = TRUE]
  /\ last_sent' = <<>>
  /\ Send([kind |-> "accept", id |-> m.id])

\* Mutant of HandleBlock: the block being dug is left to the dig.
HandleBlockElsewhere(m) ==
  /\ bot' = [bot EXCEPT !.world[m.cell] = IF pc \in {"swing", "linger"} /\ m.cell = target THEN @ ELSE m.block,
                        !.guessed = @ \ {m.cell}]
  /\ UNCHANGED <<last_sent, to_server>>

HandleBlock(m) ==
  /\ bot' = [bot EXCEPT !.world[m.cell] = m.block, !.guessed = @ \ {m.cell}]
  /\ UNCHANGED <<last_sent, to_server>>

HandlePacket ==
  /\ CanSend
  /\ to_bot # <<>>
  /\ to_bot' = Tail(to_bot)
  /\ LET m == Head(to_bot)
     IN  \/ m.kind = "teleport" /\ HandlePosition(m)
         \/ m.kind = "block" /\ HandleBlock(m)
  /\ UNCHANGED ended

\* Tick, Handled or Event.
Driven == PhysicsTick \/ HandlePacket

Disconnected ==
  /\ ~connected
  /\ to_bot = <<>>
  /\ ended' = TRUE
  /\ UNCHANGED <<bot, last_sent, to_server, to_bot>>

\* wait_ticks: n ticks, packets between them, or the end.
Waits(next) ==
  \/ /\ PhysicsTick
     /\ IF left = 1 THEN next ELSE left' = left - 1 /\ UNCHANGED <<pc, call, heading>>
  \/ HandlePacket /\ UNCHANGED <<pc, left, call, heading>>
  \/ Disconnected /\ next

-----------------------------------------------------------------------------
(* goto_goal.                                                              *)

Node(w, c) == [cell |-> c, to_break |-> IF At(w, c) = Air THEN <<>> ELSE <<c>>, place |-> c \in Scaffold]

\* The cells one after the other, as far as paths may lead.
Route(from, to) ==
  LET d == IF to > from THEN 1 ELSE -1
      n == Distance(from, to)
      open == {k \in 0 .. n : \A i \in 1 .. k : At(bot.world, from + i * d) \notin CantBreak}
      far == CHOOSE k \in open : \A j \in open : j <= k
  IN  [i \in 1 .. far |-> Node(bot.world, from + i * d)]

\* What a search may give: all of the way, what there is of it, or, when its
\* time is over, a part of it.
Searched(from, to) ==
  LET route == Route(from, to)
  IN  {[status |-> IF Len(route) = Distance(from, to) THEN "success" ELSE "nopath", path |-> route]}
      \cup {[status |-> "timeout", path |-> SubSeq(route, 1, k)] : k \in 0 .. Len(route)}

Nearest(p) ==
  CHOOSE i \in DOMAIN p : \A j \in DOMAIN p :
    \/ Distance(p[i].cell, bot.pos) < Distance(p[j].cell, bot.pos)
    \/ Distance(p[i].cell, bot.pos) = Distance(p[j].cell, bot.pos) /\ i <= j

\* What is local to a function is gone when it returns.
NoPathFollowed == path' = <<>> /\ idx' = 1 /\ dig_progress' = 0
NoDig == target' = 1 /\ slow' = FALSE /\ return_to' = "idle"

Return(r) ==
  /\ pc' = "idle" /\ left' = 0
  /\ result' = r
  /\ goal' = 1 /\ retries' = 0
  /\ NoPathFollowed /\ NoDig

Arrive ==
  /\ pc = "goto" /\ bot.pos = goal
  /\ heading' = 0
  /\ pc' = "arrived" /\ left' = Ticks
  /\ UNCHANGED <<call, bot, last_sent, to_bot, to_server, ended>>

Arrived == pc = "arrived" /\ Waits(Return("true") /\ UNCHANGED heading)

GotoTimesOut ==
  /\ pc = "goto" /\ bot.pos # goal
  /\ heading' = 0
  /\ Return("false")
  /\ UNCHANGED <<bot, last_sent, to_bot, to_server, ended>>

FindsNothing(status) ==
  IF status = "nopath" \/ retries >= MaxPauses
  THEN heading' = 0 /\ Return("false")
  ELSE /\ retries' = retries + 1
       /\ pc' = "pause" /\ left' = Ticks
       /\ UNCHANGED <<heading, goal, path, idx, dig_progress, target, slow, return_to, result>>

FindsPath ==
  /\ pc = "goto" /\ bot.pos # goal
  /\ \E found \in Searched(bot.pos, goal) :
       IF found.path = <<>> THEN FindsNothing(found.status)
       ELSE /\ path' = found.path
            /\ idx' = Nearest(found.path)
            /\ dig_progress' = 0
            /\ pc' = "follow"
            /\ UNCHANGED <<heading, goal, retries, target, slow, return_to, result, left>>
  /\ UNCHANGED <<bot, last_sent, to_bot, to_server, ended>>

Paused == pc = "pause" /\ Waits(pc' = "goto" /\ UNCHANGED <<left, call, heading>>)

\* Mutant of Retry: an end of the path is not an attempt.
RetryUncounted ==
  pc' = "goto" /\ retries' = retries /\ NoPathFollowed /\ UNCHANGED <<goal, target, slow, return_to, result, left>>

\* Mutant of Retry: the goal is looked at before the last step.
RetryBefore ==
  IF retries >= MaxRetries THEN Return(IF bot.pos = goal THEN "true" ELSE "false")
  ELSE /\ pc' = "goto"
       /\ retries' = retries + 1
       /\ NoPathFollowed
       /\ UNCHANGED <<goal, target, slow, return_to, result, left>>

\* After Reached or NeedRepath.
Retry ==
  IF retries >= MaxRetries THEN Return(IF bot'.pos = goal THEN "true" ELSE "false")
  ELSE /\ pc' = "goto"
       /\ retries' = retries + 1
       /\ NoPathFollowed
       /\ UNCHANGED <<goal, target, slow, return_to, result, left>>

-----------------------------------------------------------------------------
(* follow_path.                                                            *)

FollowRest == UNCHANGED <<bot, last_sent, to_bot, to_server, ended>>

FollowTimesOut ==
  /\ pc = "follow" /\ idx <= Len(path)
  /\ heading' = 0
  /\ FollowRest
  /\ Retry

\* Mutant of PathEnds: the controls are not released.
PathEndsWalking ==
  /\ pc = "follow" /\ idx > Len(path)
  /\ UNCHANGED heading
  /\ FollowRest
  /\ Retry

PathEnds ==
  /\ pc = "follow" /\ idx > Len(path)
  /\ heading' = 0
  /\ FollowRest
  /\ Retry

AtWaypoint == path[idx].cell = bot.pos

NextWaypoint ==
  /\ pc = "follow" /\ idx <= Len(path) /\ AtWaypoint
  /\ idx' = idx + 1
  /\ dig_progress' = 0
  /\ UNCHANGED <<pc, left, heading, goal, retries, path, target, slow, return_to, result>>
  /\ FollowRest

BeginDig(c, caller) ==
  /\ heading' = 0
  /\ target' = c /\ return_to' = caller
  /\ pc' = "settle" /\ left' = Drives

BreakNext ==
  /\ pc = "follow" /\ idx <= Len(path) /\ ~AtWaypoint
  /\ dig_progress < Len(path[idx].to_break)
  /\ dig_progress' = dig_progress + 1
  /\ LET c == path[idx].to_break[dig_progress + 1]
     IN  IF At(bot.world, c) # Air THEN BeginDig(c, "follow")
         ELSE UNCHANGED <<heading, target, return_to, pc, left>>
  /\ UNCHANGED <<goal, retries, path, idx, slow, result>>
  /\ FollowRest

NothingToBreak == pc = "follow" /\ idx <= Len(path) /\ ~AtWaypoint /\ dig_progress >= Len(path[idx].to_break)

CannotPlace ==
  /\ NothingToBreak /\ path[idx].place
  /\ heading' = 0
  /\ FollowRest
  /\ Retry

WalkOn ==
  /\ NothingToBreak /\ ~path[idx].place
  /\ heading' = IF path[idx].cell > bot.pos THEN 1 ELSE -1
  /\ pc' = "walking"
  /\ UNCHANGED <<left, call>>
  /\ FollowRest

\* Stuck: forty ticks without moving, or too long without a waypoint.
Walking ==
  /\ pc = "walking"
  /\ \/ Driven /\ pc' = "follow" /\ UNCHANGED <<heading, left, call>>
     \/ Driven /\ heading' = 0 /\ Retry
     \/ Disconnected /\ Return("false") /\ UNCHANGED heading

-----------------------------------------------------------------------------
(* dig and place_block.                                                    *)

DigRest == UNCHANGED <<heading, call>>

DigReturns ==
  IF return_to = "idle" THEN Return("true")
  ELSE pc' = return_to /\ NoDig /\ UNCHANGED <<left, goal, retries, path, idx, dig_progress, result>>

\* Up to the number of steps, or until the bot stands still.
Settle ==
  /\ pc = "settle"
  /\ \/ /\ Driven
        /\ \/ left > 1 /\ left' = left - 1 /\ UNCHANGED pc
           \/ (left = 1 \/ bot'.vel = 0) /\ left' = Ticks /\ pc' = "face"
        /\ DigRest
     \/ Disconnected /\ DigReturns /\ UNCHANGED heading

Face == pc = "face" /\ Waits(pc' = "start" /\ UNCHANGED <<left, call, heading>>)

StartDig ==
  /\ pc = "start" /\ CanSend
  /\ Send([kind |-> "start", cell |-> target])
  /\ slow' = (At(bot.world, target) = Hard)
  /\ pc' = "mine"
  /\ UNCHANGED <<left, heading, goal, retries, path, idx, dig_progress, target, return_to, result,
                 bot, last_sent, to_bot, ended>>

\* The time it takes is over.
MineEnds ==
  /\ pc = "mine"
  /\ pc' = "finish"
  /\ UNCHANGED <<left, bot, last_sent, to_bot, to_server, ended>> /\ DigRest

Swing ==
  /\ pc = "mine"
  /\ pc' = "swing" /\ left' = Ticks
  /\ UNCHANGED <<bot, last_sent, to_bot, to_server, ended>> /\ DigRest

\* Mutant of Swung: a block that is gone ends the dig at once.
SwungGone == pc' = (IF At(bot.world, target) = Air THEN return_to ELSE "mine")

Swung == pc' = (IF At(bot.world, target) = Air THEN "finish" ELSE "mine")

\* The last step of the wait is a tick or the end, neither changes blocks.
Mine == pc = "swing" /\ Waits(Swung /\ UNCHANGED <<left, call, heading>>)

Finish ==
  /\ pc = "finish" /\ CanSend
  /\ Send([kind |-> "finish", cell |-> target])
  /\ pc' = "linger" /\ left' = Drives
  /\ UNCHANGED <<bot, last_sent, to_bot, ended>> /\ DigRest

Linger ==
  /\ pc = "linger"
  /\ \/ /\ Driven
        /\ IF left = 1 \/ At(bot'.world, target) = Air THEN pc' = "predict" /\ UNCHANGED left
           ELSE left' = left - 1 /\ UNCHANGED pc
     \/ Disconnected /\ pc' = "predict" /\ UNCHANGED left
  /\ DigRest

Guess(c, block) == [bot EXCEPT !.world[c] = block, !.guessed = @ \cup {c}]

Predict ==
  /\ pc = "predict"
  /\ bot' = IF bot.world[target] = Air \/ slow THEN bot ELSE Guess(target, Air)
  /\ DigReturns
  /\ UNCHANGED <<heading, last_sent, to_bot, to_server, ended>>

PlaceBlock(c) ==
  /\ CanSend
  /\ Send([kind |-> "place", cell |-> c])
  /\ bot' = IF bot.world[c] = Air THEN Guess(c, Soft) ELSE bot

-----------------------------------------------------------------------------
(* The program.                                                            *)

MayCall == pc = "idle" /\ ~ended /\ calls < MaxCalls

CallGoto(g) ==
  /\ MayCall
  /\ goal' = g /\ retries' = 0 /\ pc' = "goto"
  /\ UNCHANGED <<heading, left, path, idx, dig_progress, target, slow, return_to, result,
                 bot, last_sent, to_bot, to_server, ended>>

CallDig(c) ==
  /\ MayCall
  /\ BeginDig(c, "idle")
  /\ UNCHANGED <<goal, retries, path, idx, dig_progress, slow, result, bot, last_sent, to_bot, to_server, ended>>

CallPlace(c) ==
  /\ MayCall
  /\ PlaceBlock(c)
  /\ UNCHANGED <<pc, heading, left, call, last_sent, to_bot, ended>>

Called ==
  /\ \/ \E g \in Goals : CallGoto(g)
     \/ \E c \in Sites : CallDig(c) \/ CallPlace(c)
  /\ calls' = calls + 1

\* Between calls the program waits for events, until there are no more.
NextEvent == pc = "idle" /\ ~ended /\ (Driven \/ Disconnected) /\ UNCHANGED <<pc, heading, left, call>>

\* A write after the end may be an error, which every function returns.
WriteFails ==
  /\ pc # "idle" /\ ~connected
  /\ ended' = TRUE
  /\ Return("error")
  /\ UNCHANGED <<heading, bot, last_sent, to_bot, to_server>>

Proceed ==
  \/ Arrive \/ Arrived \/ GotoTimesOut \/ FindsPath \/ Paused
  \/ FollowTimesOut \/ PathEnds \/ NextWaypoint \/ BreakNext \/ CannotPlace \/ WalkOn \/ Walking
  \/ Settle \/ Face \/ StartDig \/ MineEnds \/ Swing \/ Mine \/ Finish \/ Linger \/ Predict
  \/ WriteFails

Bot ==
  /\ \/ (Proceed \/ NextEvent) /\ UNCHANGED calls
     \/ Called
  /\ UNCHANGED <<server, connected, teleports, changes>>

-----------------------------------------------------------------------------
(* The server: it believes the bot where it last let it be, and ignores    *)
(* moves until a teleport is accepted.                                     *)

Update(c, block) == [kind |-> "block", cell |-> c, block |-> block]
InReach(c) == Distance(server.pos, c) <= Reach

Teleport(k) ==
  /\ teleports < MaxTeleports
  /\ teleports' = teleports + 1
  /\ server' = [server EXCEPT !.pos = IF k.rel THEN @ + k.v ELSE k.v, !.awaiting = teleports + 1]
  /\ to_bot' = Append(to_bot, [kind |-> "teleport", id |-> teleports + 1, v |-> k.v, rel |-> k.rel])

TakeMove(m) ==
  \/ /\ server' = [server EXCEPT !.pos = IF server.awaiting = 0 THEN m.pos ELSE @]
     /\ UNCHANGED <<to_bot, teleports>>
  \/ server.awaiting = 0 /\ Teleport([v |-> server.pos, rel |-> FALSE])

TakeAccept(m) ==
  /\ server' = [server EXCEPT !.awaiting = IF @ = m.id THEN 0 ELSE @]
  /\ UNCHANGED <<to_bot, teleports>>

Refuse(c) ==
  /\ server' = [server EXCEPT !.mining = 0, !.silent = @ \ {c}]
  /\ to_bot' = Append(to_bot, Update(c, server.world[c]))

TakeStart(m) ==
  /\ IF InReach(m.cell) /\ server.world[m.cell] # Air
     THEN server' = [server EXCEPT !.mining = m.cell] /\ UNCHANGED to_bot
     ELSE Refuse(m.cell)
  /\ UNCHANGED teleports

\* What it breaks or places it may echo to the one who did.
Sets(c, block) ==
  \/ /\ server' = [server EXCEPT !.mining = 0, !.world[c] = block, !.silent = @ \cup {c}]
     /\ UNCHANGED to_bot
  \/ /\ server' = [server EXCEPT !.mining = 0, !.world[c] = block, !.silent = @ \ {c}]
     /\ to_bot' = Append(to_bot, Update(c, block))

TakeFinish(m) ==
  /\ IF server.mining = m.cell /\ InReach(m.cell) THEN Sets(m.cell, Air) ELSE Refuse(m.cell)
  /\ UNCHANGED teleports

TakePlace(m) ==
  /\ IF server.world[m.cell] = Air /\ InReach(m.cell) THEN Sets(m.cell, Soft) ELSE Refuse(m.cell)
  /\ UNCHANGED teleports

ServerTakes ==
  /\ connected
  /\ to_server # <<>>
  /\ to_server' = Tail(to_server)
  /\ LET m == Head(to_server)
     IN  \/ m.kind = "move" /\ TakeMove(m)
         \/ m.kind = "accept" /\ TakeAccept(m)
         \/ m.kind = "start" /\ TakeStart(m)
         \/ m.kind = "finish" /\ TakeFinish(m)
         \/ m.kind = "place" /\ TakePlace(m)
  /\ UNCHANGED <<connected, changes>>

ServerTeleports ==
  /\ connected
  /\ \E k \in TeleportKinds : Teleport(k)
  /\ UNCHANGED <<to_server, connected, changes>>

ServerSets ==
  /\ connected
  /\ changes < MaxChanges
  /\ changes' = changes + 1
  /\ \E c \in Sites, block \in {Air, Soft} :
       /\ server.world[c] # block
       /\ server' = [server EXCEPT !.world[c] = block, !.silent = @ \ {c}]
       /\ to_bot' = Append(to_bot, Update(c, block))
  /\ UNCHANGED <<to_server, connected, teleports>>

ServerLeaves ==
  /\ connected
  /\ connected' = FALSE
  /\ to_server' = <<>>
  /\ UNCHANGED <<server, to_bot, teleports, changes>>

Server ==
  /\ ServerTakes \/ ServerTeleports \/ ServerSets \/ ServerLeaves
  /\ UNCHANGED <<bot, last_sent, heading, pc, left, call, ended, calls>>

-----------------------------------------------------------------------------
\* Just logged in: the position is the first packet to come.
Init ==
  /\ \E w \in Worlds :
       /\ bot = [pos |-> 0, vel |-> 0, physics |-> FALSE, world |-> w, guessed |-> {}]
       /\ server = [pos |-> 1, awaiting |-> 1, mining |-> 0, world |-> w, silent |-> {}]
  /\ to_bot = <<[kind |-> "teleport", id |-> 1, v |-> 1, rel |-> FALSE]>>
  /\ teleports = 1
  /\ last_sent = <<>> /\ heading = 0
  /\ pc = "idle" /\ left = 0 /\ goal = 1 /\ retries = 0 /\ path = <<>> /\ idx = 1 /\ dig_progress = 0
  /\ target = 1 /\ slow = FALSE /\ return_to = "idle" /\ result = "none"
  /\ to_server = <<>> /\ connected = TRUE /\ ended = FALSE
  /\ changes = 0 /\ calls = 0

Next == Bot \/ Server

Spec == Init /\ [][Next]_vars

Timers == (FollowTimesOut \/ MineEnds) /\ UNCHANGED <<calls, server, connected, teleports, changes>>

Work == Proceed /\ UNCHANGED <<calls, server, connected, teleports, changes>>

Taking == ServerTakes /\ UNCHANGED <<bot, last_sent, heading, pc, left, call, ended, calls>>

\* The bot's task runs, the server reads its socket, and clocks go on.
FairSpec == Spec /\ WF_vars(Work) /\ SF_vars(Timers) /\ WF_vars(Taking)

-----------------------------------------------------------------------------
Digging == pc \in {"settle", "face", "start", "mine", "swing", "finish", "linger", "predict"}

TypeOK ==
  /\ bot.world \in [Cells -> {Air, Soft, Hard}] /\ bot.vel \in {-1, 0, 1} /\ bot.physics \in BOOLEAN
  /\ heading \in {-1, 0, 1}
  /\ Digging => heading = 0 /\ target \in Cells
  /\ pc = "follow" => idx \in 1 .. Len(path) + 1
  /\ pc = "walking" => idx \in 1 .. Len(path) /\ heading # 0 /\ dig_progress = Len(path[idx].to_break)

\* bot/mod.rs 316-371, 647-671: when everything has arrived and the bot has
\* nothing new to send, the server believes it where it is, whatever
\* teleports came between its moves.
PositionsAgree ==
  /\ TypeOK
  /\ connected /\ to_bot = <<>> /\ to_server = <<>> /\ last_sent = <<bot.pos>> => server.pos = bot.pos

UnderWay(c) == \E i \in DOMAIN to_bot : to_bot[i].kind = "block" /\ to_bot[i].cell = c

\* bot/mod.rs 452-502, 1132-1138, 1263-1283: the bot's blocks are the
\* server's but for what is on its way, what the server did not tell, and
\* what the bot has guessed since it was told last.
TellingIsBelieved ==
  \A c \in Cells : bot.world[c] # server.world[c] => UnderWay(c) \/ c \in bot.guessed \cup server.silent

\* bot/mod.rs 1073-1117, 1314-1376, 1380-1494: a call that is over leaves
\* no key pressed, and when the server has heard it, no dig that was begun
\* and not ended, unless the connection is gone.
NothingLeftBehind ==
  pc = "idle" /\ ~ended => heading = 0 /\ (connected /\ to_server = <<>> => server.mining = 0)

\* bot/mod.rs 1306-1376: goto fails only where the goal is not, as long as
\* there is a connection; a teleport or a last step may be what reaches it.
FailsElsewhere == [][pc # "idle" /\ pc' = "idle" /\ result' = "false" /\ ~ended' => bot'.pos # goal]_vars

\* bot/mod.rs 1314-1494: every call returns, with a server that teleports
\* the bot, changes blocks under its path, says nothing or goes away.
EveryCallReturns == pc # "idle" ~> pc = "idle"
=============================================================================
