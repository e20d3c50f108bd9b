---------------------------- MODULE Setup_proofs ----------------------------
(***************************************************************************)
(* Proofs about Setup: its types; that a user is marked only with a chat   *)
(* he can use, that a session the app lists is one the bot is in, that a   *)
(* gateway serves the rooms of its own bot; and, unless the bot can lose   *)
(* its space, that the rooms on file are linked.  All hold whatever fails, *)
(* is reset or overlaps.  The last part, where tasks do not overlap and    *)
(* the bot keeps its space, accounts for every room there is too many of.  *)
(***************************************************************************)
EXTENDS Setup, TLAPS, FiniteSetTheorems

Session == {"session", "starter"}

\* A room that was not created has nothing; what a room says of its user, its parent and
\* its bot is true.
RoomOK(r) ==
    /\ room[r].kind = None => room[r] = NoRoom
    /\ room[r].kind = "starter" => room[r].bot \in room[r].invited
    /\ room[r].parent # None => /\ room[room[r].parent].kind = "space"
                                /\ room[room[r].parent].bot = room[r].bot
RoomInv == \A r \in Rooms : RoomOK(r)

IsSpace(s, b) == s # None => room[s].kind = "space" /\ room[s].bot = b
IsControl(c, b) == c # None => room[c].kind = "control" /\ room[c].bot = b

\* The tasks whose next request needs the space.
NeedsSpace == {"control", "invite_space", "invite_control", "session", "child", "parent"}

\* A task knows a space and a control room of its own bot; ...
FieldOK(k) ==
    /\ k.at = "idle" => k = Idle
    /\ k.at = "mint" => k.space = None /\ k.control = None
    /\ k.at \notin {"idle", "mint"} => k.bot # None
    /\ IsSpace(k.space, k.bot) /\ IsControl(k.control, k.bot)
    /\ k.at \in NeedsSpace => k.space # None
FieldInv == \A t \in Tasks : FieldOK(task[t])

\* ... the room it has created is there, and not linked to the space before it should be,
\* and the session that a command leaves is unlinked; ...
OwnOK(k) ==
    /\ k.at \in {"child", "parent"} =>
          /\ k.room # None /\ room[k.room].kind \in Session \cup {"control"}
          /\ room[k.room].bot = k.bot
    /\ k.at = "child" => /\ room[k.room].child = None
                         /\ room[k.room].kind \in Session => room[k.room].in
    /\ k.at = "leave" => /\ k.room # None /\ room[k.room].kind \in Session
                         /\ room[k.room].child = None
OwnInv == \A t \in Tasks : OwnOK(task[t])

\* ... and no two tasks are about to do that to one room.
Distinct ==
    \A t, s \in Tasks : t # s /\ task[t].at = "child" /\ task[s].at \in {"child", "leave"}
                           => task[s].room # task[t].room

\* The rooms on file and the rooms of the gateway are what they are taken for.
FileInv ==
    /\ workspace # None => /\ room[workspace.space].kind = "space"
                           /\ room[workspace.control].kind = "control"
                           /\ room[workspace.control].bot = room[workspace.space].bot
    /\ IsSpace(gateway.space, gateway.bot)
    /\ gateway.space # None => gateway.bot # None

\* A user is marked only with a starter chat of his bot that has a parent.
MarkInv ==
    \A u \in Bots : onboarded[u] # None =>
       /\ room[onboarded[u]].kind = "starter" /\ room[onboarded[u]].bot = u
       /\ room[onboarded[u]].parent # None

IInv == TypeOK /\ RoomInv /\ FieldInv /\ OwnInv /\ Distinct /\ FileInv /\ MarkInv /\ ListedIsLive

\* Unless the bot loses its space, the control room goes with it.
LinkInv ==
    /\ \A r \in Rooms : room[r].kind = "space" => room[r].in
    /\ \A t \in Tasks :
          /\ task[t].at = "space" => task[t].control = None
          /\ task[t].at = "parent" /\ room[task[t].room].kind = "control"
                => room[task[t].room].child = task[t].space
    /\ WorkspaceLinked

-----------------------------------------------------------------------------
(* What a step may do to the rooms. *)

\* The rooms that were there keep what they are.
Kept ==
    \A r \in Rooms : room[r].kind # None =>
       /\ room'[r].kind = room[r].kind /\ room'[r].bot = room[r].bot
       /\ room[r].parent # None => room'[r].parent # None

\* No room is linked, and the bot leaves none.
NotLinked ==
    \A r \in Rooms : IF room[r].kind = None THEN room'[r].child = None
                     ELSE room'[r].child = room[r].child /\ room'[r].in = room[r].in

LEMMA Nones ==
  ASSUME SetupAssumption
  PROVE  None \notin Rooms /\ None \notin Bots /\ None \notin Kinds
BY DEF SetupAssumption, Rooms, Bots

LEMMA NewRoomIs ==
  ASSUME CanCreate
  PROVE  NewRoom \in Rooms /\ room[NewRoom].kind = None
BY DEF CanCreate, NewRoom

\* The types of a room and of a task.
LEMMA RoomType ==
  ASSUME TypeOK, NEW r \in Rooms
  PROVE  /\ room[r] \in RoomRecords
         /\ room[r].kind \in Kinds \cup {None} /\ room[r].bot \in Bots \cup {None}
         /\ room[r].invited \subseteq Bots /\ room[r].in \in BOOLEAN
         /\ room[r].child \in Rooms \cup {None} /\ room[r].parent \in Rooms \cup {None}
<1>1. room[r] \in RoomRecords
  BY DEF TypeOK
<1>2. QED
  BY <1>1 DEF RoomRecords

LEMMA TaskType ==
  ASSUME TypeOK, NEW t \in Tasks
  PROVE  /\ task[t] \in TaskRecords /\ task[t].at \in Stages /\ task[t].bot \in Bots \cup {None}
         /\ task[t].space \in Rooms \cup {None} /\ task[t].control \in Rooms \cup {None}
         /\ task[t].room \in Rooms \cup {None}
<1>1. task[t] \in TaskRecords
  BY DEF TypeOK
<1>2. QED
  BY <1>1 DEF TaskRecords

LEMMA TaskIs ==
  ASSUME NEW STATE k, k \in TaskRecords
  PROVE  k = [at |-> k.at, bot |-> k.bot, space |-> k.space, control |-> k.control,
              room |-> k.room]
BY DEF TaskRecords

LEMMA RoomsSame ==
  ASSUME TypeOK, RoomInv, UNCHANGED room
  PROVE  room' \in [Rooms -> RoomRecords] /\ RoomInv' /\ Kept /\ NotLinked
BY DEF TypeOK, RoomInv, RoomOK, Kept, NotLinked, NoRoom

\* A room of the task's bot is created.
LEMMA RoomCreated ==
  ASSUME SetupAssumption, TypeOK, RoomInv, CanCreate, NEW t \in Tasks, NEW kind \in Kinds,
         NEW STATE invited, invited \subseteq Bots, kind = "starter" => task[t].bot \in invited,
         Created(t, kind, invited)
  PROVE  /\ room' \in [Rooms -> RoomRecords] /\ RoomInv' /\ Kept /\ NotLinked
         /\ NewRoom \in Rooms /\ room[NewRoom].kind = None
         /\ room'[NewRoom].kind = kind /\ room'[NewRoom].bot = task[t].bot
         /\ room'[NewRoom].in = TRUE /\ room'[NewRoom].child = None
         /\ \A r \in Rooms \ {NewRoom} : room'[r] = room[r]
<1> DEFINE y == [kind |-> kind, bot |-> task[t].bot, in |-> TRUE, invited |-> invited,
                 child |-> None, parent |-> None]
<1>1. NewRoom \in Rooms /\ room[NewRoom].kind = None
  BY NewRoomIs
<1>2. room' = [room EXCEPT ![NewRoom] = y]
  BY DEF Created
<1>4. y \in RoomRecords
  <2>1. task[t].bot \in Bots \cup {None} /\ invited \in SUBSET Bots
    BY TaskType
  <2>2. QED
    BY <2>1 DEF RoomRecords
<1>5. /\ y.kind = kind /\ y.bot = task[t].bot /\ y.in = TRUE /\ y.child = None
      /\ y.parent = None /\ y.invited = invited
  OBVIOUS
<1> HIDE DEF y
<1>6. /\ room' \in [Rooms -> RoomRecords] /\ room'[NewRoom] = y
      /\ \A r \in Rooms \ {NewRoom} : room'[r] = room[r]
  BY <1>1, <1>2, <1>4 DEF TypeOK
<1>7. Kept /\ NotLinked
  <2>1. ASSUME NEW r \in Rooms PROVE room[r].kind # None => room'[r] = room[r]
    BY <1>1, <1>6
  <2>2. ASSUME NEW r \in Rooms, room[r].kind = None PROVE room'[r].child = None
    <3>1. RoomOK(r)
      BY DEF RoomInv
    <3>2. room[r].child = None
      BY <2>2, <3>1 DEF RoomOK, NoRoom
    <3>3. QED
      BY <3>2, <1>5, <1>6
  <2>3. QED
    BY <2>1, <2>2 DEF Kept, NotLinked
<1>8. ASSUME NEW r \in Rooms PROVE RoomOK(r)'
  <2>1. CASE r = NewRoom
    BY <2>1, <1>5, <1>6, Nones DEF RoomOK
  <2>2. CASE r # NewRoom
    <3>1. RoomOK(r) /\ room'[r] = room[r] /\ room[r].parent \in Rooms \cup {None}
      BY <2>2, <1>6, RoomType DEF RoomInv
    <3>2. room[r].parent # None => room[r].parent # NewRoom
      BY <3>1, <1>1, Nones DEF RoomOK, Kinds
    <3>3. room[r].parent # None => room'[room[r].parent] = room[room[r].parent]
      BY <3>1, <3>2, <1>6
    <3>4. QED
      BY <3>1, <3>3 DEF RoomOK
  <2>3. QED
    BY <2>1, <2>2
<1>9. QED
  BY <1>1, <1>5, <1>6, <1>7, <1>8 DEF RoomInv

\* A room that is there changes, but not in what it is.
LEMMA RoomChanges ==
  ASSUME SetupAssumption, TypeOK, RoomInv,
         NEW STATE x, x \in Rooms, NEW STATE y, y \in RoomRecords,
         room' = [room EXCEPT ![x] = y], room[x].kind # None,
         y.kind = room[x].kind, y.bot = room[x].bot, room[x].invited \subseteq y.invited,
         \/ y.parent = room[x].parent
         \/ y.parent # None /\ room[y.parent].kind = "space" /\ room[y.parent].bot = y.bot
  PROVE  /\ room' \in [Rooms -> RoomRecords] /\ RoomInv' /\ Kept
         /\ room'[x] = y /\ \A r \in Rooms \ {x} : room'[r] = room[r]
<1>1. /\ room' \in [Rooms -> RoomRecords] /\ room'[x] = y
      /\ \A r \in Rooms \ {x} : room'[r] = room[r]
  BY DEF TypeOK
<1>2. \A r \in Rooms : room'[r].kind = room[r].kind /\ room'[r].bot = room[r].bot
  BY <1>1
<1>3. Kept
  BY <1>1, <1>2 DEF Kept
<1>4. ASSUME NEW r \in Rooms PROVE RoomOK(r)'
  <2>1. RoomOK(r) /\ room[r].parent \in Rooms \cup {None}
    BY RoomType DEF RoomInv
  <2>2. CASE r # x
    <3>1. room'[r] = room[r]
      BY <2>2, <1>1
    <3>2. QED
      BY <2>1, <3>1, <1>2 DEF RoomOK
  <2>3. CASE r = x
    <3>1. room'[r] = y /\ y.parent \in Rooms \cup {None}
      BY <2>3, <1>1 DEF RoomRecords
    <3>2. QED
      BY <2>1, <2>3, <3>1, <1>2 DEF RoomOK
  <2>4. QED
    BY <2>2, <2>3
<1>5. QED
  BY <1>1, <1>3, <1>4 DEF RoomInv

-----------------------------------------------------------------------------
(* What follows for the rest. *)

\* What a task knows stays true when other tasks go on.
LEMMA FieldKept ==
  ASSUME SetupAssumption, TypeOK, Kept, NEW t \in Tasks, FieldOK(task[t]), task'[t] = task[t]
  PROVE  FieldOK(task[t])'
<1> DEFINE k == task[t]
<1>1. k.space \in Rooms \cup {None} /\ k.control \in Rooms \cup {None}
  BY TaskType
<1>2. "space" # None /\ "control" # None
  BY Nones DEF Kinds
<1>3. IsSpace(k.space, k.bot)'
  BY <1>1, <1>2 DEF FieldOK, IsSpace, Kept
<1>4. IsControl(k.control, k.bot)'
  BY <1>1, <1>2 DEF FieldOK, IsControl, Kept
<1>5. QED
  BY <1>3, <1>4 DEF FieldOK

LEMMA FieldStep ==
  ASSUME SetupAssumption, TypeOK, Kept, FieldInv, NEW t \in Tasks,
         \A s \in Tasks \ {t} : task'[s] = task[s], FieldOK(task[t])'
  PROVE  FieldInv'
<1>1. ASSUME NEW s \in Tasks PROVE FieldOK(task[s])'
  <2>1. CASE s # t
    BY <2>1, FieldKept DEF FieldInv
  <2>2. CASE s = t
    BY <2>2
  <2>3. QED
    BY <2>1, <2>2
<1>2. QED
  BY <1>1 DEF FieldInv

\* A step leaves alone the room that a task is to link, or has unlinked.
Spares(t) ==
    /\ task[t].at = "child" =>
          /\ room'[task[t].room].child = room[task[t].room].child
          /\ room[task[t].room].kind \in Session
                => room'[task[t].room].in = room[task[t].room].in
    /\ task[t].at = "leave" => room'[task[t].room].child = None

LEMMA OwnKept ==
  ASSUME SetupAssumption, TypeOK, Kept, NEW t \in Tasks, OwnOK(task[t]), task'[t] = task[t],
         Spares(t)
  PROVE  OwnOK(task[t])'
<1> DEFINE k == task[t]
<1>1. k.room \in Rooms \cup {None}
  BY TaskType
<1>2. None \notin Session \cup {"control"}
  BY Nones DEF Kinds, Session
<1>3. k.room # None /\ room[k.room].kind # None
        => room'[k.room].kind = room[k.room].kind /\ room'[k.room].bot = room[k.room].bot
  BY <1>1 DEF Kept
<1>4. QED
  BY <1>2, <1>3 DEF OwnOK, Session, Spares

LEMMA NotLinkedSpares ==
  ASSUME SetupAssumption, TypeOK, NotLinked, OwnInv, NEW t \in Tasks
  PROVE  Spares(t)
<1>1. task[t].room \in Rooms \cup {None} /\ OwnOK(task[t])
  BY TaskType DEF OwnInv
<1>2. None \notin Session \cup {"control"}
  BY Nones DEF Kinds, Session
<1>3. task[t].at \in {"child", "leave"} =>
         task[t].room # None /\ room[task[t].room].kind # None
  BY <1>1, <1>2 DEF OwnOK
<1>4. QED
  BY <1>1, <1>3 DEF NotLinked, OwnOK, Spares

\* The room of a task is not that of another which is about to link its own.
Apart(t, s) ==
    /\ task'[t].at = "child" /\ task[s].at \in {"child", "leave"} => task[s].room # task'[t].room
    /\ task'[t].at = "leave" /\ task[s].at = "child" => task[s].room # task'[t].room

LEMMA OwnStep ==
  ASSUME SetupAssumption, TypeOK, Kept, OwnInv, Distinct, NEW t \in Tasks,
         \A s \in Tasks \ {t} : task'[s] = task[s] /\ Spares(s) /\ Apart(t, s),
         OwnOK(task[t])'
  PROVE  OwnInv' /\ Distinct'
<1>1. ASSUME NEW s \in Tasks PROVE OwnOK(task[s])'
  <2>1. CASE s # t
    BY <2>1, OwnKept DEF OwnInv
  <2>2. CASE s = t
    BY <2>2
  <2>3. QED
    BY <2>1, <2>2
<1>2. Distinct'
  BY DEF Distinct, Apart
<1>3. QED
  BY <1>1, <1>2 DEF OwnInv

LEMMA FileKept ==
  ASSUME SetupAssumption, TypeOK, Kept, FileInv, UNCHANGED <<workspace, gateway>>
  PROVE  FileInv'
<1>1. "space" # None /\ "control" # None
  BY Nones DEF Kinds
<1>2. /\ workspace # None => workspace.space \in Rooms /\ workspace.control \in Rooms
      /\ gateway.space \in Rooms \cup {None}
  BY DEF TypeOK
<1>3. QED
  BY <1>1, <1>2 DEF FileInv, IsSpace, Kept

LEMMA MarkKept ==
  ASSUME SetupAssumption, TypeOK, Kept, MarkInv, UNCHANGED onboarded
  PROVE  MarkInv'
<1>1. "starter" # None
  BY Nones DEF Kinds
<1>2. \A u \in Bots : onboarded[u] \in Rooms \cup {None}
  BY DEF TypeOK
<1>3. QED
  BY <1>1, <1>2 DEF MarkInv, Kept

LEMMA ListedKept ==
  ASSUME SetupAssumption, Kept, NotLinked, ListedIsLive
  PROVE  ListedIsLive'
BY DEF Kept, NotLinked, ListedIsLive

LEMMA Aside ==
  ASSUME NEW t \in Tasks, task'[t].at \notin {"child", "leave"}
  PROVE  \A s \in Tasks : Apart(t, s)
BY DEF Apart

LEMMA IdleOK ==
  ASSUME SetupAssumption, NEW t \in Tasks, task'[t] = Idle
  PROVE  FieldOK(task[t])' /\ OwnOK(task[t])'
BY DEF FieldOK, OwnOK, Idle, Task, IsSpace, IsControl, NeedsSpace

\* A step of one task that links nothing and changes none of the files.
LEMMA TaskStep ==
  ASSUME SetupAssumption, IInv, TypeOK', RoomInv', Kept, NotLinked, NEW t \in Tasks,
         \A s \in Tasks \ {t} : task'[s] = task[s] /\ Apart(t, s),
         FieldOK(task[t])', OwnOK(task[t])', UNCHANGED <<workspace, gateway, onboarded>>
  PROVE  IInv'
<1>1. FieldInv'
  BY FieldStep DEF IInv
<1>2. OwnInv' /\ Distinct'
  BY OwnStep, NotLinkedSpares DEF IInv
<1>3. FileInv' /\ MarkInv' /\ ListedIsLive'
  BY FileKept, MarkKept, ListedKept DEF IInv
<1>4. QED
  BY <1>1, <1>2, <1>3 DEF IInv

\* A task ends.
LEMMA TaskEnds ==
  ASSUME SetupAssumption, IInv, TypeOK', RoomInv', Kept, NotLinked, NEW t \in Tasks,
         task' = [task EXCEPT ![t] = Idle], UNCHANGED <<workspace, gateway, onboarded>>
  PROVE  IInv'
<1>1. task'[t] = Idle /\ \A s \in Tasks \ {t} : task'[s] = task[s]
  BY DEF IInv, TypeOK
<1>2. FieldOK(task[t])' /\ OwnOK(task[t])'
  BY <1>1, IdleOK
<1>3. task'[t].at = "idle"
  BY <1>1 DEF Idle, Task
<1>4. QED
  BY <1>1, <1>2, <1>3, Aside, TaskStep

LEMMA IdleTyped ==
  ASSUME SetupAssumption, TypeOK, NEW t \in Tasks
  PROVE  Idle \in TaskRecords /\ [task EXCEPT ![t] = Idle] \in [Tasks -> TaskRecords]
<1>1. Idle \in TaskRecords
  BY DEF Idle, Task, TaskRecords, Stages
<1>2. QED
  BY <1>1 DEF TypeOK

-----------------------------------------------------------------------------
(* setup, migrate and reset. *)

LEMMA FaultTyped ==
  ASSUME SetupAssumption, TypeOK, NEW f, Fault(f)
  PROVE  spent' \in [failures : 0..MaxFailures, resets : 0..MaxResets, commands : 0..MaxCommands]
BY DEF SetupAssumption, TypeOK, Fault

LEMMA BeginSetupStep ==
  ASSUME SetupAssumption, IInv, BeginSetup
  PROVE  IInv'
<1> DEFINE t == "setup"
           k == Task(IF creds = None THEN "mint" ELSE "user", creds, None, None, None)
<1>1. t \in Tasks
  BY DEF Tasks
<1>2. task' = [task EXCEPT ![t] = k]
  BY DEF BeginSetup, resolveChat4000Account
<1>3. task'[t] = k /\ \A s \in Tasks \ {t} : task'[s] = task[s]
  BY <1>1, <1>2 DEF IInv, TypeOK
<1>4. k \in TaskRecords
  BY DEF IInv, TypeOK, TaskRecords, Stages, Task
<1>5. TypeOK'
  <2> HIDE DEF k
  <2>1. QED
    BY <1>2, <1>4 DEF BeginSetup, IInv, TypeOK, serverVars, fileVars
<1>6. RoomInv' /\ Kept /\ NotLinked /\ UNCHANGED <<workspace, gateway, onboarded>>
  BY RoomsSame DEF IInv, BeginSetup, serverVars, fileVars
<1>7. FieldOK(task[t])' /\ OwnOK(task[t])' /\ task'[t].at \in {"mint", "user"}
  BY <1>3 DEF FieldOK, OwnOK, IsSpace, IsControl, NeedsSpace, Task
<1>8. QED
  BY <1>1, <1>3, <1>5, <1>6, <1>7, Aside, TaskStep

LEMMA provisionBotStep ==
  ASSUME SetupAssumption, IInv, NEW t \in Tasks, provisionBot(t)
  PROVE  IInv'
<1> DEFINE k == Task(IF t = "setup" THEN "user" ELSE "config", bots + 1, None, None, None)
<1>1. RoomInv' /\ Kept /\ NotLinked /\ UNCHANGED <<workspace, gateway, onboarded>>
  BY RoomsSame DEF IInv, provisionBot
<1>2. bots + 1 \in Bots /\ bots' \in 0..MaxBots
  BY DEF provisionBot, IInv, TypeOK, Bots, SetupAssumption
<1>3. CASE creds' = bots + 1 /\ task' = [task EXCEPT ![t] = k] /\ UNCHANGED spent
  <2>1. k \in TaskRecords
    BY <1>2 DEF Task, TaskRecords, Stages
  <2>2. task'[t] = k /\ \A s \in Tasks \ {t} : task'[s] = task[s]
    BY <1>3 DEF IInv, TypeOK
  <2>3. TypeOK'
    BY <1>2, <1>3, <2>1 DEF provisionBot, IInv, TypeOK
  <2>4. bots + 1 # None
    BY <1>2, Nones
  <2>5. FieldOK(task[t])' /\ OwnOK(task[t])' /\ task'[t].at \in {"user", "config"}
    BY <2>2, <2>4 DEF FieldOK, OwnOK, IsSpace, IsControl, NeedsSpace, Task
  <2>6. QED
    BY <1>1, <2>2, <2>3, <2>5, Aside, TaskStep
<1>4. CASE Fault("request") /\ task' = [task EXCEPT ![t] = Idle] /\ UNCHANGED creds
  <2>1. TypeOK'
    BY <1>2, <1>4, FaultTyped, IdleTyped DEF provisionBot, IInv, TypeOK
  <2>2. QED
    BY <1>1, <1>4, <2>1, TaskEnds
<1>5. QED
  BY <1>3, <1>4 DEF provisionBot

LEMMA ensureUserStep ==
  ASSUME SetupAssumption, IInv, ensureUser
  PROVE  IInv'
<1> DEFINE t == "setup"
           k == [task[t] EXCEPT !.at = "joined"]
<1>1. t \in Tasks
  BY DEF Tasks
<1>2. RoomInv' /\ Kept /\ NotLinked /\ UNCHANGED <<workspace, gateway, onboarded>>
  BY RoomsSame DEF IInv, ensureUser, fileVars
<1>3. FieldOK(task[t]) /\ task[t].bot \in Bots
  BY <1>1, TaskType DEF ensureUser, IInv, FieldInv, FieldOK
<1>4. users' \subseteq Bots
  BY <1>3 DEF ensureUser, IInv, TypeOK
<1>5. CASE task' = [task EXCEPT ![t] = k] /\ UNCHANGED spent
  <2>1. k = [at |-> "joined", bot |-> task[t].bot, space |-> task[t].space,
             control |-> task[t].control, room |-> task[t].room]
    BY <1>1, TaskType DEF IInv, TaskRecords
  <2>2. k \in TaskRecords
    BY <1>1, <2>1, TaskType DEF IInv, TaskRecords, Stages
  <2>3. task'[t] = k /\ \A s \in Tasks \ {t} : task'[s] = task[s]
    BY <1>1, <1>5 DEF IInv, TypeOK
  <2>4. TypeOK'
    BY <1>4, <1>5, <2>2 DEF ensureUser, IInv, TypeOK, fileVars
  <2>5. FieldOK(task[t])' /\ OwnOK(task[t])' /\ task'[t].at = "joined"
    BY <1>2, <1>3, <2>1, <2>3 DEF FieldOK, OwnOK, IsSpace, IsControl, NeedsSpace, ensureUser
  <2>6. QED
    BY <1>1, <1>2, <2>3, <2>4, <2>5, Aside, TaskStep
<1>6. CASE Fault("request") /\ task' = [task EXCEPT ![t] = Idle]
  <2>1. TypeOK'
    BY <1>1, <1>4, <1>6, FaultTyped, IdleTyped DEF ensureUser, IInv, TypeOK, fileVars
  <2>2. QED
    BY <1>1, <1>2, <1>6, <2>1, TaskEnds
<1>7. QED
  BY <1>5, <1>6 DEF ensureUser, Answered

LEMMA RefusedStep ==
  ASSUME SetupAssumption, IInv, NEW t \in Tasks, NEW STATE r, Refused(t, r)
  PROVE  IInv'
<1>1. RoomInv' /\ Kept /\ NotLinked /\ UNCHANGED <<workspace, gateway, onboarded>>
  BY RoomsSame DEF IInv, Refused, serverVars, fileVars
<1>2. task' = [task EXCEPT ![t] = Idle]
  BY DEF Refused
<1>3. TypeOK'
  BY <1>2, IdleTyped DEF Refused, IInv, TypeOK, serverVars, fileVars
<1>4. QED
  BY <1>1, <1>2, <1>3, TaskEnds

LEMMA FailsStep ==
  ASSUME SetupAssumption, IInv, NEW t \in Tasks, Fails(t)
  PROVE  IInv'
<1>1. RoomInv' /\ Kept /\ NotLinked /\ UNCHANGED <<workspace, gateway, onboarded>>
  BY RoomsSame DEF IInv, Fails, serverVars, fileVars
<1>2. task' = [task EXCEPT ![t] = Idle] /\ Fault("request")
  BY DEF Fails
<1>3. TypeOK'
  BY <1>2, IdleTyped, FaultTyped DEF Fails, IInv, TypeOK, serverVars, fileVars
<1>4. QED
  BY <1>1, <1>2, <1>3, TaskEnds

LEMMA writeChannelConfigStep ==
  ASSUME SetupAssumption, IInv, NEW t \in Tasks, writeChannelConfig(t)
  PROVE  IInv'
<1>1. RoomInv' /\ Kept /\ NotLinked /\ UNCHANGED <<workspace, gateway, onboarded>>
  BY RoomsSame DEF IInv, writeChannelConfig, serverVars
<1>2. task' = [task EXCEPT ![t] = Idle]
  BY DEF writeChannelConfig
<1>3. TypeOK'
  BY <1>2, IdleTyped, TaskType DEF writeChannelConfig, IInv, TypeOK, serverVars
<1>4. QED
  BY <1>1, <1>2, <1>3, TaskEnds

LEMMA runMigrationStep ==
  ASSUME SetupAssumption, IInv, runMigration
  PROVE  IInv'
<1> DEFINE t == "migrate"
           k == Task(IF creds = None THEN "mint" ELSE "config", creds, None, None, None)
<1>1. t \in Tasks
  BY DEF Tasks
<1>2. RoomInv' /\ Kept /\ NotLinked /\ UNCHANGED <<workspace, gateway, onboarded>>
  BY RoomsSame DEF IInv, runMigration, serverVars
<1>3. CASE task' = [task EXCEPT ![t] = k] /\ v1' = [v1 EXCEPT !.saved = TRUE]
  <2>1. task'[t] = k /\ \A s \in Tasks \ {t} : task'[s] = task[s]
    BY <1>1, <1>3 DEF IInv, TypeOK
  <2>2. k \in TaskRecords
    BY DEF IInv, TypeOK, TaskRecords, Stages, Task
  <2>3. v1' \in [present : BOOLEAN, saved : BOOLEAN]
    BY <1>3 DEF IInv, TypeOK
  <2>4. TypeOK'
    <3> HIDE DEF k
    <3>1. QED
      BY <1>3, <2>2, <2>3 DEF runMigration, IInv, TypeOK, serverVars
  <2>5. FieldOK(task[t])' /\ OwnOK(task[t])' /\ task'[t].at \in {"mint", "config"}
    BY <2>1 DEF FieldOK, OwnOK, IsSpace, IsControl, NeedsSpace, Task
  <2>6. QED
    BY <1>1, <1>2, <2>1, <2>4, <2>5, Aside, TaskStep
<1>4. CASE UNCHANGED <<v1, task>>
  <2>1. TypeOK' /\ task'[t] = task[t] /\ \A s \in Tasks \ {t} : task'[s] = task[s]
    BY <1>4 DEF runMigration, IInv, TypeOK, serverVars
  <2>2. FieldOK(task[t])' /\ OwnOK(task[t])'
    BY <1>1, <1>4, <1>2 DEF runMigration, serverVars, IInv, FieldInv, OwnInv, FieldOK, OwnOK,
                            IsSpace, IsControl
  <2>3. QED
    BY <1>1, <1>2, <1>4, <2>1, <2>2, TaskStep DEF IInv, Distinct, Apart
<1>5. QED
  BY <1>3, <1>4 DEF runMigration, resolveChat4000Account

LEMMA runResetStep ==
  ASSUME SetupAssumption, IInv, runReset
  PROVE  IInv'
<1>1. TypeOK'
  BY DEF runReset, IInv, TypeOK, serverVars, SetupAssumption
<1>2. UNCHANGED <<room, task, gateway>>
  BY DEF runReset, serverVars
<1>3. RoomInv' /\ FieldInv' /\ OwnInv' /\ Distinct' /\ ListedIsLive'
  BY <1>2 DEF IInv, RoomInv, RoomOK, FieldInv, FieldOK, OwnInv, OwnOK, Distinct, ListedIsLive,
              IsSpace, IsControl
<1>4. FileInv' /\ MarkInv'
  BY <1>2 DEF runReset, IInv, FileInv, MarkInv, IsSpace
<1>5. QED
  BY <1>1, <1>3, <1>4 DEF IInv

LEMMA GatewayStartsStep ==
  ASSUME SetupAssumption, IInv, GatewayStarts
  PROVE  IInv'
<1>1. gateway' = [bot |-> creds, space |-> None, control |-> None]
  BY DEF GatewayStarts, Off, resolveChat4000Account
<1>2. UNCHANGED <<bots, users, room, creds, config, workspace, onboarded, v1, task, spent>>
  BY DEF GatewayStarts, serverVars, fileVars
<1>3. TypeOK'
  BY <1>1, <1>2 DEF IInv, TypeOK
<1>4. RoomInv' /\ FieldInv' /\ OwnInv' /\ Distinct' /\ ListedIsLive' /\ MarkInv'
  BY <1>2 DEF IInv, RoomInv, RoomOK, FieldInv, FieldOK, OwnInv, OwnOK, Distinct, ListedIsLive,
              MarkInv, IsSpace, IsControl
<1>5. FileInv'
  BY <1>1, <1>2 DEF IInv, FileInv, IsSpace
<1>6. QED
  BY <1>3, <1>4, <1>5 DEF IInv

LEMMA JoinedRoomsStep ==
  ASSUME SetupAssumption, IInv, JoinedRooms
  PROVE  IInv'
<1> DEFINE t == "setup"
           sp == IF workspace # None /\ Here(t, workspace.space) THEN workspace.space ELSE None
           co == IF workspace # None /\ Here(t, workspace.control) THEN workspace.control
                 ELSE None
           k(stage) == Task(stage, task[t].bot, sp, co, None)
<1>1. t \in Tasks
  BY DEF Tasks
<1>2. RoomInv' /\ Kept /\ NotLinked /\ UNCHANGED <<room, gateway, onboarded>>
  BY RoomsSame DEF IInv, JoinedRooms, serverVars
<1>3. PICK next \in {"space", "control", "invite_space"} :
        /\ task' = [task EXCEPT ![t] = k(next)]
        /\ next \in {"control", "invite_space"} => sp # None
        /\ \/ UNCHANGED workspace
           \/ /\ workspace' = [space |-> sp, control |-> co]
              /\ sp # None /\ co # None
  BY DEF JoinedRooms, saveRooms
<1>4. /\ sp \in Rooms \cup {None} /\ co \in Rooms \cup {None}
      /\ IsSpace(sp, task[t].bot) /\ IsControl(co, task[t].bot)
  BY DEF IInv, TypeOK, FileInv, IsSpace, IsControl, Here
<1>5. task[t].bot \in Bots /\ task[t].bot # None
  BY <1>1, TaskType DEF JoinedRooms, IInv, FieldInv, FieldOK
<1> HIDE DEF sp, co
<1>6. k(next) \in TaskRecords
  BY <1>3, <1>4, <1>5 DEF Task, TaskRecords, Stages
<1>7. task'[t] = k(next) /\ \A s \in Tasks \ {t} : task'[s] = task[s]
  BY <1>1, <1>3 DEF IInv, TypeOK
<1>8. TypeOK'
  <2>1. workspace' \in [space : Rooms, control : Rooms] \cup {None}
    <3>1. CASE UNCHANGED workspace
      BY <3>1 DEF IInv, TypeOK
    <3>2. CASE /\ workspace' = [space |-> sp, control |-> co]
               /\ sp # None /\ co # None
      BY <3>2, <1>4
    <3>3. QED
      BY <1>3, <3>1, <3>2
  <2>2. task' \in [Tasks -> TaskRecords]
    <3> HIDE DEF k
    <3>1. QED
      BY <1>3, <1>6 DEF IInv, TypeOK
  <2>3. QED
    BY <2>1, <2>2 DEF JoinedRooms, IInv, TypeOK, serverVars
<1>9. FieldOK(task[t])' /\ OwnOK(task[t])' /\ task'[t].at \notin {"child", "leave"}
  <2>1. /\ task'[t].at = next /\ task'[t].bot = task[t].bot
        /\ task'[t].space = sp /\ task'[t].control = co
    BY <1>7 DEF Task
  <2>2. IsSpace(task[t].space, task[t].bot)' /\ IsControl(task[t].control, task[t].bot)'
    BY <1>2, <1>4, <2>1 DEF IsSpace, IsControl
  <2>3. QED
    BY <1>3, <1>5, <2>1, <2>2 DEF FieldOK, OwnOK, NeedsSpace
<1>10. FileInv'
  <2>1. CASE UNCHANGED workspace
    BY <2>1, <1>2, FileKept DEF IInv
  <2>2. CASE /\ workspace' = [space |-> sp, control |-> co]
             /\ sp # None /\ co # None
    BY <1>2, <1>4, <2>2 DEF IInv, FileInv, IsSpace, IsControl
  <2>3. QED
    BY <1>3, <2>1, <2>2
<1>11. FieldInv' /\ OwnInv' /\ Distinct'
  BY <1>1, <1>2, <1>7, <1>9, Aside, FieldStep, OwnStep, NotLinkedSpares DEF IInv
<1>12. MarkInv' /\ ListedIsLive'
  BY <1>2, MarkKept, ListedKept DEF IInv
<1>13. QED
  BY <1>2, <1>8, <1>10, <1>11, <1>12 DEF IInv

-----------------------------------------------------------------------------
(* Rooms are created. *)

LEMMA NewRoomIsNobodys ==
  ASSUME SetupAssumption, IInv, CanCreate, NEW s \in Tasks, task[s].at \in {"child", "leave"}
  PROVE  task[s].room # NewRoom
<1>1. None \notin Session \cup {"control"}
  BY Nones DEF Kinds, Session
<1>2. QED
  BY <1>1, NewRoomIs DEF IInv, OwnInv, OwnOK

\* A room of the bot's is created and is to be linked.
LEMMA LinkingStep ==
  ASSUME SetupAssumption, IInv, NEW t \in Tasks, NEW kind \in Session \cup {"control"},
         NEW STATE invited, invited \subseteq Bots, kind = "starter" => task[t].bot \in invited,
         CanCreate, Created(t, kind, invited), task[t].at \in {"control", "session"},
         Answered(t, Linking(t)), UNCHANGED <<bots, users, fileVars, gateway>>
  PROVE  IInv'
<1>1. /\ room' \in [Rooms -> RoomRecords] /\ RoomInv' /\ Kept /\ NotLinked
      /\ NewRoom \in Rooms /\ room[NewRoom].kind = None
      /\ room'[NewRoom].kind = kind /\ room'[NewRoom].bot = task[t].bot
      /\ room'[NewRoom].in = TRUE /\ room'[NewRoom].child = None
  BY RoomCreated DEF IInv, Session, Kinds
<1>2. UNCHANGED <<bots, users, creds, config, workspace, onboarded, v1, gateway>>
  BY DEF fileVars
<1>3. CASE task' = [task EXCEPT ![t] = Linking(t)] /\ UNCHANGED spent
  <2>1. task'[t] = Linking(t) /\ \A s \in Tasks \ {t} : task'[s] = task[s]
    BY <1>3 DEF IInv, TypeOK
  <2>2. /\ task'[t].at = "child" /\ task'[t].bot = task[t].bot /\ task'[t].room = NewRoom
        /\ task'[t].space = task[t].space /\ task'[t].control = task[t].control
    BY <2>1 DEF Linking, Task
  <2>3. Linking(t) \in TaskRecords
    BY <1>1, TaskType DEF IInv, Linking, Task, TaskRecords, Stages
  <2>4. TypeOK'
    BY <1>1, <1>2, <1>3, <2>3 DEF IInv, TypeOK
  <2>5. FieldOK(task[t]) /\ task[t].space \in Rooms \cup {None}
        /\ task[t].control \in Rooms \cup {None} /\ "space" # None /\ "control" # None
    BY TaskType, Nones DEF IInv, FieldInv, Kinds
  <2>6. task[t].space # None /\ task[t].bot # None
    BY <2>5 DEF FieldOK, NeedsSpace
  <2>7. IsSpace(task[t].space, task[t].bot)' /\ IsControl(task[t].control, task[t].bot)'
    BY <1>1, <2>2, <2>5 DEF FieldOK, IsSpace, IsControl, Kept
  <2>8. FieldOK(task[t])'
    BY <2>2, <2>6, <2>7 DEF FieldOK
  <2>9. OwnOK(task[t])'
    BY <1>1, <2>2, Nones DEF OwnOK
  <2>10. \A s \in Tasks \ {t} : Apart(t, s)
    BY <2>2, NewRoomIsNobodys DEF Apart
  <2>11. QED
    BY <1>1, <1>2, <2>1, <2>4, <2>8, <2>9, <2>10, TaskStep
<1>4. CASE Fault("request") /\ task' = [task EXCEPT ![t] = Idle]
  <2>1. TypeOK'
    BY <1>1, <1>2, <1>4, FaultTyped, IdleTyped DEF IInv, TypeOK
  <2>2. QED
    BY <1>1, <1>2, <1>4, <2>1, TaskEnds
<1>5. QED
  BY <1>3, <1>4 DEF Answered

LEMMA CreateControlStep ==
  ASSUME SetupAssumption, IInv, CreateControl
  PROVE  IInv'
<1>1. "setup" \in Tasks
  BY DEF Tasks
<1>2. QED
  BY <1>1, LinkingStep DEF CreateControl

LEMMA CreateSessionStep ==
  ASSUME SetupAssumption, IInv, NEW t \in Tasks, CreateSession(t)
  PROVE  IInv'
<1>1. task[t].bot \in Bots
  BY TaskType DEF CreateSession, IInv, FieldInv, FieldOK
<1>2. (IF t = "command" THEN "session" ELSE "starter") \in Session \cup {"control"}
  BY DEF Session
<1>3. {User(t)} \subseteq Bots /\ task[t].bot \in {User(t)}
  BY <1>1 DEF User
<1>4. QED
  BY <1>2, <1>3, LinkingStep DEF CreateSession

LEMMA CreateSpaceStep ==
  ASSUME SetupAssumption, IInv, CreateSpace
  PROVE  IInv'
<1> DEFINE t == "setup"
           control == task[t].control
           k(stage) == Task(stage, task[t].bot, NewRoom, control, None)
<1>1. t \in Tasks /\ "space" \in Kinds
  BY DEF Tasks, Kinds
<1>2. /\ room' \in [Rooms -> RoomRecords] /\ RoomInv' /\ Kept /\ NotLinked
      /\ NewRoom \in Rooms /\ room[NewRoom].kind = None
      /\ room'[NewRoom].kind = "space" /\ room'[NewRoom].bot = task[t].bot
  <2>1. PICK none : none = {}
    OBVIOUS
  <2>2. Created(t, "space", none) /\ CanCreate /\ TypeOK /\ RoomInv
    BY <2>1 DEF CreateSpace, IInv
  <2>3. none \subseteq Bots /\ "space" # "starter"
    BY <2>1
  <2>4. QED
    BY <1>1, <2>2, <2>3, RoomCreated
<1>3. UNCHANGED <<bots, users, creds, config, onboarded, v1, gateway>>
  BY DEF CreateSpace
<1>4. /\ FieldOK(task[t]) /\ task[t].bot \in Bots /\ task[t].bot # None
      /\ control \in Rooms \cup {None} /\ "control" # None
  BY <1>1, TaskType, Nones DEF CreateSpace, IInv, FieldInv, FieldOK, Kinds
<1>5. IsControl(control, task[t].bot)
  BY <1>4 DEF FieldOK
<1>6. ASSUME NEW stage \in {"control", "invite_space"}, task' = [task EXCEPT ![t] = k(stage)],
             UNCHANGED spent,
             \/ UNCHANGED workspace
             \/ control # None /\ workspace' = [space |-> NewRoom, control |-> control]
      PROVE  IInv'
  <2>1. task'[t] = k(stage) /\ \A s \in Tasks \ {t} : task'[s] = task[s]
    BY <1>1, <1>6 DEF IInv, TypeOK
  <2>2. /\ task'[t].at = stage /\ task'[t].bot = task[t].bot
        /\ task'[t].space = NewRoom /\ task'[t].control = control
    BY <2>1 DEF Task
  <2>3. k(stage) \in TaskRecords
    BY <1>2, <1>4 DEF Task, TaskRecords, Stages
  <2>4. workspace' \in [space : Rooms, control : Rooms] \cup {None}
    BY <1>2, <1>4, <1>6 DEF IInv, TypeOK
  <2>5. TypeOK'
    <3>1. task' \in [Tasks -> TaskRecords]
      BY <1>6, <2>3 DEF IInv, TypeOK
    <3>2. QED
      BY <1>2, <1>3, <1>6, <2>4, <3>1 DEF IInv, TypeOK
  <2>6. IsSpace(task[t].space, task[t].bot)' /\ IsControl(task[t].control, task[t].bot)'
    BY <1>2, <1>4, <1>5, <2>2 DEF IsSpace, IsControl, Kept
  <2>7. FieldOK(task[t])' /\ OwnOK(task[t])' /\ task'[t].at \notin {"child", "leave"}
    BY <1>2, <1>4, <2>2, <2>6, Nones DEF FieldOK, OwnOK, NeedsSpace
  <2>8. FieldInv' /\ OwnInv' /\ Distinct'
    BY <1>1, <1>2, <2>1, <2>7, Aside, FieldStep, OwnStep, NotLinkedSpares DEF IInv
  <2>9. FileInv'
    <3>1. CASE UNCHANGED workspace
      BY <1>2, <1>3, <3>1, FileKept DEF IInv
    <3>2. CASE control # None /\ workspace' = [space |-> NewRoom, control |-> control]
      <4>1. /\ room'[workspace'.space].kind = "space"
            /\ room'[workspace'.control].kind = "control"
            /\ room'[workspace'.control].bot = room'[workspace'.space].bot
        BY <1>2, <1>4, <1>5, <3>2 DEF IsControl, Kept
      <4>2. IsSpace(gateway.space, gateway.bot)'
        <5>1. gateway.space \in Rooms \cup {None} /\ "space" # None
          BY Nones DEF IInv, TypeOK, Kinds
        <5>2. QED
          BY <1>2, <1>3, <5>1 DEF IInv, FileInv, IsSpace, Kept
      <4>3. QED
        BY <1>3, <4>1, <4>2 DEF IInv, FileInv
    <3>3. QED
      BY <1>6, <3>1, <3>2
  <2>10. MarkInv' /\ ListedIsLive'
    BY <1>2, <1>3, MarkKept, ListedKept DEF IInv
  <2>11. QED
    BY <1>2, <2>5, <2>8, <2>9, <2>10 DEF IInv
<1>7. ASSUME Fault("request"), task' = [task EXCEPT ![t] = Idle], UNCHANGED workspace
      PROVE  IInv'
  <2>1. TypeOK'
    BY <1>1, <1>2, <1>3, <1>7, FaultTyped, IdleTyped DEF IInv, TypeOK
  <2>2. QED
    BY <1>1, <1>2, <1>3, <1>7, <2>1, TaskEnds
<1>8. QED
  BY <1>6, <1>7 DEF CreateSpace, Answered, saveRooms

-----------------------------------------------------------------------------
(* Invitations, and the starter chat that may follow. *)

LEMMA Invited ==
  ASSUME SetupAssumption, IInv, NEW t \in Tasks, NEW STATE x, x \in Rooms, room[x].kind # None,
         task[t].bot \in Bots, room' = [room EXCEPT ![x].invited = @ \cup {User(t)}]
  PROVE  room' \in [Rooms -> RoomRecords] /\ RoomInv' /\ Kept /\ NotLinked
<1> DEFINE y == [room[x] EXCEPT !.invited = @ \cup {User(t)}]
<1>1. room' = [room EXCEPT ![x] = y]
  OBVIOUS
<1>2. /\ room[x] \in RoomRecords /\ room[x].invited \subseteq Bots
      /\ room[x].parent \in Rooms \cup {None}
  BY RoomType DEF IInv
<1>3. /\ y \in RoomRecords /\ y.kind = room[x].kind /\ y.bot = room[x].bot
      /\ y.in = room[x].in /\ y.child = room[x].child /\ y.parent = room[x].parent
      /\ room[x].invited \subseteq y.invited
  BY <1>2 DEF RoomRecords, User
<1> HIDE DEF y
<1>4. /\ room' \in [Rooms -> RoomRecords] /\ RoomInv' /\ Kept
      /\ room'[x] = y /\ \A r \in Rooms \ {x} : room'[r] = room[r]
  BY <1>1, <1>3, RoomChanges DEF IInv
<1>5. NotLinked
  BY <1>3, <1>4 DEF NotLinked, IInv, RoomInv, RoomOK, NoRoom
<1>6. QED
  BY <1>4, <1>5

\* A starter chat is begun for a bot with a space, or there is one already.
LEMMA InitialSession ==
  ASSUME SetupAssumption, IInv, NEW t \in Tasks, NEW STATE tk, tk \in TaskRecords,
         ensureInitialSession(t, tk), Kept, tk.space # None, tk.bot # None,
         IsSpace(tk.space, tk.bot), IsControl(tk.control, tk.bot)
  PROVE  /\ task' \in [Tasks -> TaskRecords] /\ \A s \in Tasks \ {t} : task'[s] = task[s]
         /\ FieldOK(task[t])' /\ OwnOK(task[t])' /\ task'[t].at \notin {"child", "leave"}
<1>1. /\ tk.at \in Stages /\ tk.bot \in Bots \cup {None} /\ tk.space \in Rooms \cup {None}
      /\ tk.control \in Rooms \cup {None} /\ tk.room \in Rooms \cup {None}
  BY DEF TaskRecords
<1>2. tk = [at |-> tk.at, bot |-> tk.bot, space |-> tk.space, control |-> tk.control,
            room |-> tk.room]
  BY TaskIs
<1>3. PICK stage \in {"session", "config"} :
         \/ task' = [task EXCEPT ![t] = Idle]
         \/ task' = [task EXCEPT ![t] = [tk EXCEPT !.at = stage]]
  BY DEF ensureInitialSession, Afterwards
<1>4. CASE task' = [task EXCEPT ![t] = Idle]
  <2>1. task'[t] = Idle /\ \A s \in Tasks \ {t} : task'[s] = task[s]
    BY <1>4 DEF IInv, TypeOK
  <2>2. task'[t].at = "idle"
    BY <2>1 DEF Idle, Task
  <2>3. task' \in [Tasks -> TaskRecords]
    BY <1>4, IdleTyped DEF IInv
  <2>4. QED
    BY <2>1, <2>2, <2>3, IdleOK
<1>5. CASE task' = [task EXCEPT ![t] = [tk EXCEPT !.at = stage]]
  <2> DEFINE k == [at |-> stage, bot |-> tk.bot, space |-> tk.space, control |-> tk.control,
                   room |-> tk.room]
  <2>1. [tk EXCEPT !.at = stage] = k
    BY <1>2
  <2>2. task' = [task EXCEPT ![t] = k]
    BY <1>5, <2>1
  <2>3. k \in TaskRecords
    BY <1>1, <1>3 DEF TaskRecords, Stages
  <2>4. task'[t] = k /\ \A s \in Tasks \ {t} : task'[s] = task[s]
    BY <2>2 DEF IInv, TypeOK
  <2>5. task' \in [Tasks -> TaskRecords]
    <3> HIDE DEF k
    <3>1. QED
      BY <2>2, <2>3 DEF IInv, TypeOK
  <2>6. "space" # None /\ "control" # None
    BY Nones DEF Kinds
  <2>7. IsSpace(task[t].space, task[t].bot)' /\ IsControl(task[t].control, task[t].bot)'
    BY <1>1, <2>4, <2>6 DEF IsSpace, IsControl, Kept
  <2>8. FieldOK(task[t])' /\ OwnOK(task[t])' /\ task'[t].at \notin {"child", "leave"}
    BY <1>3, <2>4, <2>7 DEF FieldOK, OwnOK
  <2>9. QED
    BY <2>4, <2>5, <2>8
<1>6. QED
  BY <1>3, <1>4, <1>5

\* A task that invites knows the room.
LEMMA InvitesSpace ==
  ASSUME SetupAssumption, IInv, NEW t \in Tasks, task[t].at \in {"invite_space", "invite_control"}
  PROVE  /\ task[t].bot \in Bots /\ task[t].bot # None /\ task[t].space # None
         /\ IsSpace(task[t].space, task[t].bot) /\ IsControl(task[t].control, task[t].bot)
         /\ task[t].space \in Rooms /\ task[t].control \in Rooms \cup {None}
         /\ room[task[t].space].kind # None
         /\ task[t].control # None => room[task[t].control].kind # None
<1>1. FieldOK(task[t]) /\ "space" # None /\ "control" # None
  BY Nones DEF IInv, FieldInv, Kinds
<1>2. task[t].bot # None /\ task[t].space # None
  BY <1>1 DEF FieldOK, NeedsSpace
<1>3. QED
  BY <1>1, <1>2, TaskType DEF IInv, FieldOK, IsSpace, IsControl

LEMMA InviteToSpaceStep ==
  ASSUME SetupAssumption, IInv, InviteToSpace
  PROVE  IInv'
<1> DEFINE t == "setup"
           x == task[t].space
<1>1. t \in Tasks /\ task[t].at = "invite_space"
  BY DEF Tasks, InviteToSpace
<1>2. CASE Refused(t, x)
  BY <1>1, <1>2, RefusedStep
<1>3. ASSUME room' = [room EXCEPT ![x].invited = @ \cup {User(t)}],
             UNCHANGED <<bots, users, fileVars, gateway>>,
             \/ task' = Goes(t, "invite_control") /\ UNCHANGED spent
             \/ Fault("request") /\ task' = [task EXCEPT ![t] = Idle]
      PROVE  IInv'
  <2>1. room' \in [Rooms -> RoomRecords] /\ RoomInv' /\ Kept /\ NotLinked
    BY <1>1, <1>3, Invited, InvitesSpace
  <2>2. UNCHANGED <<bots, users, creds, config, workspace, onboarded, v1, gateway>>
    BY <1>3 DEF fileVars
  <2>3. CASE task' = Goes(t, "invite_control") /\ UNCHANGED spent
    <3> DEFINE k == [task[t] EXCEPT !.at = "invite_control"]
    <3>1. /\ k \in TaskRecords /\ k.at = "invite_control" /\ k.bot = task[t].bot
          /\ k.space = task[t].space /\ k.control = task[t].control /\ k.room = task[t].room
      BY <1>1, TaskType DEF IInv, TaskRecords, Stages
    <3>2. task' = [task EXCEPT ![t] = k]
      BY <2>3 DEF Goes
    <3> HIDE DEF k
    <3>3. task'[t] = k /\ \A s \in Tasks \ {t} : task'[s] = task[s]
      BY <1>1, <3>2 DEF IInv, TypeOK
    <3>4. TypeOK'
      BY <2>1, <2>2, <2>3, <3>1, <3>2 DEF IInv, TypeOK
    <3>5. IsSpace(task[t].space, task[t].bot)' /\ IsControl(task[t].control, task[t].bot)'
      BY <1>1, <2>1, <3>1, <3>3, InvitesSpace DEF IsSpace, IsControl, Kept
    <3>6. FieldOK(task[t])' /\ OwnOK(task[t])' /\ task'[t].at \notin {"child", "leave"}
      BY <1>1, <3>1, <3>3, <3>5, InvitesSpace DEF FieldOK, OwnOK
    <3>7. QED
      BY <1>1, <2>1, <2>2, <3>3, <3>4, <3>6, Aside, TaskStep
  <2>4. CASE Fault("request") /\ task' = [task EXCEPT ![t] = Idle]
    <3>1. TypeOK'
      BY <1>1, <2>1, <2>2, <2>4, FaultTyped, IdleTyped DEF IInv, TypeOK
    <3>2. QED
      BY <1>1, <2>1, <2>2, <2>4, <3>1, TaskEnds
  <2>5. QED
    BY <1>3, <2>3, <2>4
<1>4. QED
  BY <1>2, <1>3 DEF InviteToSpace, Invite

LEMMA InviteToControlStep ==
  ASSUME SetupAssumption, IInv, InviteToControl
  PROVE  IInv'
<1> DEFINE t == "setup"
           x == task[t].control
<1>1. t \in Tasks /\ task[t].at = "invite_control"
  BY DEF Tasks, InviteToControl
<1>2. CASE Refused(t, x)
  BY <1>1, <1>2, RefusedStep
<1>3. ASSUME room' = [room EXCEPT ![x].invited = @ \cup {User(t)}], x # None,
             UNCHANGED <<bots, users, fileVars, gateway>>,
             \/ ensureInitialSession(t, task[t]) /\ UNCHANGED spent
             \/ Fault("request") /\ task' = [task EXCEPT ![t] = Idle]
      PROVE  IInv'
  <2>1. room' \in [Rooms -> RoomRecords] /\ RoomInv' /\ Kept /\ NotLinked
    BY <1>1, <1>3, Invited, InvitesSpace
  <2>2. UNCHANGED <<bots, users, creds, config, workspace, onboarded, v1, gateway>>
    BY <1>3 DEF fileVars
  <2>3. CASE ensureInitialSession(t, task[t]) /\ UNCHANGED spent
    <3>1. /\ task' \in [Tasks -> TaskRecords] /\ \A s \in Tasks \ {t} : task'[s] = task[s]
          /\ FieldOK(task[t])' /\ OwnOK(task[t])' /\ task'[t].at \notin {"child", "leave"}
      <4>1. task[t] \in TaskRecords
        BY <1>1, TaskType DEF IInv
      <4>2. QED
        BY <1>1, <2>1, <2>3, <4>1, InvitesSpace, InitialSession
    <3>2. TypeOK'
      BY <2>1, <2>2, <2>3, <3>1 DEF IInv, TypeOK
    <3>3. QED
      BY <1>1, <2>1, <2>2, <3>1, <3>2, Aside, TaskStep
  <2>4. CASE Fault("request") /\ task' = [task EXCEPT ![t] = Idle]
    <3>1. TypeOK'
      BY <1>1, <2>1, <2>2, <2>4, FaultTyped, IdleTyped DEF IInv, TypeOK
    <3>2. QED
      BY <1>1, <2>1, <2>2, <2>4, <3>1, TaskEnds
  <2>5. QED
    BY <1>3, <2>3, <2>4
<1>4. QED
  BY <1>2, <1>3 DEF InviteToControl, Invite, Here

-----------------------------------------------------------------------------
(* One room is linked, unlinked or left. *)

\* A step on room x spares the rooms of the tasks that are about others.
LEMMA OthersSpared ==
  ASSUME SetupAssumption, TypeOK, OwnInv, NEW STATE x, x \in Rooms,
         \A r \in Rooms \ {x} : room'[r] = room[r], NEW s \in Tasks,
         task[s].at = "child" => task[s].room # x,
         task[s].at = "leave" => task[s].room # x \/ room'[x].child = None
  PROVE  Spares(s)
<1>1. task[s].room \in Rooms \cup {None} /\ OwnOK(task[s])
  BY TaskType DEF OwnInv
<1>2. QED
  BY <1>1 DEF OwnOK, Spares

LEMMA OneRoomStep ==
  ASSUME SetupAssumption, IInv, TypeOK', RoomInv', ListedIsLive', Kept, NEW t \in Tasks,
         \A s \in Tasks \ {t} : task'[s] = task[s] /\ Spares(s) /\ Apart(t, s),
         FieldOK(task[t])', OwnOK(task[t])', UNCHANGED <<workspace, gateway, onboarded>>
  PROVE  IInv'
<1>1. FieldInv' /\ OwnInv' /\ Distinct'
  BY FieldStep, OwnStep DEF IInv
<1>2. FileInv' /\ MarkInv'
  BY FileKept, MarkKept DEF IInv
<1>3. QED
  BY <1>1, <1>2 DEF IInv

\* A listed room is not one that a task is to link, or leaves.
LEMMA ListedIsNobodys ==
  ASSUME IInv, NEW r \in Rooms, room[r].child # None, NEW s \in Tasks,
         task[s].at \in {"child", "leave"}
  PROVE  task[s].room # r
BY DEF IInv, OwnInv, OwnOK

LEMMA LinkChildStep ==
  ASSUME SetupAssumption, IInv, NEW t \in Tasks, LinkChild(t)
  PROVE  IInv'
<1> DEFINE x == task[t].room
           sp == task[t].space
<1>1. CASE Refused(t, sp)
  BY <1>1, RefusedStep
<1>2. ASSUME room' = [room EXCEPT ![x].child = sp], task[t].at = "child",
             Answered(t, [task[t] EXCEPT !.at = "parent"]),
             UNCHANGED <<bots, users, fileVars, gateway>>
      PROVE  IInv'
  <2>1. /\ FieldOK(task[t]) /\ OwnOK(task[t]) /\ task[t] \in TaskRecords
        /\ sp \in Rooms \cup {None} /\ x \in Rooms \cup {None}
        /\ task[t].bot \in Bots \cup {None} /\ task[t].control \in Rooms \cup {None}
    BY TaskType DEF IInv, FieldInv, OwnInv
  <2>2. sp \in Rooms /\ sp # None /\ task[t].bot # None
    BY <1>2, <2>1 DEF FieldOK, NeedsSpace
  <2>3. /\ x \in Rooms /\ room[x].kind # None /\ room[x].bot = task[t].bot
        /\ room[x].kind \in Session \cup {"control"}
        /\ room[x].kind \in Session => room[x].in
    BY <1>2, <2>1, Nones DEF OwnOK, Session, Kinds
  <2> DEFINE y == [room[x] EXCEPT !.child = sp]
  <2>4. /\ y \in RoomRecords /\ y.kind = room[x].kind /\ y.bot = room[x].bot
        /\ y.in = room[x].in /\ y.invited = room[x].invited /\ y.parent = room[x].parent
    BY <2>2, <2>3, RoomType DEF IInv, RoomRecords
  <2>5. room' = [room EXCEPT ![x] = y]
    BY <1>2
  <2> HIDE DEF y
  <2>6. /\ room' \in [Rooms -> RoomRecords] /\ RoomInv' /\ Kept
        /\ room'[x] = y /\ \A r \in Rooms \ {x} : room'[r] = room[r]
    BY <2>3, <2>4, <2>5, RoomChanges DEF IInv
  <2>7. ListedIsLive'
    BY <2>3, <2>4, <2>6 DEF IInv, ListedIsLive, Session
  <2>8. ASSUME NEW s \in Tasks \ {t} PROVE Spares(s)
    <3>1. task[s].at \in {"child", "leave"} => task[s].room # x
      BY <1>2 DEF IInv, Distinct
    <3>2. QED
      BY <2>3, <2>6, <3>1, OthersSpared DEF IInv
  <2>9. UNCHANGED <<bots, users, creds, config, workspace, onboarded, v1, gateway>>
    BY <1>2 DEF fileVars
  <2>10. CASE task' = [task EXCEPT ![t] = [task[t] EXCEPT !.at = "parent"]] /\ UNCHANGED spent
    <3> DEFINE k == [task[t] EXCEPT !.at = "parent"]
    <3>1. /\ k \in TaskRecords /\ k.at = "parent" /\ k.bot = task[t].bot
          /\ k.space = sp /\ k.control = task[t].control /\ k.room = x
      BY <2>1 DEF TaskRecords, Stages
    <3>2. task' = [task EXCEPT ![t] = k]
      BY <2>10
    <3> HIDE DEF k
    <3>3. task'[t] = k /\ \A s \in Tasks \ {t} : task'[s] = task[s]
      BY <3>2 DEF IInv, TypeOK
    <3>4. TypeOK'
      BY <2>6, <2>9, <2>10, <3>1, <3>2 DEF IInv, TypeOK
    <3>5. "space" # None /\ "control" # None
      BY Nones DEF Kinds
    <3>6. IsSpace(task[t].space, task[t].bot)' /\ IsControl(task[t].control, task[t].bot)'
      BY <2>1, <2>6, <3>1, <3>3, <3>5 DEF FieldOK, IsSpace, IsControl, Kept
    <3>7. FieldOK(task[t])' /\ task'[t].at \notin {"child", "leave"}
      BY <2>2, <3>1, <3>3, <3>6 DEF FieldOK
    <3>8. OwnOK(task[t])'
      BY <2>3, <2>4, <2>6, <3>1, <3>3, Nones DEF OwnOK
    <3>9. QED
      BY <2>6, <2>7, <2>8, <2>9, <3>3, <3>4, <3>7, <3>8, Aside, OneRoomStep
  <2>11. CASE Fault("request") /\ task' = [task EXCEPT ![t] = Idle]
    <3>1. TypeOK'
      BY <2>6, <2>9, <2>11, FaultTyped, IdleTyped DEF IInv, TypeOK
    <3>2. task'[t] = Idle /\ \A s \in Tasks \ {t} : task'[s] = task[s]
      BY <2>11 DEF IInv, TypeOK
    <3>3. FieldOK(task[t])' /\ OwnOK(task[t])' /\ task'[t].at = "idle"
      BY <3>2, IdleOK DEF Idle, Task
    <3>4. QED
      BY <2>6, <2>7, <2>8, <2>9, <3>1, <3>2, <3>3, Aside, OneRoomStep
  <2>12. QED
    BY <1>2, <2>10, <2>11 DEF Answered
<1>3. QED
  BY <1>1, <1>2 DEF LinkChild

LEMMA LinkParentStep ==
  ASSUME SetupAssumption, IInv, NEW t \in Tasks, LinkParent(t)
  PROVE  IInv'
<1> DEFINE x == task[t].room
           sp == task[t].space
<1>1. CASE Refused(t, x)
  BY <1>1, RefusedStep
<1>2. ASSUME room' = [room EXCEPT ![x].parent = sp], task[t].at = "parent", ParentLinked(t),
             UNCHANGED <<bots, users, creds, config, v1, gateway>>
      PROVE  IInv'
  <2>1. /\ FieldOK(task[t]) /\ OwnOK(task[t])
        /\ sp \in Rooms \cup {None} /\ x \in Rooms \cup {None}
        /\ task[t].bot \in Bots \cup {None} /\ task[t].control \in Rooms \cup {None}
    BY TaskType DEF IInv, FieldInv, OwnInv
  <2>2. /\ sp \in Rooms /\ sp # None /\ task[t].bot # None /\ task[t].bot \in Bots
        /\ room[sp].kind = "space" /\ room[sp].bot = task[t].bot
        /\ IsControl(task[t].control, task[t].bot)
    BY <1>2, <2>1 DEF FieldOK, NeedsSpace, IsSpace
  <2>3. /\ x \in Rooms /\ x # None /\ room[x].kind # None /\ room[x].bot = task[t].bot
    BY <1>2, <2>1, Nones DEF OwnOK, Session, Kinds
  <2> DEFINE y == [room[x] EXCEPT !.parent = sp]
  <2>4. /\ y \in RoomRecords /\ y.kind = room[x].kind /\ y.bot = room[x].bot
        /\ y.in = room[x].in /\ y.invited = room[x].invited /\ y.child = room[x].child
        /\ y.parent = sp
    BY <2>2, <2>3, RoomType DEF IInv, RoomRecords
  <2>5. room' = [room EXCEPT ![x] = y]
    BY <1>2
  <2> HIDE DEF y
  <2>6. /\ room' \in [Rooms -> RoomRecords] /\ RoomInv' /\ Kept
        /\ room'[x] = y /\ \A r \in Rooms \ {x} : room'[r] = room[r]
    BY <2>2, <2>3, <2>4, <2>5, RoomChanges DEF IInv
  <2>7. NotLinked
    BY <2>3, <2>4, <2>6 DEF NotLinked, IInv, RoomInv, RoomOK, NoRoom
  <2>8. ListedIsLive'
    BY <2>6, <2>7, ListedKept DEF IInv
  <2>9. UNCHANGED <<bots, users, creds, config, v1, gateway>>
    BY <1>2
  <2>10. "space" # None /\ "control" # None
    BY Nones DEF Kinds
  <2>11. CASE UNCHANGED <<workspace, onboarded>> /\ task' = [task EXCEPT ![t] = Idle]
              /\ spent' \in [failures : 0..MaxFailures, resets : 0..MaxResets,
                             commands : 0..MaxCommands]
    <3>1. TypeOK'
      BY <2>6, <2>9, <2>11, IdleTyped DEF IInv, TypeOK
    <3>2. QED
      BY <2>6, <2>7, <2>9, <2>11, <3>1, TaskEnds
  <2>12. ASSUME NEW stage \in {"invite_space", "config"}, NEW STATE co, co \in Rooms \cup {None},
                IsControl(co, task[t].bot),
                task' = [task EXCEPT ![t] = Task(stage, task[t].bot, sp, co, None)]
         PROVE  /\ task' \in [Tasks -> TaskRecords] /\ FieldInv' /\ OwnInv' /\ Distinct'
    <3> DEFINE k == Task(stage, task[t].bot, sp, co, None)
    <3>1. /\ k \in TaskRecords /\ k.at = stage /\ k.bot = task[t].bot
          /\ k.space = sp /\ k.control = co
      BY <2>1, <2>2, <2>12 DEF Task, TaskRecords, Stages
    <3> HIDE DEF k
    <3>2. /\ task' \in [Tasks -> TaskRecords] /\ task'[t] = k
          /\ \A s \in Tasks \ {t} : task'[s] = task[s]
      BY <2>12, <3>1 DEF IInv, TypeOK, k
    <3>3. IsSpace(task[t].space, task[t].bot)' /\ IsControl(task[t].control, task[t].bot)'
      BY <2>2, <2>6, <2>10, <2>12, <3>1, <3>2 DEF IsSpace, IsControl, Kept
    <3>4. FieldOK(task[t])' /\ OwnOK(task[t])' /\ task'[t].at \notin {"child", "leave"}
      BY <2>2, <3>1, <3>2, <3>3 DEF FieldOK, OwnOK
    <3>5. QED
      BY <2>6, <2>7, <3>2, <3>4, Aside, FieldStep, OwnStep, NotLinkedSpares DEF IInv
  <2>13. ASSUME task' = [task EXCEPT ![t] = Idle]
         PROVE  /\ task' \in [Tasks -> TaskRecords] /\ FieldInv' /\ OwnInv' /\ Distinct'
    <3>1. task' \in [Tasks -> TaskRecords]
      BY <2>13, IdleTyped DEF IInv
    <3>2. task'[t] = Idle /\ \A s \in Tasks \ {t} : task'[s] = task[s]
      BY <2>13 DEF IInv, TypeOK
    <3>3. FieldOK(task[t])' /\ OwnOK(task[t])' /\ task'[t].at = "idle"
      BY <3>2, IdleOK DEF Idle, Task
    <3>4. QED
      BY <2>6, <2>7, <3>1, <3>2, <3>3, Aside, FieldStep, OwnStep, NotLinkedSpares DEF IInv
  <2>14. ASSUME room[x].kind = "control", UNCHANGED <<spent, onboarded>>,
                workspace' = [space |-> sp, control |-> x],
                task' = [task EXCEPT ![t] = Task("invite_space", task[t].bot, sp, x, None)]
         PROVE  IInv'
    <3>1. IsControl(x, task[t].bot)
      BY <2>3, <2>14 DEF IsControl
    <3>2. task' \in [Tasks -> TaskRecords] /\ FieldInv' /\ OwnInv' /\ Distinct'
      BY <2>1, <2>12, <2>14, <3>1
    <3>3. workspace' \in [space : Rooms, control : Rooms] \cup {None}
      BY <2>2, <2>3, <2>14
    <3>4. TypeOK'
      BY <2>6, <2>9, <2>14, <3>2, <3>3 DEF IInv, TypeOK
    <3>5. /\ room'[workspace'.space].kind = "space" /\ room'[workspace'.control].kind = "control"
          /\ room'[workspace'.control].bot = room'[workspace'.space].bot
      BY <2>2, <2>3, <2>6, <2>10, <2>14 DEF Kept
    <3>6. gateway.space \in Rooms \cup {None}
      BY DEF IInv, TypeOK
    <3>7. IsSpace(gateway.space, gateway.bot)'
      BY <2>6, <2>9, <2>10, <3>6 DEF IInv, FileInv, IsSpace, Kept
    <3>8. FileInv'
      BY <2>9, <3>5, <3>7 DEF IInv, FileInv
    <3>9. MarkInv'
      BY <2>6, <2>14, MarkKept DEF IInv
    <3>10. QED
      BY <2>6, <2>8, <3>2, <3>4, <3>8, <3>9 DEF IInv
  <2>15. ASSUME room[x].kind = "starter", UNCHANGED <<spent, workspace>>,
                onboarded' = [onboarded EXCEPT ![User(t)] = x],
                \/ task' = [task EXCEPT ![t] = Idle]
                \/ task' = [task EXCEPT ![t] = Task("config", task[t].bot, sp,
                                                    task[t].control, None)]
         PROVE  IInv'
    <3>1. task' \in [Tasks -> TaskRecords] /\ FieldInv' /\ OwnInv' /\ Distinct'
      BY <2>1, <2>2, <2>12, <2>13, <2>15
    <3>2. User(t) = task[t].bot
      BY DEF User
    <3>3. onboarded' \in [Bots -> Rooms \cup {None}]
      BY <2>3, <2>15 DEF IInv, TypeOK
    <3>4. TypeOK'
      BY <2>6, <2>9, <2>15, <3>1, <3>3 DEF IInv, TypeOK
    <3>5. FileInv'
      BY <2>6, <2>9, <2>15, FileKept DEF IInv
    <3>6. ASSUME NEW u \in Bots, onboarded'[u] # None
          PROVE  /\ room'[onboarded'[u]].kind = "starter" /\ room'[onboarded'[u]].bot = u
                 /\ room'[onboarded'[u]].parent # None
      <4>1. CASE u = task[t].bot
        <5>1. onboarded'[u] = x
          BY <2>2, <2>15, <3>2, <4>1 DEF IInv, TypeOK
        <5>2. QED
          BY <2>2, <2>3, <2>4, <2>6, <2>15, <4>1, <5>1
      <4>2. CASE u # task[t].bot
        <5>1. onboarded'[u] = onboarded[u]
          BY <2>15, <3>2, <4>2 DEF IInv, TypeOK
        <5>2. onboarded[u] \in Rooms \cup {None} /\ "starter" # None
          BY Nones DEF IInv, TypeOK, Kinds
        <5>3. QED
          BY <2>6, <3>6, <5>1, <5>2 DEF IInv, MarkInv, Kept
      <4>3. QED
        BY <4>1, <4>2
    <3>7. MarkInv'
      BY <3>6 DEF MarkInv
    <3>8. QED
      BY <2>6, <2>8, <3>1, <3>4, <3>5, <3>7 DEF IInv
  <2>16. Fault("request") => spent' \in [failures : 0..MaxFailures, resets : 0..MaxResets,
                                         commands : 0..MaxCommands]
    BY FaultTyped DEF IInv
  <2>17. spent \in [failures : 0..MaxFailures, resets : 0..MaxResets, commands : 0..MaxCommands]
    BY DEF IInv, TypeOK
  <2>18. QED
    <3>1. Afterwards(t) \in {"idle", "config"}
      BY DEF Afterwards
    <3>2. ParentLinked(t)
      BY <1>2
    <3>3. CASE Fault("request") /\ task' = [task EXCEPT ![t] = Idle]
               /\ UNCHANGED <<workspace, onboarded>>
      BY <2>11, <2>16, <3>3
    <3>4. CASE room[x].kind = "session" /\ UNCHANGED <<spent, workspace, onboarded>>
               /\ task' = [task EXCEPT ![t] = Idle]
      BY <2>11, <2>17, <3>4
    <3>5. QED
      BY <2>14, <2>15, <3>1, <3>2, <3>3, <3>4 DEF ParentLinked, saveRooms
<1>3. QED
  BY <1>1, <1>2 DEF LinkParent

-----------------------------------------------------------------------------
(* The gateway and its commands. *)

LEMMA LoadRoomsStep ==
  ASSUME SetupAssumption, IInv, LoadRooms
  PROVE  IInv'
<1> DEFINE t == "boot"
           tk == Task("idle", gateway.bot, workspace.space, None, None)
<1>1. t \in Tasks
  BY DEF Tasks, InGateway
<1>2. /\ UNCHANGED <<bots, users, room, creds, config, workspace, onboarded, v1, spent>>
      /\ gateway' = [bot |-> gateway.bot, space |-> workspace.space,
                     control |-> workspace.control]
  BY DEF LoadRooms, serverVars, fileVars
<1>3. RoomInv' /\ Kept /\ NotLinked
  BY <1>2, RoomsSame DEF IInv
<1>4. /\ workspace.space \in Rooms /\ workspace.control \in Rooms /\ workspace.space # None
      /\ gateway.bot \in Bots /\ gateway.bot # None
      /\ IsSpace(workspace.space, gateway.bot) /\ IsControl(None, gateway.bot)
  BY Nones DEF LoadRooms, IInv, TypeOK, FileInv, IsSpace, IsControl
<1>5. MarkInv' /\ ListedIsLive'
  BY <1>2, <1>3, MarkKept, ListedKept DEF IInv
<1>6. FileInv'
  BY <1>2, <1>4 DEF IInv, FileInv, IsSpace
<1>7. gateway' \in [bot : Bots \cup {None}, space : Rooms \cup {None}, control : Rooms \cup {None}]
  BY <1>2, <1>4
<1>8. CASE ensureInitialSession(t, tk)
  <2>1. /\ tk \in TaskRecords /\ tk.bot = gateway.bot /\ tk.space = workspace.space
        /\ tk.control = None
    BY <1>4 DEF Task, TaskRecords, Stages
  <2> HIDE DEF tk
  <2>2. /\ task' \in [Tasks -> TaskRecords] /\ \A s \in Tasks \ {t} : task'[s] = task[s]
        /\ FieldOK(task[t])' /\ OwnOK(task[t])' /\ task'[t].at \notin {"child", "leave"}
    BY <1>1, <1>3, <1>4, <1>8, <2>1, InitialSession
  <2>3. FieldInv' /\ OwnInv' /\ Distinct'
    BY <1>1, <1>3, <2>2, Aside, FieldStep, OwnStep, NotLinkedSpares DEF IInv
  <2>4. TypeOK'
    BY <1>2, <1>7, <2>2 DEF IInv, TypeOK
  <2>5. QED
    BY <1>3, <1>5, <1>6, <2>3, <2>4 DEF IInv
<1>9. CASE UNCHANGED task
  <2>1. FieldInv' /\ OwnInv' /\ Distinct'
    BY <1>2, <1>9 DEF IInv, FieldInv, FieldOK, OwnInv, OwnOK, Distinct, IsSpace, IsControl
  <2>2. TypeOK'
    BY <1>2, <1>7, <1>9 DEF IInv, TypeOK
  <2>3. QED
    BY <1>3, <1>5, <1>6, <2>1, <2>2 DEF IInv
<1>10. QED
  BY <1>8, <1>9 DEF LoadRooms

LEMMA GatewayEndsStep ==
  ASSUME SetupAssumption, IInv, GatewayEnds
  PROVE  IInv'
<1>1. /\ gateway' = [bot |-> None, space |-> None, control |-> None]
      /\ UNCHANGED <<bots, users, room, creds, config, workspace, onboarded, v1>>
      /\ task' = [t \in Tasks |-> IF t \in InGateway THEN Idle ELSE task[t]]
  BY DEF GatewayEnds, Off, serverVars, fileVars
<1>2. RoomInv' /\ Kept /\ NotLinked
  BY <1>1, RoomsSame DEF IInv
<1>3. spent' \in [failures : 0..MaxFailures, resets : 0..MaxResets, commands : 0..MaxCommands]
  BY FaultTyped DEF GatewayEnds, IInv, TypeOK
<1>4. task' \in [Tasks -> TaskRecords]
  <2>1. Idle \in TaskRecords
    BY DEF Idle, Task, TaskRecords, Stages
  <2>2. QED
    BY <1>1, <2>1, TaskType DEF IInv
<1>5. TypeOK'
  BY <1>1, <1>3, <1>4 DEF IInv, TypeOK
<1>6. ASSUME NEW t \in Tasks PROVE task'[t] = Idle \/ task'[t] = task[t]
  BY <1>1
<1>7. FieldInv' /\ OwnInv'
  <2>1. ASSUME NEW t \in Tasks PROVE FieldOK(task[t])' /\ OwnOK(task[t])'
    <3>1. CASE task'[t] = Idle
      BY <3>1, IdleOK
    <3>2. CASE task'[t] = task[t]
      BY <1>1, <3>2 DEF IInv, FieldInv, OwnInv, FieldOK, OwnOK, IsSpace, IsControl
    <3>3. QED
      BY <1>6, <3>1, <3>2
  <2>2. QED
    BY <2>1 DEF FieldInv, OwnInv
<1>8. Distinct'
  BY <1>6 DEF IInv, Distinct, Idle, Task
<1>9. FileInv' /\ MarkInv' /\ ListedIsLive'
  BY <1>1 DEF IInv, FileInv, MarkInv, ListedIsLive, IsSpace
<1>10. QED
  BY <1>2, <1>5, <1>7, <1>8, <1>9 DEF IInv

LEMMA onDeviceRedeemedStep ==
  ASSUME SetupAssumption, IInv, onDeviceRedeemed
  PROVE  IInv'
<1> DEFINE t == "redeem"
           tk == Task("idle", gateway.bot, gateway.space, None, None)
<1>1. t \in Tasks
  BY DEF Tasks, InGateway
<1>2. /\ UNCHANGED <<bots, users, room, creds, config, workspace, onboarded, v1, gateway, spent>>
      /\ ensureInitialSession(t, tk)
  BY DEF onDeviceRedeemed, serverVars, fileVars
<1>3. RoomInv' /\ Kept /\ NotLinked
  BY <1>2, RoomsSame DEF IInv
<1>4. /\ gateway.space \in Rooms /\ gateway.space # None
      /\ gateway.bot \in Bots /\ gateway.bot # None
      /\ IsSpace(gateway.space, gateway.bot) /\ IsControl(None, gateway.bot)
  BY Nones DEF onDeviceRedeemed, IInv, TypeOK, FileInv, IsControl
<1>5. /\ tk \in TaskRecords /\ tk.bot = gateway.bot /\ tk.space = gateway.space
      /\ tk.control = None
  BY <1>4 DEF Task, TaskRecords, Stages
<1> HIDE DEF tk
<1>6. /\ task' \in [Tasks -> TaskRecords] /\ \A s \in Tasks \ {t} : task'[s] = task[s]
      /\ FieldOK(task[t])' /\ OwnOK(task[t])' /\ task'[t].at \notin {"child", "leave"}
  BY <1>1, <1>2, <1>3, <1>4, <1>5, InitialSession
<1>7. TypeOK'
  BY <1>2, <1>6 DEF IInv, TypeOK
<1>8. QED
  BY <1>1, <1>2, <1>3, <1>6, <1>7, Aside, TaskStep

LEMMA CommandedTyped ==
  ASSUME SetupAssumption, TypeOK, Commanded
  PROVE  spent' \in [failures : 0..MaxFailures, resets : 0..MaxResets, commands : 0..MaxCommands]
BY DEF SetupAssumption, TypeOK, Commanded

LEMMA SessionNewStep ==
  ASSUME SetupAssumption, IInv, SessionNew
  PROVE  IInv'
<1> DEFINE t == "command"
           k == Task("session", gateway.bot, gateway.space, None, None)
<1>1. t \in Tasks
  BY DEF Tasks, InGateway
<1>2. /\ UNCHANGED <<bots, users, room, creds, config, workspace, onboarded, v1, gateway>>
      /\ task' = [task EXCEPT ![t] = k] /\ Commanded
  BY DEF SessionNew, serverVars, fileVars
<1>3. RoomInv' /\ Kept /\ NotLinked
  BY <1>2, RoomsSame DEF IInv
<1>4. /\ gateway.space \in Rooms /\ gateway.space # None
      /\ gateway.bot \in Bots /\ gateway.bot # None
      /\ IsSpace(gateway.space, gateway.bot)
  BY DEF SessionNew, IInv, TypeOK, FileInv
<1>5. /\ k \in TaskRecords /\ k.at = "session" /\ k.bot = gateway.bot /\ k.space = gateway.space
      /\ k.control = None
  BY <1>4 DEF Task, TaskRecords, Stages
<1> HIDE DEF k
<1>6. task'[t] = k /\ \A s \in Tasks \ {t} : task'[s] = task[s]
  BY <1>1, <1>2 DEF IInv, TypeOK
<1>7. TypeOK'
  BY <1>2, <1>5, CommandedTyped DEF IInv, TypeOK
<1>8. IsSpace(task[t].space, task[t].bot)' /\ IsControl(task[t].control, task[t].bot)'
  BY <1>2, <1>4, <1>5, <1>6 DEF IsSpace, IsControl
<1>9. FieldOK(task[t])' /\ OwnOK(task[t])' /\ task'[t].at \notin {"child", "leave"}
  BY <1>4, <1>5, <1>6, <1>8 DEF FieldOK, OwnOK
<1>10. QED
  BY <1>1, <1>2, <1>3, <1>6, <1>7, <1>9, Aside, TaskStep

\* A session that is listed is unlinked.
LEMMA Unlinked ==
  ASSUME SetupAssumption, IInv, NEW x \in Rooms, x \in Listed,
         room' = [room EXCEPT ![x].child = None]
  PROVE  /\ room' \in [Rooms -> RoomRecords] /\ RoomInv' /\ Kept /\ ListedIsLive'
         /\ room[x].kind \in Session /\ room'[x].kind = room[x].kind /\ room'[x].child = None
         /\ \A s \in Tasks : Spares(s)
         /\ \A s \in Tasks : task[s].at \in {"child", "leave"} => task[s].room # x
<1> DEFINE y == [room[x] EXCEPT !.child = None]
<1>1. room[x].kind \in Session /\ room[x].child # None /\ room[x].kind # None
  BY Nones DEF Listed, Session, Kinds
<1>2. /\ y \in RoomRecords /\ y.kind = room[x].kind /\ y.bot = room[x].bot
      /\ y.in = room[x].in /\ y.invited = room[x].invited /\ y.parent = room[x].parent
      /\ y.child = None
  BY RoomType DEF IInv, RoomRecords
<1>3. room' = [room EXCEPT ![x] = y]
  OBVIOUS
<1> HIDE DEF y
<1>4. /\ room' \in [Rooms -> RoomRecords] /\ RoomInv' /\ Kept
      /\ room'[x] = y /\ \A r \in Rooms \ {x} : room'[r] = room[r]
  BY <1>1, <1>2, <1>3, RoomChanges DEF IInv
<1>5. ListedIsLive'
  BY <1>2, <1>4 DEF IInv, ListedIsLive
<1>6. \A s \in Tasks : task[s].at \in {"child", "leave"} => task[s].room # x
  BY <1>1, ListedIsNobodys
<1>7. \A s \in Tasks : Spares(s)
  BY <1>4, <1>6, OthersSpared DEF IInv
<1>8. QED
  BY <1>1, <1>2, <1>4, <1>5, <1>6, <1>7

LEMMA SessionArchiveStep ==
  ASSUME SetupAssumption, IInv, NEW x \in Rooms, SessionArchive(x)
  PROVE  IInv'
<1> DEFINE t == "command"
<1>1. t \in Tasks /\ task[t].at = "idle"
  BY DEF Tasks, InGateway, SessionArchive, MayStart
<1>2. /\ UNCHANGED <<bots, users, creds, config, workspace, onboarded, v1, gateway, task>>
      /\ Commanded
  BY DEF SessionArchive, fileVars
<1>3. /\ room' \in [Rooms -> RoomRecords] /\ RoomInv' /\ Kept /\ ListedIsLive'
      /\ \A s \in Tasks : Spares(s)
  BY Unlinked DEF SessionArchive
<1>4. TypeOK'
  BY <1>2, <1>3, CommandedTyped DEF IInv, TypeOK
<1>5. task[t] = Idle /\ task'[t] = Idle /\ task'[t].at \notin {"child", "leave"}
  BY <1>1, <1>2 DEF IInv, FieldInv, FieldOK
<1>6. FieldOK(task[t])' /\ OwnOK(task[t])'
  BY <1>1, <1>5, IdleOK
<1>7. \A s \in Tasks \ {t} : task'[s] = task[s] /\ Spares(s) /\ Apart(t, s)
  BY <1>1, <1>2, <1>3, <1>5, Aside
<1>8. QED
  BY <1>1, <1>2, <1>3, <1>4, <1>6, <1>7, OneRoomStep

LEMMA SessionDeleteStep ==
  ASSUME SetupAssumption, IInv, NEW x \in Rooms, SessionDelete(x)
  PROVE  IInv'
<1> DEFINE t == "command"
           k == Task("leave", gateway.bot, None, None, x)
<1>1. t \in Tasks
  BY DEF Tasks, InGateway
<1>2. /\ UNCHANGED <<bots, users, creds, config, workspace, onboarded, v1, gateway>>
      /\ Commanded /\ task' = [task EXCEPT ![t] = k]
  BY DEF SessionDelete, fileVars
<1>3. /\ room' \in [Rooms -> RoomRecords] /\ RoomInv' /\ Kept /\ ListedIsLive'
      /\ room[x].kind \in Session /\ room'[x].kind = room[x].kind /\ room'[x].child = None
      /\ \A s \in Tasks : Spares(s)
      /\ \A s \in Tasks : task[s].at \in {"child", "leave"} => task[s].room # x
  BY Unlinked DEF SessionDelete
<1>4. gateway.bot \in Bots /\ gateway.bot # None
  <2>1. gateway.space # None
    BY DEF SessionDelete, Listed
  <2>2. QED
    BY <2>1 DEF IInv, TypeOK, FileInv
<1>5. /\ k \in TaskRecords /\ k.at = "leave" /\ k.bot = gateway.bot /\ k.space = None
      /\ k.control = None /\ k.room = x
  BY <1>4 DEF Task, TaskRecords, Stages
<1> HIDE DEF k
<1>6. task'[t] = k /\ \A s \in Tasks \ {t} : task'[s] = task[s]
  BY <1>1, <1>2 DEF IInv, TypeOK
<1>7. TypeOK'
  BY <1>2, <1>3, <1>5, CommandedTyped DEF IInv, TypeOK
<1>8. FieldOK(task[t])' /\ OwnOK(task[t])'
  BY <1>3, <1>4, <1>5, <1>6, Nones DEF FieldOK, OwnOK, IsSpace, IsControl, NeedsSpace
<1>9. \A s \in Tasks \ {t} : Apart(t, s)
  BY <1>3, <1>5, <1>6 DEF Apart
<1>10. QED
  BY <1>1, <1>2, <1>3, <1>6, <1>7, <1>8, <1>9, OneRoomStep

\* The bot leaves a room that is not listed.
LEMMA Left ==
  ASSUME SetupAssumption, IInv, NEW STATE x, x \in Rooms, room[x].kind # None,
         room[x].kind \in Session => room[x].child = None,
         room' = [room EXCEPT ![x].in = FALSE]
  PROVE  /\ room' \in [Rooms -> RoomRecords] /\ RoomInv' /\ Kept /\ ListedIsLive'
         /\ room'[x].child = room[x].child /\ \A r \in Rooms \ {x} : room'[r] = room[r]
<1> DEFINE y == [room[x] EXCEPT !.in = FALSE]
<1>1. /\ y \in RoomRecords /\ y.kind = room[x].kind /\ y.bot = room[x].bot
      /\ y.invited = room[x].invited /\ y.parent = room[x].parent /\ y.child = room[x].child
  BY RoomType DEF IInv, RoomRecords
<1>2. room' = [room EXCEPT ![x] = y]
  OBVIOUS
<1> HIDE DEF y
<1>3. /\ room' \in [Rooms -> RoomRecords] /\ RoomInv' /\ Kept
      /\ room'[x] = y /\ \A r \in Rooms \ {x} : room'[r] = room[r]
  BY <1>1, <1>2, RoomChanges DEF IInv
<1>4. ListedIsLive'
  BY <1>1, <1>3 DEF IInv, ListedIsLive, Session
<1>5. QED
  BY <1>1, <1>3, <1>4

LEMMA LeaveAndForgetStep ==
  ASSUME SetupAssumption, IInv, LeaveAndForget
  PROVE  IInv'
<1> DEFINE t == "command"
           x == task[t].room
<1>1. t \in Tasks /\ task[t].at = "leave"
  BY DEF Tasks, InGateway, LeaveAndForget
<1>2. /\ UNCHANGED <<bots, users, creds, config, workspace, onboarded, v1, gateway, spent>>
      /\ task' = [task EXCEPT ![t] = Idle] /\ room' = [room EXCEPT ![x].in = FALSE]
  BY DEF LeaveAndForget, fileVars
<1>3. x \in Rooms /\ room[x].kind \in Session /\ room[x].child = None /\ room[x].kind # None
  BY <1>1, TaskType, Nones DEF IInv, OwnInv, OwnOK, Session, Kinds
<1>4. /\ room' \in [Rooms -> RoomRecords] /\ RoomInv' /\ Kept /\ ListedIsLive'
      /\ room'[x].child = None /\ \A r \in Rooms \ {x} : room'[r] = room[r]
  <2> HIDE DEF x
  <2>1. x \in Rooms /\ room[x].kind # None /\ room' = [room EXCEPT ![x].in = FALSE]
    BY <1>2, <1>3
  <2>2. room[x].kind \in Session => room[x].child = None
    BY <1>3
  <2>3. /\ room' \in [Rooms -> RoomRecords] /\ RoomInv' /\ Kept /\ ListedIsLive'
        /\ room'[x].child = room[x].child /\ \A r \in Rooms \ {x} : room'[r] = room[r]
    BY <2>1, <2>2, Left
  <2>4. QED
    BY <1>3, <2>3
<1>5. ASSUME NEW s \in Tasks \ {t} PROVE Spares(s)
  <2>1. task[s].at = "child" => task[s].room # x
    BY <1>1 DEF IInv, Distinct
  <2>2. QED
    BY <1>3, <1>4, <2>1, OthersSpared DEF IInv
<1>6. task'[t] = Idle /\ \A s \in Tasks \ {t} : task'[s] = task[s]
  BY <1>1, <1>2 DEF IInv, TypeOK
<1>7. FieldOK(task[t])' /\ OwnOK(task[t])' /\ task'[t].at = "idle"
  BY <1>1, <1>6, IdleOK DEF Idle, Task
<1>8. TypeOK'
  BY <1>1, <1>2, <1>4, IdleTyped DEF IInv, TypeOK
<1>9. QED
  BY <1>1, <1>2, <1>4, <1>5, <1>6, <1>7, <1>8, Aside, OneRoomStep

LEMMA BotIsOutStep ==
  ASSUME SetupAssumption, IInv, NEW f \in {"space", "control"}, BotIsOut(f)
  PROVE  IInv'
<1> DEFINE x == workspace[f]
<1>1. /\ UNCHANGED <<bots, users, creds, config, workspace, onboarded, v1, gateway, task>>
      /\ Fault(f) /\ room' = [room EXCEPT ![x].in = FALSE]
  BY DEF BotIsOut, fileVars
<1>2. x \in Rooms /\ room[x].kind \in {"space", "control"} /\ room[x].kind # None
  BY Nones DEF BotIsOut, IInv, TypeOK, FileInv, Kinds
<1>3. /\ room' \in [Rooms -> RoomRecords] /\ RoomInv' /\ Kept /\ ListedIsLive'
      /\ room'[x].child = room[x].child /\ \A r \in Rooms \ {x} : room'[r] = room[r]
  BY <1>1, <1>2, Left DEF Session
<1>4. ASSUME NEW s \in Tasks PROVE FieldOK(task[s])' /\ OwnOK(task[s])'
  <2>1. FieldOK(task[s])'
    BY <1>1, <1>3, FieldKept DEF IInv, FieldInv
  <2>2. Spares(s)
    <3>1. task[s].room \in Rooms \cup {None} /\ OwnOK(task[s])
      BY TaskType DEF IInv, OwnInv
    <3>2. QED
      BY <1>2, <1>3, <3>1 DEF Spares, OwnOK, Session
  <2>3. QED
    BY <1>1, <1>3, <2>1, <2>2, OwnKept DEF IInv, OwnInv
<1>5. FieldInv' /\ OwnInv' /\ Distinct'
  BY <1>1, <1>4 DEF IInv, FieldInv, OwnInv, Distinct
<1>6. FileInv' /\ MarkInv'
  BY <1>1, <1>3, FileKept, MarkKept DEF IInv
<1>7. TypeOK'
  BY <1>1, <1>3, FaultTyped DEF IInv, TypeOK
<1>8. QED
  BY <1>3, <1>5, <1>6, <1>7 DEF IInv

-----------------------------------------------------------------------------
(* Together. *)

LEMMA InitInv ==
  ASSUME SetupAssumption, Init
  PROVE  IInv
<1>1. TypeOK
  <2>1. NoRoom \in RoomRecords /\ Idle \in TaskRecords
    BY DEF NoRoom, RoomRecords, Idle, Task, TaskRecords, Stages
  <2>2. room \in [Rooms -> RoomRecords] /\ task \in [Tasks -> TaskRecords]
    BY <2>1 DEF Init
  <2>3. /\ bots \in 0..MaxBots /\ users \subseteq Bots
        /\ spent \in [failures : 0..MaxFailures, resets : 0..MaxResets, commands : 0..MaxCommands]
    BY DEF Init, SetupAssumption
  <2>4. /\ v1 \in [present : BOOLEAN, saved : BOOLEAN]
        /\ gateway \in [bot : Bots \cup {None}, space : Rooms \cup {None},
                        control : Rooms \cup {None}]
    BY DEF Init, Off
  <2>5. QED
    BY <2>2, <2>3, <2>4 DEF Init, TypeOK
<1>2. RoomInv /\ ListedIsLive
  BY Nones DEF Init, RoomInv, RoomOK, NoRoom, ListedIsLive, Kinds
<1>3. FieldInv /\ OwnInv /\ Distinct
  BY DEF Init, FieldInv, FieldOK, OwnInv, OwnOK, Distinct, Idle, Task, IsSpace, IsControl,
         NeedsSpace
<1>4. FileInv /\ MarkInv
  BY DEF Init, FileInv, MarkInv, IsSpace, Off
<1>5. QED
  BY <1>1, <1>2, <1>3, <1>4 DEF IInv

LEMMA StutterInv ==
  ASSUME IInv, UNCHANGED vars
  PROVE  IInv'
<1>1. UNCHANGED <<bots, users, room, creds, config, workspace, onboarded, v1, gateway, task, spent>>
  BY DEF vars, serverVars, fileVars
<1>2. TypeOK' /\ RoomInv' /\ ListedIsLive'
  BY <1>1 DEF IInv, TypeOK, RoomInv, RoomOK, ListedIsLive
<1>3. FieldInv' /\ OwnInv' /\ Distinct'
  BY <1>1 DEF IInv, FieldInv, FieldOK, OwnInv, OwnOK, Distinct, IsSpace, IsControl
<1>4. FileInv' /\ MarkInv'
  BY <1>1 DEF IInv, FileInv, MarkInv, IsSpace
<1>5. QED
  BY <1>2, <1>3, <1>4 DEF IInv

LEMMA NextInv ==
  ASSUME SetupAssumption, IInv, [Next]_vars
  PROVE  IInv'
<1>1. {"setup", "migrate"} \subseteq Tasks /\ InGateway \subseteq Tasks
  BY DEF Tasks
<1>2. CASE SetupSteps
  BY <1>1, <1>2, provisionBotStep, ensureUserStep, JoinedRoomsStep, CreateSpaceStep,
     CreateControlStep, InviteToSpaceStep, InviteToControlStep, CreateSessionStep,
     LinkChildStep, LinkParentStep, writeChannelConfigStep DEF SetupSteps
<1>3. CASE MigrateSteps
  BY <1>1, <1>3, provisionBotStep, writeChannelConfigStep DEF MigrateSteps
<1>4. ASSUME NEW t \in InGateway, OtherSteps(t) PROVE IInv'
  BY <1>1, <1>4, CreateSessionStep, LinkChildStep, LinkParentStep DEF OtherSteps
<1>5. CASE BeginSetup \/ runMigration \/ runReset
  BY <1>5, BeginSetupStep, runMigrationStep, runResetStep
<1>6. CASE GatewayStarts \/ LoadRooms \/ GatewayEnds \/ onDeviceRedeemed
  BY <1>6, GatewayStartsStep, LoadRoomsStep, GatewayEndsStep, onDeviceRedeemedStep
<1>7. CASE SessionNew \/ LeaveAndForget
  BY <1>7, SessionNewStep, LeaveAndForgetStep
<1>8. ASSUME NEW r \in Rooms, SessionArchive(r) \/ SessionDelete(r) PROVE IInv'
  BY <1>8, SessionArchiveStep, SessionDeleteStep
<1>9. ASSUME NEW t \in Tasks, Fails(t) PROVE IInv'
  BY <1>9, FailsStep
<1>10. ASSUME NEW f \in {"space", "control"}, BotIsOut(f) PROVE IInv'
  BY <1>10, BotIsOutStep
<1>11. QED
  BY <1>2, <1>3, <1>4, <1>5, <1>6, <1>7, <1>8, <1>9, <1>10, StutterInv DEF Next

\* The invariant holds, whatever fails, is reset or overlaps.
THEOREM Invariance == Spec => []IInv
<1>1. Init => IInv
  BY InitInv, SetupAssumption
<1>2. IInv /\ [Next]_vars => IInv'
  BY NextInv, SetupAssumption
<1>3. QED
  BY <1>1, <1>2, PTL DEF Spec

\* Every variable keeps its type: no task, file or gateway names a room or a bot that the
\* code of cli.ts and space.ts could not have given it.
THEOREM TypeCorrect == Spec => []TypeOK
<1>1. IInv => TypeOK
  BY DEF IInv
<1>2. QED
  BY <1>1, Invariance, PTL

\* ensureInitialSession (space.ts) marks a user only when the chat it created is his, and
\* is linked to a space of his bot.
THEOREM MarkedHasAChat == Spec => []OnboardedUsable
<1>1. IInv => OnboardedUsable
  <2> SUFFICES ASSUME IInv, NEW u \in Bots, onboarded[u] # None
               PROVE  LET r == room[onboarded[u]]
                      IN /\ r.kind = "starter" /\ r.bot = u /\ u \in r.invited
                         /\ r.parent # None /\ room[r.parent].kind = "space"
                         /\ room[r.parent].bot = u
    BY DEF OnboardedUsable
  <2>1. /\ room[onboarded[u]].kind = "starter" /\ room[onboarded[u]].bot = u
        /\ room[onboarded[u]].parent # None /\ onboarded[u] \in Rooms
    BY DEF IInv, MarkInv, TypeOK
  <2>2. RoomOK(onboarded[u])
    BY <2>1 DEF IInv, RoomInv
  <2>3. QED
    BY <2>1, <2>2 DEF RoomOK
<1>2. QED
  BY <1>1, Invariance, PTL

\* archiveRoom and deleteSessionRoom (space.ts) unlink before they leave, and
\* nothing links a room that is being left: a session in the app's list can be opened.
THEOREM ListedCanBeOpened == Spec => []ListedIsLive
<1>1. IInv => ListedIsLive
  BY DEF IInv
<1>2. QED
  BY <1>1, Invariance, PTL

\* ensurePluginRooms (space.ts) takes no workspace of another bot, and the workspace of a
\* gateway stays its bot's whatever setup, migrate and reset do to the files under it.
THEOREM GatewayServesItsOwn == Spec => []ServesOwnRooms
<1>1. IInv => ServesOwnRooms
  BY DEF IInv, FileInv, IsSpace, ServesOwnRooms
<1>2. QED
  BY <1>1, Invariance, PTL

-----------------------------------------------------------------------------
(* The rooms on file are linked, unless the bot can lose its space. *)

\* A step that links no control room, leaves no space, records nothing, and starts neither
\* to create a space nor to link a room to its parent.
ControlKept ==
    \A r \in Rooms :
       /\ room[r].kind = "control" =>
             room'[r].child = room[r].child /\ room'[r].parent = room[r].parent
       /\ room'[r].kind = "space" => room'[r].in

LEMMA LinkKept ==
  ASSUME SetupAssumption, IInv, LinkInv, Kept, ControlKept, UNCHANGED workspace,
         \A t \in Tasks : task'[t] = task[t] \/ task'[t].at \notin {"space", "parent"}
  PROVE  LinkInv'
<1>1. "control" # None /\ "space" # None
  BY Nones DEF Kinds
<1>2. ASSUME NEW t \in Tasks
      PROVE  /\ task'[t].at = "space" => task'[t].control = None
             /\ task'[t].at = "parent" /\ room'[task'[t].room].kind = "control"
                  => room'[task'[t].room].child = task'[t].space
  <2>1. /\ OwnOK(task[t]) /\ task[t].room \in Rooms \cup {None}
        /\ None \notin Session \cup {"control"}
    BY TaskType, Nones DEF IInv, OwnInv, Session, Kinds
  <2>2. CASE task'[t] = task[t]
    <3>1. task[t].at = "parent" => task[t].room \in Rooms /\ room[task[t].room].kind # None
      BY <2>1 DEF OwnOK
    <3>2. QED
      BY <2>2, <3>1 DEF LinkInv, Kept, ControlKept
  <2>3. CASE task'[t].at \notin {"space", "parent"}
    BY <2>3
  <2>4. QED
    BY <2>2, <2>3
<1>3. WorkspaceLinked'
  <2>1. workspace # None => /\ workspace.control \in Rooms /\ workspace.space \in Rooms
                            /\ room[workspace.control].kind = "control"
                            /\ room[workspace.space].kind = "space"
    BY DEF IInv, TypeOK, FileInv
  <2>2. QED
    BY <1>1, <2>1 DEF LinkInv, WorkspaceLinked, Kept, ControlKept
<1>4. QED
  BY <1>2, <1>3 DEF LinkInv, ControlKept

\* A step that leaves the rooms alone.
LEMMA LinkUntouched ==
  ASSUME SetupAssumption, IInv, LinkInv, UNCHANGED <<room, workspace>>,
         \A t \in Tasks : task'[t] = task[t] \/ task'[t].at \notin {"space", "parent"}
  PROVE  LinkInv'
<1>1. Kept /\ ControlKept
  BY DEF Kept, ControlKept, LinkInv
<1>2. QED
  BY <1>1, LinkKept

\* A task that goes on as k, or ends.
LEMMA OneTask ==
  ASSUME TypeOK, NEW t \in Tasks, NEW STATE k, k.at \notin {"space", "parent"},
         task' = [task EXCEPT ![t] = k] \/ task' = [task EXCEPT ![t] = Idle]
  PROVE  \A s \in Tasks : task'[s] = task[s] \/ task'[s].at \notin {"space", "parent"}
<1>1. Idle.at \notin {"space", "parent"}
  BY DEF Idle, Task
<1>2. QED
  BY <1>1 DEF TypeOK

LEMMA IdleAside == Idle.at \notin {"space", "parent"}
BY DEF Idle, Task

LEMMA LinkRefused ==
  ASSUME SetupAssumption, IInv, LinkInv, NEW t \in Tasks, NEW STATE r, Refused(t, r) \/ Fails(t)
  PROVE  LinkInv'
<1>1. task' = [task EXCEPT ![t] = Idle] /\ UNCHANGED <<room, workspace>>
  BY DEF Refused, Fails, serverVars, fileVars
<1>2. QED
  BY <1>1, IdleAside, OneTask, LinkUntouched DEF IInv

\* The steps that leave the rooms alone.
LEMMA LinkQuiet ==
  ASSUME SetupAssumption, IInv, LinkInv, NEW t \in Tasks,
         \/ BeginSetup \/ provisionBot(t) \/ ensureUser \/ writeChannelConfig(t)
         \/ runMigration \/ GatewayStarts \/ LoadRooms \/ GatewayEnds \/ onDeviceRedeemed
         \/ SessionNew
  PROVE  LinkInv'
<1>1. UNCHANGED <<room, workspace>>
  BY DEF BeginSetup, provisionBot, ensureUser, writeChannelConfig, runMigration, GatewayStarts,
         LoadRooms, GatewayEnds, onDeviceRedeemed, SessionNew, serverVars, fileVars
<1>2. {"setup", "migrate", "boot", "redeem", "command"} \subseteq Tasks
  BY DEF Tasks, InGateway
<1>3. ASSUME NEW s \in Tasks, NEW STATE tk, tk \in TaskRecords, ensureInitialSession(s, tk)
      PROVE  \A q \in Tasks : task'[q] = task[q] \/ task'[q].at \notin {"space", "parent"}
  <2>1. PICK stage \in {"session", "config"} :
           \/ task' = [task EXCEPT ![s] = Idle]
           \/ task' = [task EXCEPT ![s] = [tk EXCEPT !.at = stage]]
    BY <1>3 DEF ensureInitialSession, Afterwards
  <2>2. [tk EXCEPT !.at = stage].at \notin {"space", "parent"}
    BY DEF TaskRecords
  <2>3. QED
    BY <2>1, <2>2, OneTask DEF IInv
<1>4. CASE BeginSetup
  <2> DEFINE k == Task(IF creds = None THEN "mint" ELSE "user", creds, None, None, None)
  <2>1. task' = [task EXCEPT !["setup"] = k] /\ k.at \notin {"space", "parent"}
    BY <1>4 DEF BeginSetup, resolveChat4000Account, Task
  <2>2. QED
    BY <1>1, <1>2, <2>1, OneTask, LinkUntouched DEF IInv
<1>5. CASE provisionBot(t)
  <2> DEFINE k == Task(IF t = "setup" THEN "user" ELSE "config", bots + 1, None, None, None)
  <2>1. /\ task' = [task EXCEPT ![t] = k] \/ task' = [task EXCEPT ![t] = Idle]
        /\ k.at \notin {"space", "parent"}
    BY <1>5 DEF provisionBot, Task
  <2>2. QED
    BY <1>1, <2>1, OneTask, LinkUntouched DEF IInv
<1>6. CASE ensureUser
  <2> DEFINE k == [task["setup"] EXCEPT !.at = "joined"]
  <2>1. /\ task' = [task EXCEPT !["setup"] = k] \/ task' = [task EXCEPT !["setup"] = Idle]
    BY <1>6 DEF ensureUser, Answered
  <2>2. k.at \notin {"space", "parent"}
    BY <1>2, TaskType DEF IInv, TaskRecords
  <2>3. QED
    BY <1>1, <1>2, <2>1, <2>2, OneTask, LinkUntouched DEF IInv
<1>7. CASE writeChannelConfig(t)
  <2>1. task' = [task EXCEPT ![t] = Idle]
    BY <1>7 DEF writeChannelConfig
  <2>2. QED
    BY <1>1, <2>1, IdleAside, OneTask, LinkUntouched DEF IInv
<1>8. CASE runMigration
  <2> DEFINE k == Task(IF creds = None THEN "mint" ELSE "config", creds, None, None, None)
  <2>1. task' = [task EXCEPT !["migrate"] = k] \/ UNCHANGED task
    BY <1>8 DEF runMigration, resolveChat4000Account
  <2>2. k.at \notin {"space", "parent"}
    BY DEF Task
  <2>3. CASE task' = [task EXCEPT !["migrate"] = k]
    BY <1>1, <1>2, <2>2, <2>3, OneTask, LinkUntouched DEF IInv
  <2>4. CASE UNCHANGED task
    BY <1>1, <2>4, LinkUntouched
  <2>5. QED
    BY <2>1, <2>3, <2>4
<1>9. CASE GatewayStarts
  BY <1>1, <1>9, LinkUntouched DEF GatewayStarts
<1>10. CASE LoadRooms
  <2>1. Task("idle", gateway.bot, workspace.space, None, None) \in TaskRecords
    BY <1>10 DEF LoadRooms, IInv, TypeOK, Task, TaskRecords, Stages
  <2>2. ensureInitialSession("boot", Task("idle", gateway.bot, workspace.space, None, None))
        \/ UNCHANGED task
    BY <1>10 DEF LoadRooms
  <2>3. QED
    BY <1>1, <1>2, <1>3, <2>1, <2>2, LinkUntouched
<1>11. CASE GatewayEnds
  BY <1>1, <1>11, IdleAside, LinkUntouched DEF GatewayEnds
<1>12. CASE onDeviceRedeemed
  <2>1. Task("idle", gateway.bot, gateway.space, None, None) \in TaskRecords
    BY DEF IInv, TypeOK, Task, TaskRecords, Stages
  <2>2. ensureInitialSession("redeem", Task("idle", gateway.bot, gateway.space, None, None))
    BY <1>12 DEF onDeviceRedeemed
  <2>3. QED
    BY <1>1, <1>2, <1>3, <2>1, <2>2, LinkUntouched
<1>13. CASE SessionNew
  <2> DEFINE k == Task("session", gateway.bot, gateway.space, None, None)
  <2>1. task' = [task EXCEPT !["command"] = k] /\ k.at \notin {"space", "parent"}
    BY <1>13 DEF SessionNew, Task
  <2>2. QED
    BY <1>1, <1>2, <2>1, OneTask, LinkUntouched DEF IInv
<1>14. QED
  BY <1>4, <1>5, <1>6, <1>7, <1>8, <1>9, <1>10, <1>11, <1>12, <1>13

LEMMA LinkJoined ==
  ASSUME SetupAssumption, IInv, LinkInv, JoinedRooms
  PROVE  LinkInv'
<1> DEFINE t == "setup"
           sp == IF workspace # None /\ Here(t, workspace.space) THEN workspace.space ELSE None
           co == IF workspace # None /\ Here(t, workspace.control) THEN workspace.control
                 ELSE None
           k(stage) == Task(stage, task[t].bot, sp, co, None)
<1>1. t \in Tasks /\ UNCHANGED room
  BY DEF Tasks, JoinedRooms, serverVars
<1>2. PICK next \in {"space", "control", "invite_space"} :
        /\ task' = [task EXCEPT ![t] = k(next)]
        /\ next = "space" => sp = None
        /\ \/ UNCHANGED workspace
           \/ /\ workspace' = [space |-> sp, control |-> co]
              /\ sp # None /\ co # None
  BY DEF JoinedRooms, saveRooms
<1>3. sp = None => co = None
  <2>1. workspace # None => /\ workspace.space \in Rooms /\ room[workspace.space].kind = "space"
                            /\ room[workspace.control].bot = room[workspace.space].bot
    BY DEF IInv, TypeOK, FileInv
  <2>2. workspace # None => room[workspace.space].in /\ workspace.space # None
    BY <2>1, Nones DEF LinkInv
  <2>3. QED
    BY <2>1, <2>2 DEF Here
<1>4. UNCHANGED workspace
  <2>1. workspace # None => workspace = [space |-> workspace.space, control |-> workspace.control]
    BY DEF IInv, TypeOK
  <2>2. QED
    BY <1>2, <2>1
<1> HIDE DEF sp, co
<1>5. /\ task'[t].at = next /\ task'[t].control = co
      /\ \A s \in Tasks \ {t} : task'[s] = task[s]
  BY <1>1, <1>2 DEF IInv, TypeOK, Task
<1>6. QED
  BY <1>1, <1>2, <1>3, <1>4, <1>5 DEF LinkInv, WorkspaceLinked

LEMMA LinkReset ==
  ASSUME LinkInv, runReset
  PROVE  LinkInv'
BY DEF LinkInv, WorkspaceLinked, runReset, serverVars

\* A new room is linked to nothing yet.
LEMMA LinkCreated ==
  ASSUME SetupAssumption, IInv, LinkInv,
         \/ CreateSpace \/ CreateControl \/ \E t \in Tasks : CreateSession(t)
  PROVE  LinkInv'
<1>1. ASSUME NEW t \in Tasks, NEW kind \in Kinds, NEW STATE invited, invited \subseteq Bots,
             kind = "starter" => task[t].bot \in invited,
             CanCreate, Created(t, kind, invited), UNCHANGED workspace,
             NEW STATE k, k.at \notin {"space", "parent"}, Answered(t, k)
      PROVE  LinkInv'
  <2>1. /\ Kept /\ NewRoom \in Rooms /\ room[NewRoom].kind = None /\ room'[NewRoom].in = TRUE
        /\ \A r \in Rooms \ {NewRoom} : room'[r] = room[r]
    BY <1>1, RoomCreated DEF IInv
  <2>2. ControlKept
    BY <2>1, Nones DEF ControlKept, LinkInv, Kinds
  <2>3. QED
    BY <1>1, <2>1, <2>2, OneTask, LinkKept DEF IInv, Answered
<1>2. Linking("setup").at = "child" /\ \A t \in Tasks : Linking(t).at = "child"
  BY DEF Linking, Task
<1>3. "setup" \in Tasks /\ "space" \in Kinds /\ "control" \in Kinds /\ "session" \in Kinds
      /\ "starter" \in Kinds
  BY DEF Tasks, Kinds
<1>4. PICK none : none = {}
  OBVIOUS
<1>5. none \subseteq Bots
  BY <1>4
<1>6. CASE CreateControl
  <2>1. /\ Created("setup", "control", none) /\ CanCreate /\ UNCHANGED workspace
        /\ Answered("setup", Linking("setup"))
    BY <1>4, <1>6 DEF CreateControl, fileVars
  <2>2. QED
    BY <1>1, <1>2, <1>3, <1>5, <2>1
<1>7. CASE CreateSpace
  <2>1. task["setup"].control = None
    BY <1>3, <1>7 DEF LinkInv, CreateSpace
  <2> DEFINE k == Task("control", task["setup"].bot, NewRoom, task["setup"].control, None)
  <2>2. /\ Created("setup", "space", none) /\ CanCreate /\ UNCHANGED workspace
        /\ Answered("setup", k) /\ k.at \notin {"space", "parent"}
    BY <1>4, <1>7, <2>1 DEF CreateSpace, Task
  <2>3. QED
    BY <1>1, <1>3, <1>5, <2>2
<1>8. ASSUME NEW t \in Tasks, CreateSession(t) PROVE LinkInv'
  <2> DEFINE kind == IF t = "command" THEN "session" ELSE "starter"
  <2>1. /\ Created(t, kind, {User(t)}) /\ CanCreate /\ UNCHANGED workspace
        /\ Answered(t, Linking(t)) /\ kind \in Kinds
    BY <1>3, <1>8 DEF CreateSession, fileVars
  <2>2. task[t].bot \in Bots
    BY <1>8, TaskType DEF CreateSession, IInv, FieldInv, FieldOK
  <2>3. {User(t)} \subseteq Bots /\ task[t].bot \in {User(t)}
    BY <2>2 DEF User
  <2>4. QED
    BY <1>1, <1>2, <2>1, <2>3
<1>9. QED
  BY <1>6, <1>7, <1>8

\* A room that is there changes; a control room only in whom it is open to.
LEMMA LinkChanged ==
  ASSUME SetupAssumption, IInv, LinkInv, NEW STATE x, x \in Rooms, NEW STATE y,
         room' = [room EXCEPT ![x] = y], y.kind = room[x].kind, y.bot = room[x].bot,
         y.parent = room[x].parent, room[x].kind = "control" => y.child = room[x].child,
         room[x].kind = "space" => y.in = room[x].in, UNCHANGED workspace,
         \A t \in Tasks : task'[t] = task[t] \/ task'[t].at \notin {"space", "parent"}
  PROVE  LinkInv'
<1>1. room'[x] = y /\ \A r \in Rooms \ {x} : room'[r] = room[r]
  BY DEF IInv, TypeOK
<1>2. Kept /\ ControlKept
  BY <1>1 DEF Kept, ControlKept, LinkInv
<1>3. QED
  BY <1>2, LinkKept

LEMMA LinkInvited ==
  ASSUME SetupAssumption, IInv, LinkInv, InviteToSpace \/ InviteToControl
  PROVE  LinkInv'
<1> DEFINE t == "setup"
<1>1. t \in Tasks
  BY DEF Tasks
<1>2. ASSUME NEW STATE x, x \in Rooms, room' = [room EXCEPT ![x].invited = @ \cup {User(t)}],
             UNCHANGED workspace,
             \A s \in Tasks : task'[s] = task[s] \/ task'[s].at \notin {"space", "parent"}
      PROVE  LinkInv'
  <2> DEFINE y == [room[x] EXCEPT !.invited = @ \cup {User(t)}]
  <2>1. /\ y.kind = room[x].kind /\ y.bot = room[x].bot /\ y.parent = room[x].parent
        /\ y.child = room[x].child /\ y.in = room[x].in
    BY RoomType DEF IInv, RoomRecords
  <2>2. room' = [room EXCEPT ![x] = y]
    BY <1>2
  <2> HIDE DEF y
  <2>3. QED
    BY <1>2, <2>1, <2>2, LinkChanged
<1>3. CASE InviteToSpace
  <2> DEFINE x == task[t].space
             k == [task[t] EXCEPT !.at = "invite_control"]
  <2>1. CASE Refused(t, x)
    BY <1>1, <2>1, LinkRefused
  <2>2. ASSUME room' = [room EXCEPT ![x].invited = @ \cup {User(t)}], UNCHANGED fileVars,
               task' = Goes(t, "invite_control") \/ task' = [task EXCEPT ![t] = Idle]
        PROVE  LinkInv'
    <3>1. x \in Rooms
      BY <1>1, <1>3, InvitesSpace DEF InviteToSpace
    <3>2. task' = [task EXCEPT ![t] = k] \/ task' = [task EXCEPT ![t] = Idle]
      BY <2>2 DEF Goes
    <3>3. k.at \notin {"space", "parent"}
      BY <1>1, TaskType DEF IInv, TaskRecords
    <3>4. \A s \in Tasks : task'[s] = task[s] \/ task'[s].at \notin {"space", "parent"}
      BY <1>1, <3>2, <3>3, OneTask DEF IInv
    <3>5. QED
      BY <1>2, <2>2, <3>1, <3>4 DEF fileVars
  <2>3. QED
    BY <1>3, <2>1, <2>2 DEF InviteToSpace, Invite
<1>4. CASE InviteToControl
  <2> DEFINE x == task[t].control
  <2>1. CASE Refused(t, x)
    BY <1>1, <2>1, LinkRefused
  <2>2. ASSUME room' = [room EXCEPT ![x].invited = @ \cup {User(t)}], UNCHANGED fileVars,
               x # None,
               ensureInitialSession(t, task[t]) \/ task' = [task EXCEPT ![t] = Idle]
        PROVE  LinkInv'
    <3>1. x \in Rooms /\ task[t] \in TaskRecords
      BY <1>1, <2>2, TaskType DEF IInv
    <3>2. PICK stage \in {"session", "config"} :
             \/ task' = [task EXCEPT ![t] = Idle]
             \/ task' = [task EXCEPT ![t] = [task[t] EXCEPT !.at = stage]]
      BY <2>2 DEF ensureInitialSession, Afterwards
    <3>3. [task[t] EXCEPT !.at = stage].at \notin {"space", "parent"}
      BY <3>1 DEF TaskRecords
    <3>4. \A s \in Tasks : task'[s] = task[s] \/ task'[s].at \notin {"space", "parent"}
      BY <1>1, <3>2, <3>3, OneTask DEF IInv
    <3>5. QED
      BY <1>2, <2>2, <3>1, <3>4 DEF fileVars
  <2>3. QED
    BY <1>4, <2>1, <2>2 DEF InviteToControl, Invite, Here
<1>5. QED
  BY <1>3, <1>4

\* Sessions are archived, deleted and left; the bot may lose its control room.
LEMMA LinkSessions ==
  ASSUME SetupAssumption, IInv, LinkInv, "space" \notin Faults,
         \/ \E r \in Rooms : SessionArchive(r) \/ SessionDelete(r)
         \/ LeaveAndForget \/ BotIsOut("control")
  PROVE  LinkInv'
<1>1. "command" \in Tasks
  BY DEF Tasks, InGateway
<1>2. ASSUME NEW r \in Rooms, SessionArchive(r) \/ SessionDelete(r) PROVE LinkInv'
  <2> DEFINE y == [room[r] EXCEPT !.child = None]
             k == Task("leave", gateway.bot, None, None, r)
  <2>1. room[r].kind \in Session
    BY <1>2 DEF SessionArchive, SessionDelete, Listed, Session
  <2>2. /\ y.kind = room[r].kind /\ y.bot = room[r].bot /\ y.parent = room[r].parent
        /\ y.in = room[r].in
    BY RoomType DEF IInv, RoomRecords
  <2>3. room' = [room EXCEPT ![r] = y] /\ UNCHANGED workspace
    BY <1>2 DEF SessionArchive, SessionDelete, fileVars
  <2>4. UNCHANGED task \/ task' = [task EXCEPT !["command"] = k]
    BY <1>2 DEF SessionArchive, SessionDelete
  <2>5. k.at \notin {"space", "parent"}
    BY DEF Task
  <2> HIDE DEF y, k
  <2>6. \A s \in Tasks : task'[s] = task[s] \/ task'[s].at \notin {"space", "parent"}
    BY <1>1, <2>4, <2>5, OneTask DEF IInv
  <2>7. QED
    BY <2>1, <2>2, <2>3, <2>6, LinkChanged DEF Session
<1>3. ASSUME NEW STATE x, x \in Rooms, room[x].kind # "space",
             room' = [room EXCEPT ![x].in = FALSE], UNCHANGED workspace,
             UNCHANGED task \/ task' = [task EXCEPT !["command"] = Idle]
      PROVE  LinkInv'
  <2> DEFINE y == [room[x] EXCEPT !.in = FALSE]
  <2>1. /\ y.kind = room[x].kind /\ y.bot = room[x].bot /\ y.parent = room[x].parent
        /\ y.child = room[x].child
    BY RoomType DEF IInv, RoomRecords
  <2>2. room' = [room EXCEPT ![x] = y]
    BY <1>3
  <2> HIDE DEF y
  <2>3. \A s \in Tasks : task'[s] = task[s] \/ task'[s].at \notin {"space", "parent"}
    BY <1>1, <1>3, IdleAside, OneTask DEF IInv
  <2>4. QED
    BY <1>3, <2>1, <2>2, <2>3, LinkChanged
<1>4. CASE LeaveAndForget
  <2>1. task["command"].room \in Rooms /\ room[task["command"].room].kind \in Session
    BY <1>1, <1>4, TaskType DEF LeaveAndForget, IInv, OwnInv, OwnOK
  <2>2. QED
    BY <1>3, <1>4, <2>1 DEF LeaveAndForget, fileVars, Session
<1>5. CASE BotIsOut("control")
  <2>1. workspace["control"] \in Rooms /\ room[workspace["control"]].kind = "control"
    BY <1>5 DEF BotIsOut, IInv, TypeOK, FileInv
  <2>2. QED
    BY <1>3, <1>5, <2>1 DEF BotIsOut, fileVars
<1>6. QED
  BY <1>2, <1>4, <1>5

LEMMA LinkChildLinks ==
  ASSUME SetupAssumption, IInv, LinkInv, NEW t \in Tasks, LinkChild(t)
  PROVE  LinkInv'
<1> DEFINE x == task[t].room
           sp == task[t].space
           k == [task[t] EXCEPT !.at = "parent"]
<1>1. CASE Refused(t, sp)
  BY <1>1, LinkRefused
<1>2. ASSUME room' = [room EXCEPT ![x].child = sp], task[t].at = "child", UNCHANGED workspace,
             \/ task' = [task EXCEPT ![t] = k] \/ task' = [task EXCEPT ![t] = Idle]
      PROVE  LinkInv'
  <2>1. OwnOK(task[t]) /\ FieldOK(task[t]) /\ x \in Rooms \cup {None} /\ sp \in Rooms \cup {None}
    BY TaskType DEF IInv, OwnInv, FieldInv
  <2>2. /\ x \in Rooms /\ room[x].kind \in Session \cup {"control"} /\ room[x].child = None
        /\ sp # None
    BY <1>2, <2>1 DEF OwnOK, FieldOK, NeedsSpace
  <2>3. /\ k.at = "parent" /\ k.space = sp /\ k.room = x
    BY TaskType DEF IInv, TaskRecords
  <2> HIDE DEF k
  <2>4. /\ room'[x].child = sp /\ room'[x].kind = room[x].kind /\ room'[x].in = room[x].in
        /\ room'[x].parent = room[x].parent /\ room'[x].bot = room[x].bot
        /\ \A r \in Rooms \ {x} : room'[r] = room[r]
    BY <1>2, <2>2, RoomType DEF IInv, TypeOK, RoomRecords
  <2>5. \A r \in Rooms : room'[r].kind = "space" => room'[r].in
    BY <2>4 DEF LinkInv
  <2>6. ASSUME NEW s \in Tasks
        PROVE  /\ task'[s].at = "space" => task'[s].control = None
               /\ task'[s].at = "parent" /\ room'[task'[s].room].kind = "control"
                    => room'[task'[s].room].child = task'[s].space
    <3>1. CASE s = t
      <4>1. CASE task'[s] = k
        BY <2>3, <2>4, <3>1, <4>1
      <4>2. CASE task'[s] = Idle
        BY <4>2, IdleAside
      <4>3. QED
        BY <1>2, <3>1, <4>1, <4>2 DEF IInv, TypeOK
    <3>2. CASE s # t
      <4>1. task'[s] = task[s]
        BY <1>2, <3>2 DEF IInv, TypeOK
      <4>2. /\ OwnOK(task[s]) /\ FieldOK(task[s]) /\ task[s].room \in Rooms \cup {None}
        BY TaskType DEF IInv, OwnInv, FieldInv
      <4>3. CASE task[s].at = "parent" /\ room[task[s].room].kind = "control"
        <5>1. task[s].room \in Rooms /\ task[s].space # None
          BY <4>2, <4>3 DEF OwnOK, FieldOK, NeedsSpace
        <5>2. room[task[s].room].child = task[s].space
          BY <4>3 DEF LinkInv
        <5>3. task[s].room # x
          BY <2>2, <5>1, <5>2
        <5>4. QED
          BY <2>4, <4>1, <4>3, <5>1, <5>2, <5>3
      <4>4. CASE ~(task[s].at = "parent" /\ room[task[s].room].kind = "control")
        <5>1. task[s].at = "parent" => room'[task[s].room].kind # "control"
          BY <2>4, <4>2, <4>4 DEF OwnOK
        <5>2. QED
          BY <4>1, <5>1 DEF LinkInv
      <4>5. QED
        BY <4>3, <4>4
    <3>3. QED
      BY <3>1, <3>2
  <2>7. WorkspaceLinked'
    <3>1. CASE workspace # None
      <4>1. /\ workspace.control \in Rooms /\ workspace.space \in Rooms
            /\ room[workspace.control].child = workspace.space
        BY <3>1 DEF IInv, TypeOK, LinkInv, WorkspaceLinked
      <4>2. workspace.control # x
        BY <2>2, <4>1, Nones
      <4>3. QED
        BY <1>2, <2>4, <3>1, <4>1, <4>2 DEF LinkInv, WorkspaceLinked
    <3>2. CASE workspace = None
      BY <1>2, <3>2 DEF WorkspaceLinked
    <3>3. QED
      BY <3>1, <3>2
  <2>8. QED
    BY <2>5, <2>6, <2>7 DEF LinkInv
<1>3. QED
  BY <1>1, <1>2 DEF LinkChild, Answered, fileVars

LEMMA LinkParentLinks ==
  ASSUME SetupAssumption, IInv, LinkInv, NEW t \in Tasks, LinkParent(t)
  PROVE  LinkInv'
<1> DEFINE x == task[t].room
           sp == task[t].space
<1>1. CASE Refused(t, x)
  BY <1>1, LinkRefused
<1>2. ASSUME room' = [room EXCEPT ![x].parent = sp], task[t].at = "parent", ParentLinked(t)
      PROVE  LinkInv'
  <2>1. OwnOK(task[t]) /\ FieldOK(task[t]) /\ x \in Rooms \cup {None} /\ sp \in Rooms \cup {None}
    BY TaskType DEF IInv, OwnInv, FieldInv
  <2>2. /\ x \in Rooms /\ room[x].kind \in Session \cup {"control"}
        /\ sp # None /\ sp \in Rooms
        /\ room[sp].bot = room[x].bot /\ room[sp].kind = "space"
    BY <1>2, <2>1 DEF OwnOK, FieldOK, NeedsSpace, IsSpace
  <2>3. room[x].kind = "control" => room[x].child = sp
    BY <1>2 DEF LinkInv
  <2>4. /\ room'[x].child = room[x].child /\ room'[x].kind = room[x].kind
        /\ room'[x].in = room[x].in /\ room'[x].parent = sp /\ room'[x].bot = room[x].bot
        /\ \A r \in Rooms \ {x} : room'[r] = room[r]
    BY <1>2, <2>2, RoomType DEF IInv, TypeOK, RoomRecords
  <2>5. \A r \in Rooms : /\ room'[r].kind = room[r].kind /\ room'[r].child = room[r].child
                         /\ room'[r].bot = room[r].bot /\ room'[r].in = room[r].in
    BY <2>4
  <2>6. PICK k : task' = [task EXCEPT ![t] = k] /\ k.at \notin {"space", "parent"}
    <3>1. /\ Idle.at \notin {"space", "parent"} /\ Afterwards(t) \in {"idle", "config"}
          /\ Task("invite_space", task[t].bot, sp, x, None).at \notin {"space", "parent"}
          /\ Task("config", task[t].bot, sp, task[t].control, None).at
               \notin {"space", "parent"}
      BY DEF Idle, Task, Afterwards
    <3>2. QED
      BY <1>2, <3>1 DEF ParentLinked
  <2>7. \A s \in Tasks : task'[s] = task[s] \/ task'[s].at \notin {"space", "parent"}
    BY <2>6 DEF IInv, TypeOK
  <2>8. ASSUME NEW s \in Tasks
        PROVE  /\ task'[s].at = "space" => task'[s].control = None
               /\ task'[s].at = "parent" /\ room'[task'[s].room].kind = "control"
                    => room'[task'[s].room].child = task'[s].space
    <3>1. task[s].room \in Rooms \cup {None} /\ OwnOK(task[s])
      BY TaskType DEF IInv, OwnInv
    <3>2. QED
      BY <2>5, <2>7, <3>1 DEF LinkInv, OwnOK
  <2>9. WorkspaceLinked'
    <3>1. CASE UNCHANGED workspace
      <4>1. workspace # None => workspace.control \in Rooms /\ workspace.space \in Rooms
        BY DEF IInv, TypeOK
      <4>2. CASE workspace # None /\ workspace.control = x
        <5>1. room[x].kind = "control" /\ workspace.space = sp
          BY <2>3, <4>2 DEF IInv, FileInv, LinkInv, WorkspaceLinked
        <5>2. QED
          BY <2>2, <2>3, <2>4, <2>5, <3>1, <4>2, <5>1 DEF WorkspaceLinked
      <4>3. CASE workspace = None \/ workspace.control # x
        BY <2>4, <2>5, <3>1, <4>1, <4>3 DEF LinkInv, WorkspaceLinked
      <4>4. QED
        BY <4>2, <4>3
    <3>2. CASE workspace' = [space |-> sp, control |-> x] /\ room[x].kind = "control"
      BY <2>2, <2>3, <2>4, <2>5, <3>2 DEF WorkspaceLinked
    <3>3. QED
      BY <1>2, <3>1, <3>2 DEF ParentLinked, saveRooms
  <2>10. QED
    BY <2>5, <2>8, <2>9 DEF LinkInv
<1>3. QED
  BY <1>1, <1>2 DEF LinkParent

LEMMA NextLinked ==
  ASSUME SetupAssumption, IInv, LinkInv, "space" \notin Faults, [Next]_vars
  PROVE  LinkInv'
<1>1. {"setup", "migrate"} \subseteq Tasks /\ InGateway \subseteq Tasks
  BY DEF Tasks
<1>2. CASE SetupSteps
  BY <1>1, <1>2, LinkQuiet, LinkJoined, LinkCreated, LinkInvited, LinkChildLinks, LinkParentLinks
     DEF SetupSteps
<1>3. CASE MigrateSteps
  BY <1>1, <1>3, LinkQuiet DEF MigrateSteps
<1>4. ASSUME NEW t \in InGateway, OtherSteps(t) PROVE LinkInv'
  BY <1>1, <1>4, LinkCreated, LinkChildLinks, LinkParentLinks DEF OtherSteps
<1>5. CASE BeginSetup \/ runMigration \/ GatewayStarts \/ LoadRooms \/ GatewayEnds
           \/ onDeviceRedeemed \/ SessionNew
  BY <1>1, <1>5, LinkQuiet
<1>6. CASE runReset
  BY <1>6, LinkReset
<1>7. CASE LeaveAndForget \/ \E r \in Rooms : SessionArchive(r) \/ SessionDelete(r)
  BY <1>7, LinkSessions
<1>8. ASSUME NEW t \in Tasks, Fails(t) PROVE LinkInv'
  BY <1>8, LinkRefused
<1>9. ASSUME NEW f \in {"space", "control"}, BotIsOut(f) PROVE LinkInv'
  <2>1. f \in Faults
    BY <1>9 DEF BotIsOut, Fault
  <2>2. QED
    BY <1>9, <2>1, LinkSessions
<1>10. CASE UNCHANGED vars
  <2>1. UNCHANGED <<room, workspace, task>>
    BY <1>10 DEF vars, serverVars, fileVars
  <2>2. QED
    BY <2>1, LinkUntouched
<1>11. QED
  BY <1>2, <1>3, <1>4, <1>5, <1>6, <1>7, <1>8, <1>9, <1>10 DEF Next

LEMMA InitLinked ==
  ASSUME SetupAssumption, Init
  PROVE  LinkInv
BY DEF Init, LinkInv, WorkspaceLinked, NoRoom, Idle, Task, SetupAssumption, Kinds

\* saveRooms (rooms.ts) is called only with a control room that linkChild has linked both
\* ways to the space beside it, and nothing unlinks it; unless the bot loses its space, the
\* workspace on file is one.
THEOREM ControlRoomLinked == "space" \notin Faults => (Spec => []WorkspaceLinked)
<1> SUFFICES ASSUME "space" \notin Faults PROVE Spec => []WorkspaceLinked
  OBVIOUS
<1>1. Init => LinkInv
  BY InitLinked, SetupAssumption
<1>2. IInv /\ LinkInv /\ [Next]_vars => LinkInv'
  BY NextLinked, SetupAssumption
<1>3. LinkInv => WorkspaceLinked
  BY DEF LinkInv
<1>4. QED
  BY <1>1, <1>2, <1>3, Invariance, PTL DEF Spec

-----------------------------------------------------------------------------
(* A room too many has a cause, if tasks do not overlap and the bot keeps its space. *)

Sole == "overlap" \notin Faults /\ "space" \notin Faults
Counted == {"space", "control", "starter"}

\* The next request of task t creates a room of kind k for bot b.
Makes(t, b, k) ==
    /\ task[t].bot = b
    /\ \/ k = "space" /\ task[t].at = "space"
       \/ k = "control" /\ task[t].at = "control"
       \/ k = "starter" /\ task[t].at = "session" /\ t # "command"

\* Task t has created one, or is about to, and has not recorded it.
Links(t, k) == task[t].at \in {"child", "parent"} /\ room[task[t].room].kind = k
WorksOn(t, b, k) ==
    \/ Makes(t, b, k)
    \/ task[t].bot = b /\ Links(t, k)
    \/ k = "space" /\ (Makes(t, b, "control") \/ (task[t].bot = b /\ Links(t, "control")))

\* One is recorded, and of use.
OnFile(b, k) ==
    \/ k = "space" /\ workspace # None /\ room[workspace.space].bot = b
    \/ k = "control" /\ workspace # None /\ room[workspace.control].bot = b
                     /\ room[workspace.control].in
    \/ k = "starter" /\ onboarded[b] # None

Held(b, k) == OnFile(b, k) \/ \E t \in Tasks : WorksOn(t, b, k)

\* Besides the room that is held, there is one for every failure and every reset.
Balance ==
    \A b \in Bots, k \in Counted :
       Of(b, k) + (IF \E t \in Tasks : Makes(t, b, k) THEN 1 ELSE 0)
          =< spent.failures + spent.resets + (IF Held(b, k) THEN 1 ELSE 0)

\* Only one task is under way; ...
Alone(t) == \A s \in Tasks \ {t} : task[s].at = "idle"
OneAtATime == \A t \in Tasks : task[t].at # "idle" => Alone(t)

\* ... it is about the identity on file if it is setup, which creates a space only when
\* no workspace is on file; the room it links is there, and not on file already.
ActiveOK(t) ==
    /\ task[t].at = "mint" => creds = None
    /\ t = "setup" /\ task[t].at \notin {"idle", "mint"} => task[t].bot = creds
    /\ t = "setup" /\ task[t].at = "space" => workspace = None
    /\ task[t].at \in {"child", "parent"} =>
          /\ room[task[t].room].in
          /\ workspace # None => task[t].room # workspace.control
          /\ room[task[t].room].kind = "control" => t = "setup"

\* The workspace on file is that of the identity on file.
FileCred == workspace # None => creds # None /\ room[workspace.space].bot = creds

CauseInv ==
    /\ OneAtATime /\ (\A t \in Tasks : ActiveOK(t)) /\ FileCred
    /\ Balance

-----------------------------------------------------------------------------
(* Counting rooms. *)

LEMMA CountTyped ==
  ASSUME SetupAssumption, NEW b, NEW k
  PROVE  IsFiniteSet({r \in Rooms : room[r].kind = k /\ room[r].bot = b}) /\ Of(b, k) \in Nat
<1>1. IsFiniteSet(Rooms)
  BY FS_Interval DEF SetupAssumption, Rooms
<1>2. {r \in Rooms : room[r].kind = k /\ room[r].bot = b} \in SUBSET Rooms
  OBVIOUS
<1>3. IsFiniteSet({r \in Rooms : room[r].kind = k /\ room[r].bot = b})
  BY <1>1, <1>2, FS_Subset
<1>4. QED
  BY <1>3, FS_CardinalityType DEF Of

\* No room is created.
NoneCreated == \A r \in Rooms : room'[r].kind = room[r].kind /\ room'[r].bot = room[r].bot

LEMMA SameCount ==
  ASSUME NoneCreated, NEW b, NEW k
  PROVE  Of(b, k)' = Of(b, k)
<1>1. {r \in Rooms : room'[r].kind = k /\ room'[r].bot = b}
        = {r \in Rooms : room[r].kind = k /\ room[r].bot = b}
  BY DEF NoneCreated
<1>2. QED
  BY <1>1 DEF Of

LEMMA NewCount ==
  ASSUME SetupAssumption, NEW kind \in Kinds, NEW STATE x, x \in Rooms, room[x].kind = None,
         \A r \in Rooms \ {x} : room'[r] = room[r], room'[x].kind = kind,
         NEW b, NEW k \in Kinds
  PROVE  Of(b, k)' = IF k = kind /\ room'[x].bot = b THEN Of(b, k) + 1 ELSE Of(b, k)
<1> DEFINE S == {r \in Rooms : room[r].kind = k /\ room[r].bot = b}
           T == {r \in Rooms : room'[r].kind = k /\ room'[r].bot = b}
<1>1. x \notin S
  BY Nones
<1>2. CASE k = kind /\ room'[x].bot = b
  <2>1. T = S \cup {x}
    BY <1>1, <1>2
  <2>2. IsFiniteSet(S)
    BY CountTyped
  <2>4. Cardinality(S \cup {x}) = Cardinality(S) + 1
    <3> HIDE DEF S
    <3> QED
      BY <1>1, <2>2, FS_AddElement
  <2>3. QED
    BY <1>2, <2>1, <2>4 DEF Of
<1>3. CASE ~(k = kind /\ room'[x].bot = b)
  <2>1. T = S
    BY <1>1, <1>3
  <2>2. QED
    BY <1>3, <2>1 DEF Of
<1>4. QED
  BY <1>2, <1>3

\* One more room needs a request that makes it; one request more, that no room is held; and
\* a room that is held is lost at the price of a failure or a reset.
LEMMA Books ==
  ASSUME NEW n \in Nat, NEW m \in Nat, NEW c \in Nat, NEW d \in Nat,
         NEW A \in BOOLEAN, NEW B \in BOOLEAN, NEW H \in BOOLEAN, NEW G \in BOOLEAN,
         n + (IF A THEN 1 ELSE 0) =< c + (IF H THEN 1 ELSE 0),
         m = n \/ (m = n + 1 /\ A /\ ~B),
         B => A \/ (~H /\ G), (H => G) \/ d >= c + 1, d >= c
  PROVE  m + (IF B THEN 1 ELSE 0) =< d + (IF G THEN 1 ELSE 0)
OBVIOUS

Charged == spent'.failures + spent'.resets >= spent.failures + spent.resets + 1
Uncharged == spent'.failures = spent.failures /\ spent'.resets = spent.resets

Accounted(t, b, k) ==
    /\ Of(b, k)' = Of(b, k) \/ (Of(b, k)' = Of(b, k) + 1 /\ Makes(t, b, k) /\ ~Makes(t, b, k)')
    /\ Makes(t, b, k)' => Makes(t, b, k) \/ ~Held(b, k)
    /\ (Held(b, k) => Held(b, k)') \/ Charged

-----------------------------------------------------------------------------
(* One task at a time. *)

LEMMA IdleWorksNot ==
  ASSUME NEW t \in Tasks, NEW b, NEW k
  PROVE  /\ task[t].at = "idle" => ~WorksOn(t, b, k) /\ ~Makes(t, b, k)
         /\ task'[t].at = "idle" => ~WorksOn(t, b, k)' /\ ~Makes(t, b, k)'
BY DEF WorksOn, Makes, Links

LEMMA OnlyOne ==
  ASSUME NEW t \in Tasks, NEW b, NEW k
  PROVE  /\ Alone(t) => /\ (\E s \in Tasks : Makes(s, b, k)) <=> Makes(t, b, k)
                        /\ Held(b, k) <=> OnFile(b, k) \/ WorksOn(t, b, k)
         /\ Alone(t)' => /\ (\E s \in Tasks : Makes(s, b, k)') <=> Makes(t, b, k)'
                         /\ Held(b, k)' <=> OnFile(b, k)' \/ WorksOn(t, b, k)'
<1>1. \A s \in Tasks \ {t} : Alone(t) => ~WorksOn(s, b, k) /\ ~Makes(s, b, k)
  BY IdleWorksNot DEF Alone
<1>2. \A s \in Tasks \ {t} : Alone(t)' => ~WorksOn(s, b, k)' /\ ~Makes(s, b, k)'
  BY IdleWorksNot DEF Alone
<1>3. Held(b, k)' <=> OnFile(b, k)' \/ \E s \in Tasks : WorksOn(s, b, k)'
  BY DEF Held
<1>4. QED
  BY <1>1, <1>2, <1>3 DEF Held

LEMMA AloneGoes ==
  ASSUME NEW t \in Tasks, Alone(t), \A s \in Tasks \ {t} : task'[s] = task[s]
  PROVE  Alone(t)' /\ OneAtATime'
BY DEF Alone, OneAtATime

LEMMA BalanceStep ==
  ASSUME SetupAssumption, TypeOK, TypeOK', Balance, NEW t \in Tasks, Alone(t), Alone(t)',
         Charged \/ Uncharged, \A b \in Bots, k \in Counted : Accounted(t, b, k)
  PROVE  Balance'
<1> SUFFICES ASSUME NEW b \in Bots, NEW k \in Counted
             PROVE  Of(b, k)' + (IF \E s \in Tasks : Makes(s, b, k)' THEN 1 ELSE 0)
                      =< spent'.failures + spent'.resets + (IF Held(b, k)' THEN 1 ELSE 0)
  BY DEF Balance
<1>1. /\ spent.failures \in Nat /\ spent.resets \in Nat
      /\ spent'.failures \in Nat /\ spent'.resets \in Nat
  BY DEF TypeOK, SetupAssumption
<1>2. Of(b, k) \in Nat
  BY CountTyped
<1>3. Of(b, k)' \in Nat
  BY <1>2 DEF Accounted
<1> DEFINE A == Makes(t, b, k)
           B == Makes(t, b, k)'
           H == Held(b, k)
           G == Held(b, k)'
           c == spent.failures + spent.resets
           d == spent'.failures + spent'.resets
<1>4. c \in Nat /\ d \in Nat /\ d >= c /\ (Charged <=> d >= c + 1)
  BY <1>1 DEF Charged, Uncharged
<1>5. Of(b, k) + (IF A THEN 1 ELSE 0) =< c + (IF H THEN 1 ELSE 0)
  BY OnlyOne DEF Balance
<1>6. B => G
  BY OnlyOne DEF WorksOn
<1>7. /\ Of(b, k)' = Of(b, k) \/ (Of(b, k)' = Of(b, k) + 1 /\ A /\ ~B)
      /\ B => A \/ (~H /\ G)
      /\ (H => G) \/ d >= c + 1
  BY <1>4, <1>6 DEF Accounted
<1>8. A \in BOOLEAN /\ B \in BOOLEAN /\ H \in BOOLEAN /\ G \in BOOLEAN
  BY DEF Makes, Held
<1> HIDE DEF A, B, H, G, c, d
<1>9. Of(b, k)' + (IF B THEN 1 ELSE 0) =< d + (IF G THEN 1 ELSE 0)
  BY <1>2, <1>3, <1>4, <1>5, <1>7, <1>8, Books
<1>10. QED
  BY <1>9, OnlyOne DEF B, G, d

LEMMA CauseGoes ==
  ASSUME SetupAssumption, IInv, TypeOK', CauseInv, NEW t \in Tasks, Alone(t),
         \A s \in Tasks \ {t} : task'[s] = task[s], ActiveOK(t)', FileCred',
         Charged \/ Uncharged, \A b \in Bots, k \in Counted : Accounted(t, b, k)
  PROVE  CauseInv'
<1>1. Alone(t)' /\ OneAtATime'
  BY AloneGoes
<1>2. Balance'
  BY <1>1, BalanceStep DEF CauseInv, IInv
<1>3. ASSUME NEW s \in Tasks PROVE ActiveOK(s)'
  <2>1. CASE s = t
    BY <2>1
  <2>2. CASE s # t
    BY <1>1, <2>2 DEF Alone, ActiveOK
  <2>3. QED
    BY <2>1, <2>2
<1>4. QED
  BY <1>1, <1>2, <1>3 DEF CauseInv

\* What is on file stays of use.
ControlIn == \A r \in Rooms : room[r].kind = "control" => room'[r].in = room[r].in

LEMMA OnFileSame ==
  ASSUME SetupAssumption, IInv, Kept, ControlIn, UNCHANGED <<workspace, onboarded>>, NEW b, NEW k
  PROVE  OnFile(b, k)' <=> OnFile(b, k)
<1>1. workspace # None => /\ workspace.space \in Rooms /\ workspace.control \in Rooms
                          /\ room[workspace.space].kind # None
                          /\ room[workspace.control].kind # None
                          /\ room[workspace.control].kind = "control"
  BY Nones DEF IInv, TypeOK, FileInv, Kinds
<1>2. workspace # None => /\ room'[workspace.space].bot = room[workspace.space].bot
                          /\ room'[workspace.control].bot = room[workspace.control].bot
                          /\ room'[workspace.control].in = room[workspace.control].in
  BY <1>1 DEF Kept, ControlIn
<1>3. QED
  BY <1>2 DEF OnFile

LEMMA FileCredKept ==
  ASSUME SetupAssumption, IInv, FileCred, Kept, UNCHANGED <<workspace, creds>>
  PROVE  FileCred'
<1>1. workspace # None => workspace.space \in Rooms /\ room[workspace.space].kind # None
  BY Nones DEF IInv, TypeOK, FileInv, Kinds
<1>2. QED
  BY <1>1 DEF Kept, FileCred

LEMMA FaultCharged ==
  ASSUME SetupAssumption, TypeOK, NEW f, Fault(f)
  PROVE  Charged
<1>1. spent.failures \in Nat /\ spent.resets \in Nat
  BY DEF TypeOK, SetupAssumption
<1>2. spent'.failures = spent.failures + 1 /\ spent'.resets = spent.resets
  BY DEF TypeOK, Fault
<1>3. QED
  BY <1>1, <1>2 DEF Charged

LEMMA IdleActiveOK ==
  ASSUME NEW t \in Tasks, task'[t].at = "idle"
  PROVE  ActiveOK(t)'
BY DEF ActiveOK

\* A task ends, at the price of a failure.
LEMMA EndCharged ==
  ASSUME SetupAssumption, IInv, TypeOK', CauseInv, NEW t \in Tasks, Alone(t),
         task' = [task EXCEPT ![t] = Idle], NEW f, Fault(f), Kept,
         UNCHANGED <<workspace, creds>>,
         \A b \in Bots, k \in Counted :
            Of(b, k)' = Of(b, k) \/ (Of(b, k)' = Of(b, k) + 1 /\ Makes(t, b, k))
  PROVE  CauseInv'
<1>1. task'[t].at = "idle" /\ \A s \in Tasks \ {t} : task'[s] = task[s]
  BY DEF IInv, TypeOK, Idle, Task
<1>2. ActiveOK(t)' /\ FileCred' /\ Charged
  BY <1>1, IdleActiveOK, FileCredKept, FaultCharged DEF IInv, CauseInv
<1>3. \A b \in Bots, k \in Counted : Accounted(t, b, k)
  BY <1>1, <1>2, IdleWorksNot DEF Accounted
<1>4. QED
  BY <1>1, <1>2, <1>3, CauseGoes

\* A step that has to do with no room that is counted.
LEMMA QuietGoes ==
  ASSUME SetupAssumption, IInv, TypeOK', CauseInv, NEW t \in Tasks, Alone(t),
         \A s \in Tasks \ {t} : task'[s] = task[s],
         NoneCreated, Kept, ControlIn, UNCHANGED <<workspace, onboarded>>, Uncharged,
         \A b \in Bots, k \in Counted : ~WorksOn(t, b, k) /\ ~WorksOn(t, b, k)',
         ActiveOK(t)', FileCred'
  PROVE  CauseInv'
<1>1. Alone(t)'
  BY AloneGoes
<1>2. ASSUME NEW b \in Bots, NEW k \in Counted PROVE Accounted(t, b, k)
  <2>1. Of(b, k)' = Of(b, k)
    BY SameCount
  <2>2. ~Makes(t, b, k)'
    BY DEF WorksOn
  <2>3. Held(b, k) => Held(b, k)'
    BY <1>1, OnFileSame, OnlyOne
  <2>4. QED
    BY <2>1, <2>2, <2>3 DEF Accounted
<1>3. QED
  BY <1>2, CauseGoes

\* A task that begins to make a room when none is held, or does not begin to.
LEMMA BeginsToMake ==
  ASSUME SetupAssumption, IInv, TypeOK', CauseInv, NEW t \in Tasks, Alone(t),
         \A s \in Tasks \ {t} : task'[s] = task[s],
         NoneCreated, Kept, ControlIn, UNCHANGED <<workspace, onboarded, creds>>, Uncharged,
         \A b \in Bots, k \in Counted : ~WorksOn(t, b, k),
         \A b \in Bots, k \in Counted : Makes(t, b, k)' => ~OnFile(b, k),
         ActiveOK(t)'
  PROVE  CauseInv'
<1>1. Alone(t)' /\ FileCred'
  BY AloneGoes, FileCredKept DEF CauseInv
<1>2. ASSUME NEW b \in Bots, NEW k \in Counted PROVE Accounted(t, b, k)
  <2>1. Of(b, k)' = Of(b, k)
    BY SameCount
  <2>2. Makes(t, b, k)' => ~Held(b, k)
    BY OnlyOne
  <2>3. Held(b, k) => Held(b, k)'
    BY <1>1, OnFileSame, OnlyOne
  <2>4. QED
    BY <2>1, <2>2, <2>3 DEF Accounted
<1>3. QED
  BY <1>1, <1>2, CauseGoes

LEMMA MayStartAlone ==
  ASSUME Sole, NEW t \in Tasks, MayStart(t)
  PROVE  Alone(t) /\ task[t].at = "idle"
BY DEF Sole, MayStart, Alone

LEMMA ActiveAlone ==
  ASSUME CauseInv, NEW t \in Tasks, task[t].at # "idle"
  PROVE  Alone(t)
BY DEF CauseInv, OneAtATime

LEMMA SomeAlone ==
  ASSUME CauseInv
  PROVE  \E t \in Tasks : Alone(t)
<1>1. "setup" \in Tasks
  BY DEF Tasks
<1>2. CASE \E t \in Tasks : task[t].at # "idle"
  BY <1>2, ActiveAlone
<1>3. CASE \A t \in Tasks : task[t].at = "idle"
  BY <1>1, <1>3 DEF Alone
<1>4. QED
  BY <1>2, <1>3

LEMMA RoomsUntouched ==
  ASSUME SetupAssumption, IInv, UNCHANGED room
  PROVE  NoneCreated /\ Kept /\ ControlIn
BY RoomsSame DEF IInv, NoneCreated, ControlIn

\* The stages at which a task may work on a room that is counted.
Working == {"space", "control", "session", "child", "parent"}

LEMMA AtRest ==
  ASSUME NEW t \in Tasks, NEW b, NEW k
  PROVE  /\ task[t].at \notin Working => ~WorksOn(t, b, k)
         /\ task'[t].at \notin Working => ~WorksOn(t, b, k)'
BY DEF Working, WorksOn, Makes, Links

LEMMA CauseFails ==
  ASSUME SetupAssumption, IInv, TypeOK', CauseInv, NEW t \in Tasks, Fails(t)
  PROVE  CauseInv'
<1>1. /\ UNCHANGED <<room, workspace, creds>> /\ Fault("request") /\ Alone(t)
      /\ task' = [task EXCEPT ![t] = Idle]
  BY ActiveAlone DEF Fails, serverVars, fileVars
<1>2. NoneCreated /\ Kept
  BY <1>1, RoomsUntouched
<1>3. QED
  BY <1>1, <1>2, SameCount, EndCharged

\* A task of setup or migrate goes on without working on a room.
LEMMA RestGoes ==
  ASSUME SetupAssumption, IInv, TypeOK', CauseInv, NEW t \in Tasks, Alone(t),
         task[t].at \notin Working, NEW STATE k, k.at \notin Working,
         task' = [task EXCEPT ![t] = k], UNCHANGED <<room, workspace, onboarded>>, Uncharged,
         FileCred', ActiveOK(t)'
  PROVE  CauseInv'
<1>1. task'[t] = k /\ \A s \in Tasks \ {t} : task'[s] = task[s]
  BY DEF IInv, TypeOK
<1>2. NoneCreated /\ Kept /\ ControlIn
  BY RoomsUntouched
<1>3. \A b \in Bots, q \in Counted : ~WorksOn(t, b, q) /\ ~WorksOn(t, b, q)'
  BY <1>1, AtRest
<1>4. QED
  BY <1>1, <1>2, <1>3, QuietGoes

LEMMA CauseBeginSetup ==
  ASSUME SetupAssumption, Sole, IInv, TypeOK', CauseInv, BeginSetup
  PROVE  CauseInv'
<1> DEFINE t == "setup"
           k == Task(IF creds = None THEN "mint" ELSE "user", creds, None, None, None)
<1>1. t \in Tasks
  BY DEF Tasks
<1>2. /\ task' = [task EXCEPT ![t] = k] /\ Uncharged
      /\ UNCHANGED <<room, workspace, onboarded, creds>>
      /\ k.at = (IF creds = None THEN "mint" ELSE "user") /\ k.bot = creds
  BY DEF BeginSetup, resolveChat4000Account, serverVars, fileVars, Uncharged, Task
<1>3. Alone(t) /\ task[t].at \notin Working /\ k.at \notin Working
  BY <1>1, <1>2, MayStartAlone DEF BeginSetup, Working
<1> HIDE DEF k
<1>4. task'[t] = k
  BY <1>1, <1>2 DEF IInv, TypeOK
<1>5. ActiveOK(t)'
  BY <1>2, <1>4 DEF ActiveOK
<1>6. FileCred'
  BY <1>2, RoomsUntouched, FileCredKept DEF CauseInv
<1>7. QED
  BY <1>1, <1>2, <1>3, <1>5, <1>6, RestGoes

LEMMA CauseProvision ==
  ASSUME SetupAssumption, IInv, TypeOK', CauseInv, NEW t \in Tasks, provisionBot(t)
  PROVE  CauseInv'
<1> DEFINE k == Task(IF t = "setup" THEN "user" ELSE "config", bots + 1, None, None, None)
<1>1. /\ UNCHANGED <<room, workspace, onboarded>> /\ Alone(t) /\ task[t].at = "mint"
  BY ActiveAlone DEF provisionBot
<1>2. CASE Fault("request") /\ task' = [task EXCEPT ![t] = Idle] /\ UNCHANGED creds
  BY <1>1, <1>2, RoomsUntouched, SameCount, EndCharged
<1>3. CASE creds' = bots + 1 /\ task' = [task EXCEPT ![t] = k] /\ UNCHANGED spent
  <2>1. k.at \in {"user", "config"} /\ k.bot = bots + 1 /\ Uncharged
    BY <1>3 DEF Task, Uncharged
  <2> HIDE DEF k
  <2>2. task'[t] = k
    BY <1>3 DEF IInv, TypeOK
  <2>3. ActiveOK(t)'
    BY <1>3, <2>1, <2>2 DEF ActiveOK
  <2>4. FileCred'
    BY <1>1 DEF CauseInv, ActiveOK, FileCred
  <2>5. QED
    BY <1>1, <1>3, <2>1, <2>3, <2>4, RestGoes DEF Working
<1>4. QED
  BY <1>2, <1>3 DEF provisionBot

LEMMA CauseEnsureUser ==
  ASSUME SetupAssumption, IInv, TypeOK', CauseInv, ensureUser
  PROVE  CauseInv'
<1> DEFINE t == "setup"
           k == [task[t] EXCEPT !.at = "joined"]
<1>1. /\ UNCHANGED <<room, workspace, onboarded, creds>> /\ task[t].at = "user" /\ t \in Tasks
  BY DEF ensureUser, fileVars, Tasks
<1>2. Alone(t)
  BY <1>1, ActiveAlone
<1>3. CASE Fault("request") /\ task' = [task EXCEPT ![t] = Idle]
  BY <1>1, <1>2, <1>3, RoomsUntouched, SameCount, EndCharged
<1>4. CASE task' = [task EXCEPT ![t] = k] /\ UNCHANGED spent
  <2>1. k.at = "joined" /\ k.bot = task[t].bot /\ Uncharged
    BY <1>1, <1>4, TaskType DEF IInv, TaskRecords, Uncharged
  <2> HIDE DEF k
  <2>2. task'[t] = k
    BY <1>1, <1>4 DEF IInv, TypeOK
  <2>3. ActiveOK(t)'
    BY <1>1, <2>1, <2>2 DEF CauseInv, ActiveOK
  <2>4. FileCred'
    BY <1>1, RoomsUntouched, FileCredKept DEF CauseInv
  <2>5. QED
    BY <1>1, <1>2, <1>4, <2>1, <2>3, <2>4, RestGoes DEF Working
<1>5. QED
  BY <1>3, <1>4 DEF ensureUser, Answered

LEMMA CauseConfig ==
  ASSUME SetupAssumption, IInv, TypeOK', CauseInv, NEW t \in Tasks, writeChannelConfig(t)
  PROVE  CauseInv'
<1>1. /\ UNCHANGED <<room, workspace, onboarded, creds>> /\ task[t].at = "config" /\ Uncharged
      /\ task' = [task EXCEPT ![t] = Idle] /\ Idle.at = "idle"
  BY DEF writeChannelConfig, serverVars, Uncharged, Idle, Task
<1>2. Alone(t) /\ task'[t].at = "idle"
  BY <1>1, ActiveAlone DEF IInv, TypeOK
<1>3. ActiveOK(t)' /\ FileCred'
  BY <1>1, <1>2, IdleActiveOK, RoomsUntouched, FileCredKept DEF CauseInv
<1>4. QED
  BY <1>1, <1>2, <1>3, RestGoes DEF Working

LEMMA CauseMigration ==
  ASSUME SetupAssumption, Sole, IInv, TypeOK', CauseInv, runMigration
  PROVE  CauseInv'
<1> DEFINE t == "migrate"
           k == Task(IF creds = None THEN "mint" ELSE "config", creds, None, None, None)
<1>1. /\ t \in Tasks /\ t # "setup" /\ Uncharged
      /\ UNCHANGED <<room, workspace, onboarded, creds>>
  BY DEF Tasks, runMigration, serverVars, Uncharged
<1>2. Alone(t) /\ task[t].at \notin Working
  BY <1>1, MayStartAlone DEF runMigration, Working
<1>3. FileCred'
  BY <1>1, RoomsUntouched, FileCredKept DEF CauseInv
<1>4. k.at = (IF creds = None THEN "mint" ELSE "config")
  BY DEF Task
<1>5. PICK l \in {k, task[t]} : task' = [task EXCEPT ![t] = l]
  <2>1. task' = [task EXCEPT ![t] = k] \/ UNCHANGED task
    BY DEF runMigration, resolveChat4000Account
  <2>2. task = [task EXCEPT ![t] = task[t]]
    BY <1>1 DEF IInv, TypeOK
  <2>3. QED
    BY <2>1, <2>2
<1>6. l.at \notin Working
  BY <1>2, <1>4, <1>5 DEF Working
<1> HIDE DEF k
<1>7. task'[t] = l
  BY <1>1, <1>5 DEF IInv, TypeOK
<1>8. ActiveOK(t)'
  BY <1>1, <1>4, <1>5, <1>6, <1>7 DEF CauseInv, ActiveOK, Working
<1>9. QED
  BY <1>1, <1>2, <1>3, <1>5, <1>6, <1>8, RestGoes

\* A step that leaves the tasks alone and creates no room.
LEMMA TasksUntouched ==
  ASSUME SetupAssumption, IInv, TypeOK', CauseInv, UNCHANGED <<task, workspace, onboarded, creds>>,
         NoneCreated, Kept, ControlIn, Charged \/ Uncharged,
         \A t \in Tasks : task[t].at \in {"child", "parent"}
            => room'[task[t].room].in = room[task[t].room].in
  PROVE  CauseInv'
<1>1. PICK t \in Tasks : Alone(t)
  BY SomeAlone
<1>2. task[t].at \in {"child", "parent"} => task[t].room \in Rooms
  BY TaskType DEF IInv, OwnInv, OwnOK
<1>3. Alone(t)' /\ FileCred'
  BY <1>1, AloneGoes, FileCredKept DEF CauseInv
<1>4. ASSUME NEW b \in Bots, NEW k \in Counted PROVE Accounted(t, b, k)
  <2>1. Of(b, k)' = Of(b, k) /\ (OnFile(b, k)' <=> OnFile(b, k))
    BY SameCount, OnFileSame
  <2>2. Makes(t, b, k)' <=> Makes(t, b, k)
    BY DEF Makes
  <2>3. WorksOn(t, b, k)' <=> WorksOn(t, b, k)
    BY <1>2 DEF WorksOn, Makes, Links, NoneCreated
  <2>4. Held(b, k) => Held(b, k)'
    BY <1>1, <1>3, <2>1, <2>3, OnlyOne
  <2>5. QED
    BY <2>1, <2>2, <2>4 DEF Accounted
<1>5. ActiveOK(t)'
  BY <1>2 DEF CauseInv, ActiveOK, NoneCreated
<1>6. QED
  BY <1>1, <1>3, <1>4, <1>5, CauseGoes

LEMMA CauseStutters ==
  ASSUME SetupAssumption, IInv, TypeOK', CauseInv,
         UNCHANGED <<task, room, workspace, onboarded, creds>>, Charged \/ Uncharged
  PROVE  CauseInv'
BY RoomsUntouched, TasksUntouched

LEMMA CauseReset ==
  ASSUME SetupAssumption, Sole, IInv, TypeOK', CauseInv, runReset
  PROVE  CauseInv'
<1>1. PICK t \in Tasks : Alone(t)
  BY SomeAlone
<1>2. /\ \A s \in Tasks : task[s].at = "idle"
      /\ UNCHANGED <<room, task>> /\ workspace' = None
      /\ spent' = [spent EXCEPT !.resets = @ + 1]
  BY DEF runReset, Sole, serverVars, Idle, Task
<1>3. Charged
  <2>1. spent.failures \in Nat /\ spent.resets \in Nat
    BY DEF IInv, TypeOK, SetupAssumption
  <2>2. spent'.failures = spent.failures /\ spent'.resets = spent.resets + 1
    BY <1>2 DEF IInv, TypeOK
  <2>3. QED
    BY <2>1, <2>2 DEF Charged
<1>4. ActiveOK(t)' /\ FileCred'
  BY <1>2, IdleActiveOK DEF FileCred
<1>5. \A b \in Bots, k \in Counted : Accounted(t, b, k)
  BY <1>2, <1>3, RoomsUntouched, SameCount, IdleWorksNot DEF Accounted
<1>6. QED
  BY <1>1, <1>2, <1>3, <1>4, <1>5, CauseGoes

\* A room is left, or unlinked.
LEMMA OneRoomOut ==
  ASSUME IInv, NEW STATE x, x \in Rooms, NEW STATE y,
         y.kind = room[x].kind, y.bot = room[x].bot, y.parent = room[x].parent,
         room' = [room EXCEPT ![x] = y]
  PROVE  \A r \in Rooms : /\ room'[r].kind = room[r].kind /\ room'[r].bot = room[r].bot
                          /\ room'[r].parent = room[r].parent
                          /\ r # x => room'[r].in = room[r].in
BY DEF IInv, TypeOK

LEMMA RoomOut ==
  ASSUME IInv, NEW STATE x, x \in Rooms
  PROVE  /\ LET y == [room[x] EXCEPT !.in = FALSE]
            IN y.kind = room[x].kind /\ y.bot = room[x].bot /\ y.parent = room[x].parent
         /\ LET y == [room[x] EXCEPT !.child = None]
            IN y.kind = room[x].kind /\ y.bot = room[x].bot /\ y.parent = room[x].parent
BY RoomType DEF IInv, RoomRecords

LEMMA CauseBotIsOut ==
  ASSUME SetupAssumption, IInv, TypeOK', CauseInv, BotIsOut("control")
  PROVE  CauseInv'
<1>1. /\ room' = [room EXCEPT ![workspace.control].in = FALSE] /\ workspace # None
      /\ Fault("control") /\ UNCHANGED <<workspace, onboarded, creds, task>>
  BY DEF BotIsOut, fileVars
<1>2. PICK t \in Tasks : Alone(t)
  BY SomeAlone
<1>3. workspace.control \in Rooms
  BY <1>1 DEF IInv, TypeOK
<1>4. \A r \in Rooms : /\ room'[r].kind = room[r].kind /\ room'[r].bot = room[r].bot
                       /\ room'[r].parent = room[r].parent
                       /\ r # workspace.control => room'[r].in = room[r].in
  <2> DEFINE y == [room[workspace.control] EXCEPT !.in = FALSE]
  <2>1. room' = [room EXCEPT ![workspace.control] = y]
    BY <1>1
  <2>2. /\ y.kind = room[workspace.control].kind /\ y.bot = room[workspace.control].bot
        /\ y.parent = room[workspace.control].parent
    BY <1>3, RoomOut
  <2> HIDE DEF y
  <2>3. QED
    BY <1>3, <2>1, <2>2, OneRoomOut
<1>5. NoneCreated /\ Kept
  BY <1>4 DEF NoneCreated, Kept
<1>6. FileCred' /\ Charged
  BY <1>1, <1>5, FileCredKept, FaultCharged DEF IInv, CauseInv
<1>7. task[t].at \in {"child", "parent"} => task[t].room \in Rooms
  BY TaskType DEF IInv, OwnInv, OwnOK
<1>8. ActiveOK(t)'
  BY <1>1, <1>4, <1>7 DEF CauseInv, ActiveOK
<1>9. ASSUME NEW b \in Bots, NEW k \in Counted PROVE Accounted(t, b, k)
  <2>1. Of(b, k)' = Of(b, k)
    BY <1>5, SameCount
  <2>2. Makes(t, b, k)' => Makes(t, b, k)
    BY <1>1 DEF Makes
  <2>3. QED
    BY <1>6, <2>1, <2>2 DEF Accounted
<1>10. QED
  BY <1>1, <1>2, <1>6, <1>8, <1>9, CauseGoes

\* A session is archived or deleted, and left.
LEMMA CauseSessions ==
  ASSUME SetupAssumption, Sole, IInv, TypeOK', CauseInv,
         \/ LeaveAndForget
         \/ \E r \in Rooms : SessionArchive(r) \/ SessionDelete(r)
  PROVE  CauseInv'
<1> DEFINE t == "command"
<1>1. t \in Tasks /\ t # "setup" /\ UNCHANGED <<workspace, onboarded, creds>>
  BY DEF Tasks, InGateway, LeaveAndForget, SessionArchive, SessionDelete, fileVars
<1>2. Alone(t) /\ task[t].at \in {"idle", "leave"}
  BY <1>1, ActiveAlone, MayStartAlone DEF LeaveAndForget, SessionArchive, SessionDelete
<1>3. Uncharged
  BY DEF LeaveAndForget, SessionArchive, SessionDelete, Commanded, Uncharged, IInv, TypeOK
<1>4. /\ \A s \in Tasks \ {t} : task'[s] = task[s]
      /\ task'[t].at \in {"idle", "leave"}
  BY <1>1, <1>2 DEF LeaveAndForget, SessionArchive, SessionDelete, IInv, TypeOK, Idle, Task
<1>5. NoneCreated /\ Kept /\ ControlIn
  <2>1. PICK x \in Rooms :
           /\ room[x].kind \in Session
           /\ \/ room' = [room EXCEPT ![x] = [room[x] EXCEPT !.in = FALSE]]
              \/ room' = [room EXCEPT ![x] = [room[x] EXCEPT !.child = None]]
    <3>1. CASE LeaveAndForget
      <4>1. task[t].room \in Rooms /\ room[task[t].room].kind \in Session
        BY <1>1, <3>1, TaskType DEF LeaveAndForget, IInv, OwnInv, OwnOK
      <4>2. QED
        BY <3>1, <4>1 DEF LeaveAndForget
    <3>2. CASE \E r \in Rooms : SessionArchive(r) \/ SessionDelete(r)
      BY <3>2 DEF SessionArchive, SessionDelete, Listed, Session
    <3>3. QED
      BY <3>1, <3>2
  <2>2. \A r \in Rooms : /\ room'[r].kind = room[r].kind /\ room'[r].bot = room[r].bot
                         /\ room'[r].parent = room[r].parent
                         /\ r # x => room'[r].in = room[r].in
    <3> DEFINE y == [room[x] EXCEPT !.in = FALSE]
               z == [room[x] EXCEPT !.child = None]
    <3>1. room' = [room EXCEPT ![x] = y] \/ room' = [room EXCEPT ![x] = z]
      BY <2>1
    <3>2. /\ y.kind = room[x].kind /\ y.bot = room[x].bot /\ y.parent = room[x].parent
          /\ z.kind = room[x].kind /\ z.bot = room[x].bot /\ z.parent = room[x].parent
      BY RoomOut
    <3> HIDE DEF y, z
    <3>3. QED
      BY <3>1, <3>2, OneRoomOut
  <2>3. QED
    BY <2>1, <2>2 DEF NoneCreated, Kept, ControlIn, Session
<1>6. FileCred' /\ ActiveOK(t)'
  BY <1>1, <1>4, <1>5, FileCredKept DEF CauseInv, ActiveOK
<1>7. \A b \in Bots, q \in Counted : ~WorksOn(t, b, q) /\ ~WorksOn(t, b, q)'
  BY <1>1, <1>2, <1>4, AtRest DEF Working
<1>8. QED
  BY <1>1, <1>2, <1>3, <1>4, <1>5, <1>6, <1>7, QuietGoes

LEMMA CauseGatewayStarts ==
  ASSUME SetupAssumption, IInv, TypeOK', CauseInv, GatewayStarts
  PROVE  CauseInv'
BY CauseStutters DEF GatewayStarts, serverVars, fileVars, Uncharged

LEMMA CauseGatewayEnds ==
  ASSUME SetupAssumption, IInv, TypeOK', CauseInv, GatewayEnds
  PROVE  CauseInv'
<1>1. /\ UNCHANGED <<room, workspace, onboarded, creds>>
      /\ task' = [s \in Tasks |-> IF s \in InGateway THEN Idle ELSE task[s]]
      /\ (UNCHANGED spent /\ \A s \in InGateway : task[s] = Idle) \/ Fault("request")
  BY DEF GatewayEnds, serverVars, fileVars
<1>2. task = [s \in Tasks |-> task[s]]
  BY DEF IInv, TypeOK
<1>3. CASE UNCHANGED spent /\ \A s \in InGateway : task[s] = Idle
  <2>1. UNCHANGED task
    BY <1>1, <1>2, <1>3
  <2>2. QED
    BY <1>1, <1>3, <2>1, CauseStutters DEF Uncharged
<1>4. CASE Fault("request")
  <2>1. PICK t \in Tasks : Alone(t)
    BY SomeAlone
  <2>2. \A s \in Tasks \ {t} : task[s] = Idle
    BY <2>1 DEF Alone, IInv, FieldInv, FieldOK
  <2>3. CASE t \in InGateway
    <3>1. task' = [task EXCEPT ![t] = Idle]
      BY <1>1, <1>2, <2>2, <2>3
    <3>2. QED
      BY <1>1, <1>4, <2>1, <3>1, RoomsUntouched, SameCount, EndCharged
  <2>4. CASE t \notin InGateway
    <3>1. UNCHANGED task
      BY <1>1, <1>2, <2>2, <2>4
    <3>2. Charged
      BY <1>4, FaultCharged DEF IInv
    <3>3. QED
      BY <1>1, <3>1, <3>2, CauseStutters
  <2>5. QED
    BY <2>3, <2>4
<1>5. QED
  BY <1>1, <1>3, <1>4

LEMMA CauseSessionNew ==
  ASSUME SetupAssumption, Sole, IInv, TypeOK', CauseInv, SessionNew
  PROVE  CauseInv'
<1> DEFINE t == "command"
           n == Task("session", gateway.bot, gateway.space, None, None)
<1>1. /\ t \in Tasks /\ t # "setup" /\ UNCHANGED <<room, workspace, onboarded, creds>>
      /\ task' = [task EXCEPT ![t] = n] /\ n.at = "session"
  BY DEF Tasks, InGateway, SessionNew, serverVars, fileVars, Task
<1> HIDE DEF n
<1>2. Alone(t) /\ task[t].at = "idle"
  BY <1>1, MayStartAlone DEF SessionNew
<1>3. Uncharged
  BY DEF SessionNew, Commanded, Uncharged, IInv, TypeOK
<1>4. task'[t] = n /\ \A s \in Tasks \ {t} : task'[s] = task[s]
  BY <1>1 DEF IInv, TypeOK
<1>5. NoneCreated /\ Kept /\ ControlIn
  BY <1>1, RoomsUntouched
<1>6. FileCred' /\ ActiveOK(t)'
  BY <1>1, <1>4, <1>5, FileCredKept DEF CauseInv, ActiveOK
<1>7. \A b \in Bots, k \in Counted : ~WorksOn(t, b, k) /\ ~WorksOn(t, b, k)'
  BY <1>1, <1>2, <1>4 DEF WorksOn, Makes, Links
<1>8. QED
  BY <1>1, <1>2, <1>3, <1>4, <1>5, <1>6, <1>7, QuietGoes

\* ensureInitialSession makes a chat only for a user who has none on file.
LEMMA CauseInitial ==
  ASSUME SetupAssumption, IInv, TypeOK', CauseInv, NEW t \in Tasks, Alone(t),
         task[t].at \notin Working, NEW STATE tk, tk \in TaskRecords,
         ensureInitialSession(t, tk), NoneCreated, Kept, ControlIn,
         UNCHANGED <<workspace, onboarded, creds>>, Uncharged, t = "setup" => tk.bot = creds
  PROVE  CauseInv'
<1>1. PICK stage \in {"session", "config"} :
         \/ task' = [task EXCEPT ![t] = Idle]
         \/ /\ task' = [task EXCEPT ![t] = [tk EXCEPT !.at = stage]]
            /\ stage = "session" => onboarded[tk.bot] = None
  BY DEF ensureInitialSession, Afterwards
<1> DEFINE q == [tk EXCEPT !.at = stage]
<1>2. q.at = stage /\ q.bot = tk.bot
  BY DEF TaskRecords
<1>3. Idle.at = "idle"
  BY DEF Idle, Task
<1> HIDE DEF q
<1>4. /\ \A s \in Tasks \ {t} : task'[s] = task[s]
      /\ \/ task'[t] = Idle
         \/ task'[t] = q /\ (stage = "session" => onboarded[tk.bot] = None)
  BY <1>1 DEF IInv, TypeOK, q
<1>5. \A b \in Bots, k \in Counted : Makes(t, b, k)' => ~OnFile(b, k)
  BY <1>2, <1>3, <1>4 DEF Makes, OnFile
<1>6. ActiveOK(t)'
  BY <1>2, <1>3, <1>4 DEF ActiveOK
<1>7. QED
  BY <1>4, <1>5, <1>6, AtRest, BeginsToMake

LEMMA CauseLoads ==
  ASSUME SetupAssumption, Sole, IInv, TypeOK', CauseInv, LoadRooms \/ onDeviceRedeemed
  PROVE  CauseInv'
<1>1. {"boot", "redeem"} \subseteq Tasks /\ UNCHANGED <<room, workspace, onboarded, creds>>
      /\ Uncharged
  BY DEF Tasks, InGateway, LoadRooms, onDeviceRedeemed, serverVars, fileVars, Uncharged
<1>2. NoneCreated /\ Kept /\ ControlIn
  BY <1>1, RoomsUntouched
<1>3. CASE LoadRooms
  <2> DEFINE tk == Task("idle", gateway.bot, workspace.space, None, None)
  <2>1. tk \in TaskRecords
    BY <1>3 DEF LoadRooms, IInv, TypeOK, Task, TaskRecords, Stages
  <2>2. Alone("boot") /\ task["boot"].at \notin Working
    BY <1>1, <1>3, MayStartAlone DEF LoadRooms, Working
  <2>3. CASE ensureInitialSession("boot", tk)
    <3> HIDE DEF tk
    <3> QED
      BY <1>1, <1>2, <2>1, <2>2, <2>3, CauseInitial
  <2>4. CASE UNCHANGED task
    BY <1>1, <2>4, CauseStutters
  <2>5. QED
    BY <1>3, <2>3, <2>4 DEF LoadRooms
<1>4. CASE onDeviceRedeemed
  <2> DEFINE tk == Task("idle", gateway.bot, gateway.space, None, None)
  <2>1. tk \in TaskRecords
    BY DEF IInv, TypeOK, Task, TaskRecords, Stages
  <2>2. Alone("redeem") /\ task["redeem"].at \notin Working
    BY <1>1, <1>4, MayStartAlone DEF onDeviceRedeemed, Working
  <2>3. ensureInitialSession("redeem", tk)
    BY <1>4 DEF onDeviceRedeemed
  <2> HIDE DEF tk
  <2>4. QED
    BY <1>1, <1>2, <2>1, <2>2, <2>3, CauseInitial
<1>5. QED
  BY <1>3, <1>4

\* setup creates a space when no workspace is on file, and a control room when the one on
\* file is of no use.
LEMMA CauseJoined ==
  ASSUME SetupAssumption, IInv, TypeOK', LinkInv, CauseInv, JoinedRooms
  PROVE  CauseInv'
<1> DEFINE t == "setup"
           sp == IF workspace # None /\ Here(t, workspace.space) THEN workspace.space ELSE None
           co == IF workspace # None /\ Here(t, workspace.control) THEN workspace.control
                 ELSE None
           k(stage) == Task(stage, task[t].bot, sp, co, None)
<1>1. /\ t \in Tasks /\ UNCHANGED <<room, onboarded, creds>> /\ Uncharged
      /\ task[t].at = "joined"
  BY DEF Tasks, JoinedRooms, serverVars, Uncharged
<1>2. PICK next \in {"space", "control", "invite_space"} :
        /\ task' = [task EXCEPT ![t] = k(next)]
        /\ next = "space" => sp = None
        /\ next = "control" => co = None
        /\ \/ UNCHANGED workspace
           \/ /\ workspace' = [space |-> sp, control |-> co]
              /\ sp # None /\ co # None
  BY DEF JoinedRooms, saveRooms
<1>3. task[t].bot = creds
  BY <1>1 DEF CauseInv, ActiveOK
<1>4. workspace # None => /\ room[workspace.control].bot = creds
                          /\ Here(t, workspace.space)
                          /\ Here(t, workspace.control) <=> room[workspace.control].in
  <2>1. workspace # None => /\ workspace.space \in Rooms /\ room[workspace.space].kind = "space"
                            /\ workspace.control \in Rooms
                            /\ room[workspace.control].bot = room[workspace.space].bot
                            /\ room[workspace.space].bot = creds
    BY DEF IInv, TypeOK, FileInv, CauseInv, FileCred
  <2>2. QED
    BY <1>3, <2>1, Nones DEF LinkInv, Here
<1>5. sp = None => workspace = None
  BY <1>4 DEF Here
<1>6. co = None => workspace = None \/ ~room[workspace.control].in
  BY <1>4 DEF Here
<1>7. UNCHANGED workspace
  <2>1. workspace # None => workspace = [space |-> workspace.space, control |-> workspace.control]
    BY DEF IInv, TypeOK
  <2>2. QED
    BY <1>2, <2>1
<1> HIDE DEF sp, co
<1>8. /\ task'[t].at = next /\ task'[t].bot = task[t].bot
      /\ \A s \in Tasks \ {t} : task'[s] = task[s]
  BY <1>1, <1>2 DEF IInv, TypeOK, Task
<1>9. \A b \in Bots, q \in Counted : Makes(t, b, q)' => ~OnFile(b, q)
  BY <1>2, <1>5, <1>6, <1>8 DEF Makes, OnFile
<1>10. ActiveOK(t)'
  BY <1>1, <1>2, <1>3, <1>5, <1>7, <1>8 DEF ActiveOK
<1>11. task[t].at \notin Working
  BY <1>1 DEF Working
<1>12. \A b \in Bots, q \in Counted : ~WorksOn(t, b, q)
  BY <1>1, <1>11, AtRest
<1>13. Alone(t)
  BY <1>1, ActiveAlone
<1>14. NoneCreated /\ Kept /\ ControlIn
  BY <1>1, RoomsUntouched
<1>15. QED
  BY <1>1, <1>7, <1>8, <1>9, <1>10, <1>12, <1>13, <1>14, BeginsToMake

\* An invitation that is refused while no room is worked on.
LEMMA CauseRefused ==
  ASSUME SetupAssumption, IInv, TypeOK', CauseInv, NEW t \in Tasks, NEW STATE r, Refused(t, r),
         task[t].at \notin Working, task[t].at # "idle"
  PROVE  CauseInv'
<1>1. /\ UNCHANGED <<room, workspace, onboarded, creds>> /\ Uncharged
      /\ task' = [task EXCEPT ![t] = Idle] /\ Idle.at = "idle"
  BY DEF Refused, serverVars, fileVars, Uncharged, Idle, Task
<1>2. Alone(t) /\ task'[t].at = "idle"
  BY <1>1, ActiveAlone DEF IInv, TypeOK
<1>3. ActiveOK(t)' /\ FileCred'
  BY <1>1, <1>2, IdleActiveOK, RoomsUntouched, FileCredKept DEF CauseInv
<1>4. QED
  BY <1>1, <1>2, <1>3, RestGoes DEF Working

\* A room that is there changes, but not in what it is.
LEMMA OneRoomKept ==
  ASSUME IInv, NEW STATE x, x \in Rooms, NEW STATE y,
         y.kind = room[x].kind, y.bot = room[x].bot, y.in = room[x].in,
         y.parent = room[x].parent \/ y.parent # None,
         room' = [room EXCEPT ![x] = y]
  PROVE  /\ NoneCreated /\ Kept /\ ControlIn
         /\ \A r \in Rooms : room'[r].in = room[r].in
<1>1. room'[x] = y /\ \A r \in Rooms \ {x} : room'[r] = room[r]
  BY DEF IInv, TypeOK
<1>2. QED
  BY <1>1 DEF NoneCreated, Kept, ControlIn

LEMMA RoomInvites ==
  ASSUME IInv, NEW STATE x, x \in Rooms, NEW STATE u,
         room' = [room EXCEPT ![x].invited = @ \cup {u}]
  PROVE  NoneCreated /\ Kept /\ ControlIn
<1> DEFINE y == [room[x] EXCEPT !.invited = @ \cup {u}]
<1>1. y.kind = room[x].kind /\ y.bot = room[x].bot /\ y.in = room[x].in
      /\ y.parent = room[x].parent
  BY RoomType DEF IInv, RoomRecords
<1>2. room' = [room EXCEPT ![x] = y]
  OBVIOUS
<1> HIDE DEF y
<1>3. QED
  BY <1>1, <1>2, OneRoomKept

LEMMA CauseInvites ==
  ASSUME SetupAssumption, IInv, TypeOK', CauseInv, InviteToSpace \/ InviteToControl
  PROVE  CauseInv'
<1> DEFINE t == "setup"
<1>1. t \in Tasks /\ task[t].at \in {"invite_space", "invite_control"}
  BY DEF Tasks, InviteToSpace, InviteToControl
<1>2. Alone(t) /\ task[t].at \notin Working /\ task[t].bot = creds
  BY <1>1, ActiveAlone DEF Working, CauseInv, ActiveOK
<1>3. ASSUME NEW STATE x, x \in Rooms, room' = [room EXCEPT ![x].invited = @ \cup {User(t)}],
             UNCHANGED fileVars,
             \/ task' = Goes(t, "invite_control") /\ UNCHANGED spent
             \/ ensureInitialSession(t, task[t]) /\ UNCHANGED spent
             \/ Fault("request") /\ task' = [task EXCEPT ![t] = Idle]
      PROVE  CauseInv'
  <2>1. NoneCreated /\ Kept /\ ControlIn
    BY <1>3, RoomInvites
  <2>2. UNCHANGED <<workspace, onboarded, creds>>
    BY <1>3 DEF fileVars
  <2>3. CASE Fault("request") /\ task' = [task EXCEPT ![t] = Idle]
    BY <1>1, <1>2, <2>1, <2>2, <2>3, SameCount, EndCharged
  <2>4. CASE ensureInitialSession(t, task[t]) /\ UNCHANGED spent
    <3>1. task[t] \in TaskRecords /\ Uncharged
      BY <1>1, <2>4, TaskType DEF IInv, Uncharged
    <3>2. QED
      BY <1>1, <1>2, <2>1, <2>2, <2>4, <3>1, CauseInitial
  <2>5. CASE task' = Goes(t, "invite_control") /\ UNCHANGED spent
    <3> DEFINE k == [task[t] EXCEPT !.at = "invite_control"]
    <3>1. k.at = "invite_control" /\ k.bot = task[t].bot /\ Uncharged
      BY <1>1, <2>5, TaskType DEF IInv, TaskRecords, Uncharged
    <3>2. task' = [task EXCEPT ![t] = k]
      BY <2>5 DEF Goes
    <3> HIDE DEF k
    <3>3. task'[t] = k /\ \A s \in Tasks \ {t} : task'[s] = task[s]
      BY <1>1, <3>2 DEF IInv, TypeOK
    <3>4. ActiveOK(t)' /\ FileCred'
      BY <1>2, <2>1, <2>2, <3>1, <3>3, FileCredKept DEF ActiveOK, CauseInv
    <3>5. \A b \in Bots, q \in Counted : ~WorksOn(t, b, q) /\ ~WorksOn(t, b, q)'
      BY <1>1, <1>2, <3>1, <3>3, AtRest DEF Working
    <3>6. QED
      BY <1>1, <1>2, <2>1, <2>2, <3>1, <3>3, <3>4, <3>5, QuietGoes
  <2>6. QED
    BY <1>3, <2>3, <2>4, <2>5
<1>4. CASE InviteToSpace
  <2>1. CASE Refused(t, task[t].space)
    BY <1>1, <1>2, <2>1, CauseRefused
  <2>2. CASE ~Refused(t, task[t].space)
    <3> DEFINE x == task[t].space
    <3>1. x \in Rooms
      BY <1>1, <1>4, InvitesSpace DEF InviteToSpace
    <3>2. room' = [room EXCEPT ![x].invited = @ \cup {User(t)}] /\ UNCHANGED fileVars
      BY <1>4, <2>2 DEF InviteToSpace, Invite
    <3>3. \/ task' = Goes(t, "invite_control") /\ UNCHANGED spent
          \/ Fault("request") /\ task' = [task EXCEPT ![t] = Idle]
      BY <1>4, <2>2 DEF InviteToSpace, Invite
    <3>4. QED
      BY <1>3, <3>1, <3>2, <3>3
  <2>3. QED
    BY <2>1, <2>2
<1>5. CASE InviteToControl
  <2>1. CASE Refused(t, task[t].control)
    BY <1>1, <1>2, <2>1, CauseRefused
  <2>2. CASE ~Refused(t, task[t].control)
    <3> DEFINE x == task[t].control
    <3>1. x \in Rooms
      BY <1>1, <1>5, <2>2, InvitesSpace DEF InviteToControl, Invite, Here
    <3>2. room' = [room EXCEPT ![x].invited = @ \cup {User(t)}] /\ UNCHANGED fileVars
      BY <1>5, <2>2 DEF InviteToControl, Invite
    <3>3. \/ ensureInitialSession(t, task[t]) /\ UNCHANGED spent
          \/ Fault("request") /\ task' = [task EXCEPT ![t] = Idle]
      BY <1>5, <2>2 DEF InviteToControl, Invite
    <3>4. QED
      BY <1>3, <3>1, <3>2, <3>3
  <2>3. QED
    BY <2>1, <2>2
<1>6. QED
  BY <1>4, <1>5

\* A room is created: of its kind there is one more, and no longer one in the making.
LEMMA CreatedCount ==
  ASSUME SetupAssumption, IInv, NEW t \in Tasks, NEW kind \in Kinds,
         NEW STATE invited, invited \subseteq Bots, kind = "starter" => task[t].bot \in invited,
         CanCreate, Created(t, kind, invited),
         \A b \in Bots : kind \in Counted /\ task[t].bot = b => Makes(t, b, kind)
  PROVE  /\ Kept /\ ControlIn
         /\ NewRoom \in Rooms /\ room[NewRoom].kind = None
         /\ room'[NewRoom].kind = kind /\ room'[NewRoom].bot = task[t].bot /\ room'[NewRoom].in
         /\ \A b \in Bots, k \in Counted :
               Of(b, k)' = Of(b, k) \/ (Of(b, k)' = Of(b, k) + 1 /\ Makes(t, b, k))
<1>1. /\ Kept /\ NewRoom \in Rooms /\ room[NewRoom].kind = None
      /\ room'[NewRoom].kind = kind /\ room'[NewRoom].bot = task[t].bot /\ room'[NewRoom].in
      /\ \A r \in Rooms \ {NewRoom} : room'[r] = room[r]
  BY RoomCreated DEF IInv
<1>2. ControlIn
  BY <1>1, Nones DEF ControlIn, Kinds
<1>3. ASSUME NEW b \in Bots, NEW k \in Counted
      PROVE  Of(b, k)' = IF k = kind /\ room'[NewRoom].bot = b THEN Of(b, k) + 1 ELSE Of(b, k)
  <2>1. k \in Kinds
    BY DEF Counted, Kinds
  <2>2. QED
    BY <1>1, <2>1, NewCount
<1>4. QED
  BY <1>1, <1>2, <1>3

LEMMA CauseCreateSpace ==
  ASSUME SetupAssumption, IInv, TypeOK', LinkInv, CauseInv, CreateSpace
  PROVE  CauseInv'
<1> DEFINE t == "setup"
           k == Task("control", task[t].bot, NewRoom, None, None)
<1>1. t \in Tasks /\ task[t].at = "space" /\ UNCHANGED <<onboarded, creds>>
  BY DEF Tasks, CreateSpace
<1>2. task[t].control = None /\ workspace = None /\ task[t].bot = creds /\ Alone(t)
  BY <1>1, ActiveAlone DEF LinkInv, CauseInv, ActiveOK
<1>3. /\ UNCHANGED workspace
      /\ \/ task' = [task EXCEPT ![t] = k] /\ UNCHANGED spent
         \/ Fault("request") /\ task' = [task EXCEPT ![t] = Idle]
  BY <1>2 DEF CreateSpace, Answered
<1>4. PICK none : none = {}
  OBVIOUS
<1>5. /\ none \subseteq Bots /\ CanCreate /\ Created(t, "space", none) /\ "space" \in Kinds
      /\ \A b \in Bots : task[t].bot = b => Makes(t, b, "space")
  BY <1>1, <1>4 DEF CreateSpace, Kinds, Makes
<1>6. /\ Kept /\ ControlIn
      /\ \A b \in Bots, q \in Counted :
            Of(b, q)' = Of(b, q) \/ (Of(b, q)' = Of(b, q) + 1 /\ Makes(t, b, q))
  BY <1>1, <1>5, CreatedCount
<1>7. CASE Fault("request") /\ task' = [task EXCEPT ![t] = Idle]
  BY <1>1, <1>2, <1>3, <1>6, <1>7, EndCharged
<1>8. CASE task' = [task EXCEPT ![t] = k] /\ UNCHANGED spent
  <2>1. k.at = "control" /\ k.bot = task[t].bot /\ Uncharged
    BY <1>8 DEF Task, Uncharged
  <2> HIDE DEF k
  <2>2. task'[t] = k /\ \A s \in Tasks \ {t} : task'[s] = task[s]
    BY <1>1, <1>8 DEF IInv, TypeOK
  <2>3. ActiveOK(t)' /\ FileCred' /\ Alone(t)'
    BY <1>1, <1>2, <1>3, <2>1, <2>2, AloneGoes DEF ActiveOK, FileCred
  <2>4. ASSUME NEW b \in Bots, NEW q \in Counted PROVE Accounted(t, b, q)
    <3>1. Makes(t, b, q) => q = "space"
      BY <1>1 DEF Makes
    <3>2. Makes(t, b, q)' => q = "control"
      BY <2>1, <2>2 DEF Makes
    <3>3. Held(b, "control") => FALSE
      BY <1>1, <1>2, OnlyOne DEF OnFile, WorksOn, Makes, Links
    <3>4. Held(b, q) => Held(b, q)'
      <4>1. OnFile(b, q)' <=> OnFile(b, q)
        BY <1>1, <1>3, <1>6, OnFileSame
      <4>2. WorksOn(t, b, q) => WorksOn(t, b, q)'
        BY <1>1, <2>1, <2>2 DEF WorksOn, Makes, Links
      <4>3. QED
        BY <1>1, <1>2, <2>3, <4>1, <4>2, OnlyOne
    <3>5. QED
      BY <1>6, <3>1, <3>2, <3>3, <3>4 DEF Accounted
  <2>5. QED
    BY <1>1, <1>2, <2>1, <2>2, <2>3, <2>4, CauseGoes
<1>9. QED
  BY <1>3, <1>7, <1>8

\* A control room or a chat is created, to be linked.
LEMMA CauseLinking ==
  ASSUME SetupAssumption, IInv, TypeOK', CauseInv, NEW t \in Tasks,
         NEW kind \in Session \cup {"control"},
         NEW STATE invited, invited \subseteq Bots, kind = "starter" => task[t].bot \in invited,
         CanCreate, Created(t, kind, invited), Answered(t, Linking(t)),
         UNCHANGED <<bots, users, fileVars, gateway>>,
         kind = "control" => t = "setup" /\ task[t].at = "control",
         kind = "starter" => t # "command" /\ task[t].at = "session",
         kind = "session" => t = "command" /\ task[t].at = "session"
  PROVE  CauseInv'
<1>1. /\ task[t].at \in {"control", "session"} /\ kind \in Kinds
      /\ UNCHANGED <<workspace, onboarded, creds>>
  BY DEF Session, Kinds, fileVars
<1>2. Alone(t)
  BY <1>1, ActiveAlone
<1>3. \A b \in Bots : kind \in Counted /\ task[t].bot = b => Makes(t, b, kind)
  BY DEF Makes, Counted, Session
<1>4. /\ Kept /\ ControlIn
      /\ NewRoom \in Rooms /\ room[NewRoom].kind = None
      /\ room'[NewRoom].kind = kind /\ room'[NewRoom].bot = task[t].bot /\ room'[NewRoom].in
      /\ \A b \in Bots, q \in Counted :
            Of(b, q)' = Of(b, q) \/ (Of(b, q)' = Of(b, q) + 1 /\ Makes(t, b, q))
  BY <1>1, <1>3, CreatedCount
<1>5. CASE Fault("request") /\ task' = [task EXCEPT ![t] = Idle]
  BY <1>1, <1>2, <1>4, <1>5, EndCharged
<1>6. CASE task' = [task EXCEPT ![t] = Linking(t)] /\ UNCHANGED spent
  <2>1. Linking(t).at = "child" /\ Linking(t).bot = task[t].bot /\ Linking(t).room = NewRoom
        /\ Uncharged
    BY <1>6 DEF Linking, Task, Uncharged
  <2>2. task'[t] = Linking(t) /\ \A s \in Tasks \ {t} : task'[s] = task[s]
    BY <1>6 DEF IInv, TypeOK
  <2>3. workspace # None => NewRoom # workspace.control
    BY <1>4, Nones DEF IInv, FileInv, Kinds
  <2>4. ActiveOK(t)'
    BY <1>1, <1>4, <2>1, <2>2, <2>3 DEF CauseInv, ActiveOK
  <2>5. FileCred' /\ Alone(t)'
    BY <1>1, <1>2, <1>4, <2>2, FileCredKept, AloneGoes DEF CauseInv
  <2>6. ASSUME NEW b \in Bots, NEW q \in Counted PROVE Accounted(t, b, q)
    <3>1. ~Makes(t, b, q)'
      BY <2>1, <2>2 DEF Makes
    <3>2. Held(b, q) => Held(b, q)'
      <4>1. OnFile(b, q)' <=> OnFile(b, q)
        BY <1>1, <1>4, OnFileSame
      <4>2. WorksOn(t, b, q) => WorksOn(t, b, q)'
        BY <1>1, <1>4, <2>1, <2>2 DEF WorksOn, Makes, Links, Session
      <4>3. QED
        BY <1>2, <2>5, <4>1, <4>2, OnlyOne
    <3>3. QED
      BY <1>4, <3>1, <3>2 DEF Accounted
  <2>7. QED
    BY <1>2, <2>1, <2>2, <2>4, <2>5, <2>6, CauseGoes
<1>7. QED
  BY <1>5, <1>6 DEF Answered

LEMMA CauseCreates ==
  ASSUME SetupAssumption, IInv, TypeOK', LinkInv, CauseInv,
         CreateControl \/ \E t \in Tasks : CreateSession(t)
  PROVE  CauseInv'
<1>1. "setup" \in Tasks /\ "control" \in Session \cup {"control"} /\ "control" \notin Session
  BY DEF Tasks, Session
<1>2. CASE CreateControl
  <2>1. PICK none : none = {}
    OBVIOUS
  <2>2. /\ none \subseteq Bots /\ Created("setup", "control", none) /\ CanCreate
        /\ Answered("setup", Linking("setup")) /\ UNCHANGED <<bots, users, fileVars, gateway>>
        /\ task["setup"].at = "control"
    BY <1>2, <2>1 DEF CreateControl
  <2>3. QED
    BY <1>1, <2>2, CauseLinking
<1>3. ASSUME NEW t \in Tasks, CreateSession(t) PROVE CauseInv'
  <2> DEFINE kind == IF t = "command" THEN "session" ELSE "starter"
  <2>1. /\ Created(t, kind, {User(t)}) /\ CanCreate /\ kind \in Session \cup {"control"}
        /\ Answered(t, Linking(t)) /\ UNCHANGED <<bots, users, fileVars, gateway>>
        /\ task[t].at = "session"
    BY <1>3 DEF CreateSession, Session
  <2>2. task[t].bot \in Bots
    BY <1>3, TaskType DEF CreateSession, IInv, FieldInv, FieldOK
  <2>3. {User(t)} \subseteq Bots /\ task[t].bot \in {User(t)}
    BY <2>2 DEF User
  <2>4. QED
    BY <2>1, <2>3, CauseLinking
<1>4. QED
  BY <1>2, <1>3

\* The request that links a room is not refused: the bot is in its space.
LEMMA SpaceIsThere ==
  ASSUME SetupAssumption, IInv, LinkInv, NEW t \in Tasks, task[t].at = "child"
  PROVE  ~Refused(t, task[t].space)
<1>1. FieldOK(task[t]) /\ task[t].space \in Rooms \cup {None}
  BY TaskType DEF IInv, FieldInv
<1>2. /\ task[t].space \in Rooms /\ room[task[t].space].kind = "space"
      /\ room[task[t].space].bot = task[t].bot
  BY <1>1 DEF FieldOK, NeedsSpace, IsSpace
<1>3. QED
  BY <1>2 DEF LinkInv, Refused

LEMMA CauseLinkChild ==
  ASSUME SetupAssumption, IInv, TypeOK', LinkInv, CauseInv, NEW t \in Tasks, LinkChild(t)
  PROVE  CauseInv'
<1> DEFINE x == task[t].room
           y == [room[x] EXCEPT !.child = task[t].space]
           k == [task[t] EXCEPT !.at = "parent"]
<1>1. /\ task[t].at = "child" /\ room' = [room EXCEPT ![x] = y]
      /\ Answered(t, k) /\ UNCHANGED <<workspace, onboarded, creds>>
  BY SpaceIsThere DEF LinkChild, fileVars
<1>2. Alone(t) /\ x \in Rooms
  BY <1>1, ActiveAlone, TaskType DEF IInv, OwnInv, OwnOK
<1>3. y.kind = room[x].kind /\ y.bot = room[x].bot /\ y.in = room[x].in
      /\ y.parent = room[x].parent
  BY <1>2, RoomType DEF IInv, RoomRecords
<1>4. k.at = "parent" /\ k.bot = task[t].bot /\ k.room = x
  BY <1>2, TaskType DEF IInv, TaskRecords
<1> HIDE DEF y, k
<1>5. NoneCreated /\ Kept /\ ControlIn /\ \A r \in Rooms : room'[r].in = room[r].in
  BY <1>1, <1>2, <1>3, OneRoomKept
<1>6. CASE Fault("request") /\ task' = [task EXCEPT ![t] = Idle]
  BY <1>1, <1>2, <1>5, <1>6, SameCount, EndCharged
<1>7. CASE task' = [task EXCEPT ![t] = k] /\ UNCHANGED spent
  <2>1. task'[t] = k /\ (\A s \in Tasks \ {t} : task'[s] = task[s]) /\ Uncharged
    BY <1>7 DEF IInv, TypeOK, Uncharged
  <2>2. ActiveOK(t)'
    BY <1>1, <1>2, <1>4, <1>5, <2>1 DEF CauseInv, ActiveOK, NoneCreated
  <2>3. FileCred' /\ Alone(t)'
    BY <1>1, <1>2, <1>5, <2>1, FileCredKept, AloneGoes DEF CauseInv
  <2>4. ASSUME NEW b \in Bots, NEW q \in Counted PROVE Accounted(t, b, q)
    <3>1. ~Makes(t, b, q)' /\ Of(b, q)' = Of(b, q)
      BY <1>4, <1>5, <2>1, SameCount DEF Makes
    <3>2. Held(b, q) => Held(b, q)'
      <4>1. OnFile(b, q)' <=> OnFile(b, q)
        BY <1>1, <1>5, OnFileSame
      <4>2. WorksOn(t, b, q) => WorksOn(t, b, q)'
        BY <1>1, <1>2, <1>4, <1>5, <2>1 DEF WorksOn, Makes, Links, NoneCreated
      <4>3. QED
        BY <1>2, <2>3, <4>1, <4>2, OnlyOne
    <3>3. QED
      BY <3>1, <3>2 DEF Accounted
  <2>5. QED
    BY <1>2, <2>1, <2>2, <2>3, <2>4, CauseGoes
<1>8. QED
  BY <1>1, <1>6, <1>7 DEF Answered

\* A room that is linked is recorded: a control room on file, a starter chat with its user.
LEMMA CauseLinkParent ==
  ASSUME SetupAssumption, IInv, TypeOK', LinkInv, CauseInv, NEW t \in Tasks, LinkParent(t)
  PROVE  CauseInv'
<1> DEFINE x == task[t].room
           sp == task[t].space
           u == task[t].bot
           y == [room[x] EXCEPT !.parent = sp]
           record == Task("invite_space", u, sp, x, None)
           go == Task(Afterwards(t), u, sp, task[t].control, None)
<1>1. /\ task[t].at = "parent" /\ OwnOK(task[t]) /\ FieldOK(task[t]) /\ ActiveOK(t)
      /\ x \in Rooms \cup {None} /\ sp \in Rooms \cup {None} /\ u \in Bots \cup {None}
  BY TaskType DEF LinkParent, IInv, OwnInv, FieldInv, CauseInv
<1>2. /\ x \in Rooms /\ room[x].kind \in Session \cup {"control"} /\ room[x].bot = u
      /\ sp \in Rooms /\ room[sp].kind = "space" /\ room[sp].bot = u /\ room[x].in /\ u \in Bots
      /\ sp # None /\ x # None
  BY <1>1 DEF OwnOK, FieldOK, NeedsSpace, IsSpace, ActiveOK
<1>3. /\ room' = [room EXCEPT ![x] = y] /\ ParentLinked(t) /\ UNCHANGED creds
  BY <1>2 DEF LinkParent, Refused
<1>4. y.kind = room[x].kind /\ y.bot = room[x].bot /\ y.in = room[x].in /\ y.parent = sp
  BY <1>2, RoomType DEF IInv, RoomRecords
<1> HIDE DEF y
<1>5. NoneCreated /\ Kept /\ ControlIn /\ \A r \in Rooms : room'[r].in = room[r].in
  BY <1>2, <1>3, <1>4, OneRoomKept
<1>6. Alone(t)
  BY <1>1, ActiveAlone
<1>7. CASE Fault("request") /\ task' = [task EXCEPT ![t] = Idle] /\ UNCHANGED <<workspace, onboarded>>
  BY <1>3, <1>5, <1>6, <1>7, SameCount, EndCharged
<1>8. ASSUME NEW STATE k, task' = [task EXCEPT ![t] = k], k.at \notin Working, Uncharged,
             t = "setup" /\ k.at # "idle" => k.bot = creds /\ k.at # "mint", k.at # "mint",
             FileCred',
             \A b \in Bots, q \in Counted : OnFile(b, q) \/ WorksOn(t, b, q) => OnFile(b, q)'
      PROVE  CauseInv'
  <2>1. task'[t] = k /\ \A s \in Tasks \ {t} : task'[s] = task[s]
    BY <1>8 DEF IInv, TypeOK
  <2>2. ActiveOK(t)'
    BY <1>3, <1>8, <2>1 DEF ActiveOK, Working
  <2>3. Alone(t)'
    BY <1>6, <2>1, AloneGoes
  <2>4. ASSUME NEW b \in Bots, NEW q \in Counted PROVE Accounted(t, b, q)
    <3>1. ~WorksOn(t, b, q)'
      BY <1>8, <2>1, AtRest
    <3>2. ~Makes(t, b, q)' /\ Of(b, q)' = Of(b, q)
      BY <1>5, <3>1, SameCount DEF WorksOn
    <3>3. Held(b, q) => Held(b, q)'
      BY <1>6, <1>8, <2>3, OnlyOne
    <3>4. QED
      BY <3>2, <3>3 DEF Accounted
  <2>5. QED
    BY <1>6, <1>8, <2>1, <2>2, <2>4, CauseGoes
<1>9. /\ record.at = "invite_space" /\ record.bot = u /\ go.at = Afterwards(t) /\ go.bot = u
      /\ Idle.at = "idle" /\ Afterwards(t) = (IF t = "setup" THEN "config" ELSE "idle")
  BY DEF Task, Idle, Afterwards
<1>10. \A b \in Bots, q \in Counted : WorksOn(t, b, q) =>
          b = u /\ (q = room[x].kind \/ (q = "space" /\ room[x].kind = "control"))
  BY <1>1 DEF WorksOn, Makes, Links
<1>11. CASE /\ room[x].kind = "control" /\ UNCHANGED <<spent, onboarded>>
            /\ workspace' = [space |-> sp, control |-> x]
            /\ task' = [task EXCEPT ![t] = record]
  <2>1. t = "setup" /\ u = creds
    BY <1>1, <1>11 DEF ActiveOK
  <2>2. workspace' # None
    BY <1>2, <1>11, Nones DEF SetupAssumption, Rooms
  <2>3. /\ workspace'.space = sp /\ workspace'.control = x /\ room'[sp].bot = u
        /\ room'[x].bot = u /\ room'[x].in
    BY <1>2, <1>5, <1>11 DEF NoneCreated
  <2>4. FileCred'
    BY <1>2, <1>3, <2>1, <2>3, Nones DEF FileCred
  <2>5. ASSUME NEW b \in Bots, NEW q \in Counted, OnFile(b, q) \/ WorksOn(t, b, q)
        PROVE  OnFile(b, q)'
    <3>1. CASE q = "starter"
      BY <1>10, <1>11, <2>5, <3>1 DEF OnFile
    <3>2. CASE q # "starter"
      <4>1. b = creds
        <5>1. workspace # None => room[workspace.control].bot = room[workspace.space].bot
          BY DEF IInv, FileInv
        <5>2. OnFile(b, q) => b = creds
          BY <3>2, <5>1 DEF OnFile, CauseInv, FileCred
        <5>3. QED
          BY <1>10, <2>1, <2>5, <5>2
      <4>2. q \in {"space", "control"}
        BY <3>2 DEF Counted
      <4>3. QED
        BY <2>1, <2>2, <2>3, <4>1, <4>2 DEF OnFile
    <3>3. QED
      BY <3>1, <3>2
  <2>6. Uncharged
    BY <1>11 DEF Uncharged
  <2> HIDE DEF record
  <2>7. QED
    BY <1>8, <1>9, <1>11, <2>1, <2>4, <2>5, <2>6 DEF Working
<1>12. CASE /\ room[x].kind = "starter" /\ UNCHANGED <<spent, workspace>>
            /\ onboarded' = [onboarded EXCEPT ![u] = x]
            /\ task' = [task EXCEPT ![t] = IF Afterwards(t) = "idle" THEN Idle ELSE go]
  <2>1. onboarded'[u] = x /\ \A b \in Bots \ {u} : onboarded'[b] = onboarded[b]
    BY <1>2, <1>12 DEF IInv, TypeOK
  <2>2. FileCred' /\ Uncharged
    BY <1>3, <1>5, <1>12, FileCredKept DEF CauseInv, Uncharged
  <2>3. ASSUME NEW b \in Bots, NEW q \in Counted, OnFile(b, q) \/ WorksOn(t, b, q)
        PROVE  OnFile(b, q)'
    <3>1. CASE q = "starter"
      BY <1>2, <1>10, <2>1, <2>3, <3>1 DEF OnFile
    <3>2. CASE q # "starter"
      <4>1. OnFile(b, q)
        BY <1>10, <1>12, <2>3, <3>2
      <4>2. workspace # None => /\ workspace.space \in Rooms /\ workspace.control \in Rooms
        BY DEF IInv, TypeOK
      <4>3. QED
        BY <1>5, <1>12, <3>2, <4>1, <4>2 DEF OnFile, NoneCreated
    <3>3. QED
      BY <3>1, <3>2
  <2>4. PICK k \in {Idle, go} : /\ task' = [task EXCEPT ![t] = k]
                               /\ k = IF Afterwards(t) = "idle" THEN Idle ELSE go
    BY <1>12
  <2>5. t = "setup" => u = creds
    BY <1>1 DEF ActiveOK
  <2> HIDE DEF go
  <2>6. k.at \in {"idle", "config"} /\ (t = "setup" /\ k.at # "idle" => k.bot = creds)
    BY <1>9, <2>4, <2>5
  <2>7. QED
    BY <1>8, <2>2, <2>3, <2>4, <2>6 DEF Working
<1>13. CASE /\ room[x].kind = "session" /\ UNCHANGED <<spent, workspace, onboarded>>
            /\ task' = [task EXCEPT ![t] = Idle]
  <2>1. FileCred' /\ Uncharged
    BY <1>3, <1>5, <1>13, FileCredKept DEF CauseInv, Uncharged
  <2>2. ASSUME NEW b \in Bots, NEW q \in Counted, OnFile(b, q) \/ WorksOn(t, b, q)
        PROVE  OnFile(b, q)'
    BY <1>5, <1>10, <1>13, <2>2, OnFileSame DEF Counted
  <2>3. QED
    BY <1>8, <1>9, <1>13, <2>1, <2>2 DEF Working
<1>14. QED
  BY <1>3, <1>7, <1>11, <1>12, <1>13 DEF ParentLinked, saveRooms, User

LEMMA NextCause ==
  ASSUME SetupAssumption, Sole, IInv, TypeOK', LinkInv, CauseInv, [Next]_vars
  PROVE  CauseInv'
<1>1. {"setup", "migrate"} \subseteq Tasks /\ InGateway \subseteq Tasks
  BY DEF Tasks
<1>2. CASE SetupSteps
  BY <1>1, <1>2, CauseProvision, CauseEnsureUser, CauseJoined, CauseCreateSpace, CauseCreates,
     CauseInvites, CauseLinkChild, CauseLinkParent, CauseConfig DEF SetupSteps
<1>3. CASE MigrateSteps
  BY <1>1, <1>3, CauseProvision, CauseConfig DEF MigrateSteps
<1>4. ASSUME NEW t \in InGateway, OtherSteps(t) PROVE CauseInv'
  BY <1>1, <1>4, CauseCreates, CauseLinkChild, CauseLinkParent DEF OtherSteps
<1>5. CASE BeginSetup \/ runMigration \/ runReset \/ GatewayStarts \/ LoadRooms \/ GatewayEnds
           \/ onDeviceRedeemed \/ SessionNew
  BY <1>5, CauseBeginSetup, CauseMigration, CauseReset, CauseGatewayStarts, CauseLoads,
     CauseGatewayEnds, CauseSessionNew
<1>6. CASE LeaveAndForget \/ \E r \in Rooms : SessionArchive(r) \/ SessionDelete(r)
  BY <1>6, CauseSessions
<1>7. ASSUME NEW t \in Tasks, Fails(t) PROVE CauseInv'
  BY <1>7, CauseFails
<1>8. ASSUME NEW f \in {"space", "control"}, BotIsOut(f) PROVE CauseInv'
  <2>1. f \in Faults
    BY <1>8 DEF BotIsOut, Fault
  <2>2. QED
    BY <1>8, <2>1, CauseBotIsOut DEF Sole
<1>9. CASE UNCHANGED vars
  BY <1>9, CauseStutters DEF vars, serverVars, fileVars, Uncharged
<1>10. QED
  BY <1>2, <1>3, <1>4, <1>5, <1>6, <1>7, <1>8, <1>9 DEF Next

LEMMA InitCause ==
  ASSUME SetupAssumption, Init
  PROVE  CauseInv
<1>1. /\ \A t \in Tasks : task[t].at = "idle"
      /\ workspace = None /\ spent.failures = 0 /\ spent.resets = 0
      /\ \A r \in Rooms : room[r].kind = None
  BY DEF Init, Idle, Task, NoRoom
<1>2. ASSUME NEW b \in Bots, NEW k \in Counted
      PROVE  Of(b, k) + (IF \E t \in Tasks : Makes(t, b, k) THEN 1 ELSE 0)
               =< spent.failures + spent.resets + (IF Held(b, k) THEN 1 ELSE 0)
  <2>1. {r \in Rooms : room[r].kind = k /\ room[r].bot = b} = {}
    BY <1>1, Nones DEF Counted, Kinds
  <2>2. Of(b, k) = 0
    BY <2>1, FS_EmptySet DEF Of
  <2>3. ~\E t \in Tasks : Makes(t, b, k)
    BY <1>1, IdleWorksNot
  <2>4. QED
    BY <1>1, <2>2, <2>3
<1>3. QED
  BY <1>1, <1>2 DEF CauseInv, OneAtATime, ActiveOK, FileCred, Balance

LEMMA CauseOfEach ==
  ASSUME SetupAssumption, IInv, CauseInv
  PROVE  DuplicatesHaveACause
<1> SUFFICES ASSUME NEW b \in Bots, NEW k \in Counted
             PROVE  Of(b, k) =< 1 + spent.failures + spent.resets
  BY DEF DuplicatesHaveACause, Counted
<1>1. spent.failures \in Nat /\ spent.resets \in Nat
  BY DEF IInv, TypeOK, SetupAssumption
<1>2. Of(b, k) \in Nat
  BY CountTyped
<1>3. Of(b, k) + (IF \E t \in Tasks : Makes(t, b, k) THEN 1 ELSE 0)
        =< spent.failures + spent.resets + (IF Held(b, k) THEN 1 ELSE 0)
  BY DEF CauseInv, Balance
<1>4. QED
  BY <1>1, <1>2, <1>3

\* setup and ensureInitialSession create a space, a control room or a starter chat only when
\* none is recorded, or the one that is recorded is of no use, and record it when it is
\* linked; a room is lost from the records only by a request that failed, a room the bot was
\* put out of, or a reset.  So each of those costs at most one room too many, whatever the
\* numbers of bots, rooms and commands, if tasks do not overlap and the bot keeps its space.
THEOREM DuplicatesAreAccounted == Sole => (Spec => []DuplicatesHaveACause)
<1> SUFFICES ASSUME Sole PROVE Spec => []DuplicatesHaveACause
  OBVIOUS
<1>1. Init => LinkInv /\ CauseInv
  BY InitLinked, InitCause, SetupAssumption
<1>2. IInv /\ IInv' /\ LinkInv /\ CauseInv /\ [Next]_vars => LinkInv' /\ CauseInv'
  BY NextLinked, NextCause, SetupAssumption DEF IInv, Sole
<1>3. IInv /\ CauseInv => DuplicatesHaveACause
  BY CauseOfEach, SetupAssumption
<1>4. QED
  BY <1>1, <1>2, <1>3, Invariance, PTL DEF Spec

\* "Exactly one starter chat per user across setup re-runs, restarts, and further pairings"
\* (rooms.ts) and "re-running setup reuses the existing rooms and never spawns duplicates"
\* (space.ts) are then true, however often setup is run, the gateway started and a device
\* paired, as long as no request fails and nothing is reset.
THEOREM OneOfEachIfAllGoesWell ==
  Sole /\ MaxFailures = 0 /\ MaxResets = 0 => (Spec => []OneOfEach)
<1> SUFFICES ASSUME Sole, MaxFailures = 0, MaxResets = 0 PROVE Spec => []OneOfEach
  OBVIOUS
<1>1. TypeOK /\ DuplicatesHaveACause => OneOfEach
  <2> SUFFICES ASSUME TypeOK, DuplicatesHaveACause, NEW b \in Bots, NEW k \in Counted
               PROVE  Of(b, k) =< 1
    BY DEF OneOfEach, Counted
  <2>1. spent.failures = 0 /\ spent.resets = 0
    BY DEF TypeOK
  <2>2. Of(b, k) =< 1 + spent.failures + spent.resets
    BY DEF DuplicatesHaveACause, Counted
  <2>3. QED
    <3>1. Of(b, k) \in Nat
      BY SetupAssumption, CountTyped
    <3>2. QED
      BY <2>1, <2>2, <3>1
<1>2. QED
  BY <1>1, TypeCorrect, DuplicatesAreAccounted, PTL

=============================================================================
