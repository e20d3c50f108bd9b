------------------------------- MODULE Setup -------------------------------
(***************************************************************************)
(* How the plugin comes by its bot, its user and its rooms: `setup`,       *)
(* `migrate` and `reset` of src/src/cli.ts, the workspace of space.ts and  *)
(* rooms.ts, the starter chat with its marker in onboarded-store.ts, and   *)
(* what a gateway does with them: it loads the workspace when it boots,    *)
(* sees to starter chats when it boots and when a device redeems a code,   *)
(* and serves the session.* commands (channel.ts).                         *)
(*                                                                         *)
(* A task is one of these that is under way; it advances one request to    *)
(* the homeserver or the registrar at a time.  A request may fail undone,  *)
(* or be done without the answer arriving: both end the task, as every     *)
(* error and every death of a process does, and both are counted.          *)
(*                                                                         *)
(* A bot is its number; the user the registrar derives from it has the     *)
(* same number.  session.rename changes no state that is modelled.         *)
(***************************************************************************)
EXTENDS Integers, FiniteSets

CONSTANTS
    None,
    MaxBots,      \* bound: bots ever minted
    MaxRooms,     \* bound: rooms ever created
    MaxFailures,  \* bound: requests that fail
    MaxResets,    \* bound: resets
    MaxCommands,  \* bound: session.* commands
    Faults        \* which of Mishaps happen

\* Requests fail; the bot loses its space, or its control room; tasks overlap.
Mishaps == {"request", "space", "control", "overlap"}

\* What a room is for.
Kinds == {"space", "control", "session", "starter"}

ASSUME SetupAssumption ==
    /\ MaxBots \in Nat /\ MaxRooms \in Nat /\ MaxFailures \in Nat
    /\ MaxResets \in Nat /\ MaxCommands \in Nat
    /\ Faults \subseteq Mishaps
    /\ None \notin Nat \cup Kinds \cup [space : Nat, control : Nat]

VARIABLES
    \* the registrar and the homeserver
    bots,        \* how many bots were minted
    users,       \* users that exist
    room,        \* the rooms
    \* files
    creds,       \* credentials/<account>.json: a bot
    config,      \* the bot in the channel config
    workspace,   \* rooms.json
    onboarded,   \* onboarded.json: the starter chat of each user
    v1,          \* what is left of v1, and whether a snapshot of it was made
    \* processes
    gateway,     \* the gateway: its bot and the workspace it has loaded
    task,        \* what is under way
    \* history
    spent        \* failures, resets and session commands so far

serverVars == <<bots, users, room>>
fileVars == <<creds, config, workspace, onboarded, v1>>
vars == <<serverVars, fileVars, gateway, task, spent>>

-----------------------------------------------------------------------------
Bots == 1..MaxBots
Rooms == 1..MaxRooms
InGateway == {"boot", "redeem", "command"}
Tasks == {"setup", "migrate"} \cup InGateway

Task(at, bot, space, control, r) ==
    [at |-> at, bot |-> bot, space |-> space, control |-> control, room |-> r]
Idle == Task("idle", None, None, None, None)
Off == [bot |-> None, space |-> None, control |-> None]
NoRoom == [kind |-> None, bot |-> None, in |-> FALSE, invited |-> {}, child |-> None,
           parent |-> None]

Init ==
    /\ bots = 0 /\ users = {} /\ room = [r \in Rooms |-> NoRoom]
    /\ creds = None /\ config = None /\ workspace = None
    /\ onboarded = [u \in Bots |-> None]
    /\ v1 \in [present : BOOLEAN, saved : {FALSE}]
    /\ gateway = Off /\ task = [t \in Tasks |-> Idle]
    /\ spent = [failures |-> 0, resets |-> 0, commands |-> 0]

-----------------------------------------------------------------------------
(* Tasks and their requests. *)

MayStart(t) ==
    task[t].at = "idle" /\ ("overlap" \in Faults \/ \A s \in Tasks : task[s].at = "idle")

Goes(t, at) == [task EXCEPT ![t].at = at]

Fault(f) ==
    /\ f \in Faults /\ spent.failures < MaxFailures
    /\ spent' = [spent EXCEPT !.failures = @ + 1]

\* The answer arrives and the task goes on as next says; or it does not.
Answered(t, next) ==
    \/ task' = [task EXCEPT ![t] = next] /\ UNCHANGED spent
    \/ Fault("request") /\ task' = [task EXCEPT ![t] = Idle]

\* A request fails with nothing done.
Fails(t) ==
    /\ task[t].at # "idle" /\ Fault("request")
    /\ task' = [task EXCEPT ![t] = Idle]
    /\ UNCHANGED <<serverVars, fileVars, gateway>>

\* The homeserver refuses: the bot is not in the room.
Refused(t, r) ==
    /\ ~room[r].in \/ room[r].bot # task[t].bot
    /\ task' = [task EXCEPT ![t] = Idle]
    /\ UNCHANGED <<serverVars, fileVars, gateway, spent>>

Here(t, r) == r # None /\ room[r].in /\ room[r].bot = task[t].bot

NewRoom == CHOOSE r \in Rooms : room[r].kind = None
CanCreate == \E r \in Rooms : room[r].kind = None
Created(t, kind, invited) ==
    room' = [room EXCEPT ![NewRoom] = [kind |-> kind, bot |-> task[t].bot, in |-> TRUE,
                                       invited |-> invited, child |-> None, parent |-> None]]

-----------------------------------------------------------------------------
(* setup: the bot, the user and the workspace. *)

\* The environment names no identity and the config holds no token (setup never writes
\* one): the account's identity is the one on file.
resolveChat4000Account == creds

\* The version policy is asked first; with an identity on file setup goes on with it.
BeginSetup ==
    /\ MayStart("setup")
    /\ task' = [task EXCEPT !["setup"] =
                  Task(IF resolveChat4000Account = None THEN "mint" ELSE "user",
                       resolveChat4000Account, None, None, None)]
    /\ UNCHANGED <<serverVars, fileVars, gateway, spent>>

\* createPlugin: not idempotent.  The credentials are saved as soon as they are here.
provisionBot(t) ==
    /\ task[t].at = "mint" /\ bots < MaxBots
    /\ bots' = bots + 1
    /\ LET next == Task(IF t = "setup" THEN "user" ELSE "config", bots + 1, None, None, None)
       IN \/ creds' = bots + 1 /\ task' = [task EXCEPT ![t] = next] /\ UNCHANGED spent
          \/ Fault("request") /\ task' = [task EXCEPT ![t] = Idle] /\ UNCHANGED creds
    /\ UNCHANGED <<users, room, config, workspace, onboarded, v1, gateway>>

ensureUser ==
    /\ task["setup"].at = "user"
    /\ users' = users \cup {task["setup"].bot}
    /\ Answered("setup", [task["setup"] EXCEPT !.at = "joined"])
    /\ UNCHANGED <<bots, room, fileVars, gateway>>

\* The file is written when both rooms are there; the invitations follow.
saveRooms(space, control) == workspace' = [space |-> space, control |-> control]

\* GET /joined_rooms against the file: a room the bot is not in counts as none.
JoinedRooms ==
    LET t == "setup"
        Stored(f) == IF workspace # None /\ Here(t, workspace[f]) THEN workspace[f] ELSE None
        space == Stored("space")
        control == Stored("control")
        Goto(at) == task' = [task EXCEPT ![t] = Task(at, task[t].bot, space, control, None)]
    IN /\ task[t].at = "joined"
       /\ \/ space = None /\ Goto("space") /\ UNCHANGED workspace
          \/ space # None /\ control = None /\ Goto("control") /\ UNCHANGED workspace
          \/ /\ space # None /\ control # None
             /\ saveRooms(space, control) /\ Goto("invite_space")
       /\ UNCHANGED <<serverVars, creds, config, onboarded, v1, gateway, spent>>

\* A control room that is still there is kept as it is, in the old space.
CreateSpace ==
    LET t == "setup"
        control == task[t].control
        tk(at) == Task(at, task[t].bot, NewRoom, control, None)
    IN /\ task[t].at = "space" /\ CanCreate /\ Created(t, "space", {})
       /\ \/ control = None /\ Answered(t, tk("control")) /\ UNCHANGED workspace
          \/ /\ control # None /\ saveRooms(NewRoom, control)
             /\ task' = [task EXCEPT ![t] = tk("invite_space")] /\ UNCHANGED spent
          \/ /\ control # None /\ Fault("request")
             /\ task' = [task EXCEPT ![t] = Idle] /\ UNCHANGED workspace
       /\ UNCHANGED <<bots, users, creds, config, onboarded, v1, gateway>>

\* The room is there, and is to be linked.
Linking(t) == Task("child", task[t].bot, task[t].space, task[t].control, NewRoom)

\* Mutant: the workspace is recorded before its control room is linked.
CreateAndRecord ==
    /\ task["setup"].at = "control" /\ CanCreate /\ Created("setup", "control", {})
    /\ saveRooms(task["setup"].space, NewRoom)
    /\ Answered("setup", Linking("setup"))
    /\ UNCHANGED <<bots, users, creds, config, onboarded, v1, gateway>>

CreateControl ==
    /\ task["setup"].at = "control" /\ CanCreate /\ Created("setup", "control", {})
    /\ Answered("setup", Linking("setup"))
    /\ UNCHANGED <<bots, users, fileVars, gateway>>

-----------------------------------------------------------------------------
(* The starter chat, for setup, for a boot and for a device that redeemed a code. *)

User(t) == task[t].bot

\* What the caller does when its starter chat has been seen to.
Afterwards(t) == IF t = "setup" THEN "config" ELSE "idle"

\* Mutant: whether the user has a starter chat already is not looked at.
ensureAnotherSession(t, tk) ==
    task' = [task EXCEPT ![t] = [tk EXCEPT !.at = "session"]]

\* ensureInitialSession: nothing to do for a user who is onboarded.
ensureInitialSession(t, tk) ==
    task' = [task EXCEPT ![t] =
               IF onboarded[tk.bot] = None THEN [tk EXCEPT !.at = "session"]
               ELSE IF Afterwards(t) = "idle" THEN Idle
               ELSE [tk EXCEPT !.at = Afterwards(t)]]

\* Mutant: the error that the user is a member already is an error.
InviteOnce(t, f, next) ==
    /\ Here(t, task[t][f]) /\ User(t) \notin room[task[t][f]].invited
    /\ room' = [room EXCEPT ![task[t][f]].invited = @ \cup {User(t)}]
    /\ \/ next /\ UNCHANGED spent
       \/ Fault("request") /\ task' = [task EXCEPT ![t] = Idle]

\* The user is invited; that he is a member already is no error.
Invite(t, f, next) ==
    /\ Here(t, task[t][f])
    /\ room' = [room EXCEPT ![task[t][f]].invited = @ \cup {User(t)}]
    /\ \/ next /\ UNCHANGED spent
       \/ Fault("request") /\ task' = [task EXCEPT ![t] = Idle]

InviteToSpace ==
    /\ task["setup"].at = "invite_space"
    /\ \/ /\ Invite("setup", "space", task' = Goes("setup", "invite_control"))
          /\ UNCHANGED <<bots, users, fileVars, gateway>>
       \/ Refused("setup", task["setup"].space)

InviteToControl ==
    /\ task["setup"].at = "invite_control"
    /\ \/ /\ Invite("setup", "control", ensureInitialSession("setup", task["setup"]))
          /\ UNCHANGED <<bots, users, fileVars, gateway>>
       \/ Refused("setup", task["setup"].control)

\* Mutant: the user is marked before the chat is linked.
CreateAndMark(t) ==
    /\ task[t].at = "session" /\ CanCreate
    /\ Created(t, IF t = "command" THEN "session" ELSE "starter", {User(t)})
    /\ onboarded' = IF t = "command" THEN onboarded
                    ELSE [onboarded EXCEPT ![User(t)] = NewRoom]
    /\ Answered(t, Linking(t))
    /\ UNCHANGED <<bots, users, creds, config, workspace, v1, gateway>>

\* createSessionRoom, with the user invited from the start.
CreateSession(t) ==
    /\ task[t].at = "session" /\ CanCreate
    /\ Created(t, IF t = "command" THEN "session" ELSE "starter", {User(t)})
    /\ Answered(t, Linking(t))
    /\ UNCHANGED <<bots, users, fileVars, gateway>>

\* linkChild: first the state in the space ...
LinkChild(t) ==
    /\ task[t].at = "child"
    /\ \/ /\ Here(t, task[t].space)
          /\ room' = [room EXCEPT ![task[t].room].child = task[t].space]
          /\ Answered(t, [task[t] EXCEPT !.at = "parent"])
          /\ UNCHANGED <<bots, users, fileVars, gateway>>
       \/ Refused(t, task[t].space)

\* The control room is recorded, a starter chat marked.
ParentLinked(t) ==
    \/ Fault("request") /\ task' = [task EXCEPT ![t] = Idle]
       /\ UNCHANGED <<workspace, onboarded>>
    \/ /\ room[task[t].room].kind = "control" /\ UNCHANGED <<spent, onboarded>>
       /\ saveRooms(task[t].space, task[t].room)
       /\ task' = [task EXCEPT ![t] = Task("invite_space", task[t].bot, task[t].space,
                                           task[t].room, None)]
    \/ /\ room[task[t].room].kind = "starter" /\ UNCHANGED <<spent, workspace>>
       /\ onboarded' = [onboarded EXCEPT ![User(t)] = task[t].room]
       /\ task' = [task EXCEPT ![t] = IF Afterwards(t) = "idle" THEN Idle
                                      ELSE Task(Afterwards(t), task[t].bot, task[t].space,
                                                task[t].control, None)]
    \/ /\ room[task[t].room].kind = "session" /\ UNCHANGED <<spent, workspace, onboarded>>
       /\ task' = [task EXCEPT ![t] = Idle]

\* ... then the state in the room.
LinkParent(t) ==
    /\ task[t].at = "parent"
    /\ \/ /\ Here(t, task[t].room)
          /\ room' = [room EXCEPT ![task[t].room].parent = task[t].space]
          /\ ParentLinked(t)
          /\ UNCHANGED <<bots, users, creds, config, v1, gateway>>
       \/ Refused(t, task[t].room)

writeChannelConfig(t) ==
    /\ task[t].at = "config" /\ config' = task[t].bot
    /\ task' = [task EXCEPT ![t] = Idle]
    /\ UNCHANGED <<serverVars, creds, workspace, onboarded, v1, gateway, spent>>

-----------------------------------------------------------------------------
(* migrate and reset. *)

\* What v1 left is copied; then come an identity, if there is none, and the config.
\* A copy that fails is the end of it.  What v1 left stays where it is.
runMigration ==
    /\ MayStart("migrate") /\ v1.present
    /\ \/ /\ v1' = [v1 EXCEPT !.saved = TRUE]
          /\ task' = [task EXCEPT !["migrate"] =
                        Task(IF resolveChat4000Account = None THEN "mint" ELSE "config",
                             resolveChat4000Account, None, None, None)]
       \/ UNCHANGED <<v1, task>>
    /\ UNCHANGED <<serverVars, creds, config, workspace, onboarded, gateway, spent>>

\* The credentials go, then the account's state directory; the config stays, and so
\* does a gateway that runs.
runReset ==
    /\ spent.resets < MaxResets /\ ("overlap" \in Faults \/ \A t \in Tasks : task[t] = Idle)
    /\ creds' = None /\ workspace' = None /\ onboarded' = [u \in Bots |-> None]
    /\ spent' = [spent EXCEPT !.resets = @ + 1]
    /\ UNCHANGED <<serverVars, config, v1, gateway, task>>

-----------------------------------------------------------------------------
(* The gateway. *)

\* An account that is configured is started, with the identity on file.
GatewayStarts ==
    /\ gateway = Off /\ resolveChat4000Account # None /\ config # None
    /\ gateway' = [Off EXCEPT !.bot = resolveChat4000Account]
    /\ UNCHANGED <<serverVars, fileVars, task, spent>>

\* Mutant: the workspace of the file is not looked for among the rooms of the bot.
LoadUnseen ==
    /\ MayStart("boot") /\ gateway.bot # None /\ gateway.space = None
    /\ workspace # None
    /\ gateway' = [bot |-> gateway.bot, space |-> workspace.space, control |-> workspace.control]
    /\ IF gateway.bot \in room[workspace.control].invited
       THEN ensureInitialSession("boot", Task("idle", gateway.bot, workspace.space, None, None))
       ELSE UNCHANGED task
    /\ UNCHANGED <<serverVars, fileVars, spent>>

\* ensurePluginRooms loads the workspace and creates nothing; without one in which the
\* bot is, the account has no rooms until its next start.  Then the members of the
\* control room are looked at.
LoadRooms ==
    /\ MayStart("boot") /\ gateway.bot # None /\ gateway.space = None
    /\ workspace # None
    /\ \A f \in {"space", "control"} :
          room[workspace[f]].in /\ room[workspace[f]].bot = gateway.bot
    /\ gateway' = [bot |-> gateway.bot, space |-> workspace.space, control |-> workspace.control]
    /\ IF gateway.bot \in room[workspace.control].invited
       THEN ensureInitialSession("boot", Task("idle", gateway.bot, workspace.space, None, None))
       ELSE UNCHANGED task
    /\ UNCHANGED <<serverVars, fileVars, spent>>

\* The gateway ends; if it was doing something, that is a failure.
GatewayEnds ==
    /\ gateway # Off /\ gateway' = Off
    /\ \/ UNCHANGED spent /\ \A t \in InGateway : task[t] = Idle
       \/ Fault("request")
    /\ task' = [t \in Tasks |-> IF t \in InGateway THEN Idle ELSE task[t]]
    /\ UNCHANGED <<serverVars, fileVars>>

\* A device has redeemed a code for the user, after the scan of the boot.
onDeviceRedeemed ==
    /\ MayStart("redeem") /\ gateway.space # None /\ task["boot"] = Idle
    /\ gateway.bot \in users
    /\ ensureInitialSession("redeem", Task("idle", gateway.bot, gateway.space, None, None))
    /\ task' # task
    /\ UNCHANGED <<serverVars, fileVars, gateway, spent>>

Commanded ==
    /\ spent.commands < MaxCommands /\ spent' = [spent EXCEPT !.commands = @ + 1]

\* The user commands a new session.
SessionNew ==
    /\ MayStart("command") /\ gateway.space # None /\ Commanded
    /\ gateway.bot \in room[gateway.control].invited
    /\ task' = [task EXCEPT !["command"] = Task("session", gateway.bot, gateway.space, None,
                                                None)]
    /\ UNCHANGED <<serverVars, fileVars, gateway>>

\* The app commands about the sessions it lists: the children of the space.
Listed == {r \in Rooms : room[r].kind \in {"session", "starter"}
                         /\ room[r].child # None /\ room[r].child = gateway.space}

SessionArchive(r) ==
    /\ MayStart("command") /\ r \in Listed /\ Commanded
    /\ room' = [room EXCEPT ![r].child = None]
    /\ UNCHANGED <<bots, users, fileVars, gateway, task>>

\* Mutant: the room is left before it is unlinked.
LeaveFirst(r) ==
    /\ MayStart("command") /\ r \in Listed /\ Commanded
    /\ room' = [room EXCEPT ![r].in = FALSE]
    /\ task' = [task EXCEPT !["command"] = Task("leave", gateway.bot, None, None, r)]
    /\ UNCHANGED <<bots, users, fileVars, gateway>>

\* deleteSessionRoom: unlinked, then left and forgotten.
SessionDelete(r) ==
    /\ MayStart("command") /\ r \in Listed /\ Commanded
    /\ room' = [room EXCEPT ![r].child = None]
    /\ task' = [task EXCEPT !["command"] = Task("leave", gateway.bot, None, None, r)]
    /\ UNCHANGED <<bots, users, fileVars, gateway>>

LeaveAndForget ==
    /\ task["command"].at = "leave"
    /\ room' = [room EXCEPT ![task["command"].room].in = FALSE]
    /\ task' = [task EXCEPT !["command"] = Idle]
    /\ UNCHANGED <<bots, users, fileVars, gateway, spent>>

\* The bot is no longer in a room of its workspace.
BotIsOut(f) ==
    /\ workspace # None /\ room[workspace[f]].in
    /\ room' = [room EXCEPT ![workspace[f]].in = FALSE]
    /\ Fault(f)
    /\ UNCHANGED <<bots, users, fileVars, gateway, task>>

-----------------------------------------------------------------------------
SetupSteps ==
    \/ provisionBot("setup") \/ ensureUser \/ JoinedRooms \/ CreateSpace \/ CreateControl
    \/ InviteToSpace \/ InviteToControl
    \/ CreateSession("setup") \/ LinkChild("setup") \/ LinkParent("setup")
    \/ writeChannelConfig("setup")

OtherSteps(t) == CreateSession(t) \/ LinkChild(t) \/ LinkParent(t)
MigrateSteps == provisionBot("migrate") \/ writeChannelConfig("migrate")

Next ==
    \/ BeginSetup \/ SetupSteps
    \/ runMigration \/ MigrateSteps \/ runReset
    \/ GatewayStarts \/ LoadRooms \/ GatewayEnds \/ onDeviceRedeemed
    \/ \E t \in InGateway : OtherSteps(t)
    \/ SessionNew \/ LeaveAndForget
    \/ \E r \in Rooms : SessionArchive(r) \/ SessionDelete(r)
    \/ \E t \in Tasks : Fails(t)
    \/ \E f \in {"space", "control"} : BotIsOut(f)

Spec == Init /\ [][Next]_vars

\* What was begun goes on, and setup is run again and again.
Fairness ==
    /\ SF_vars(BeginSetup) /\ WF_vars(SetupSteps) /\ WF_vars(MigrateSteps)
    /\ \A t \in InGateway : WF_vars(OtherSteps(t))
    /\ WF_vars(LeaveAndForget)

FairSpec == Spec /\ Fairness

-----------------------------------------------------------------------------
(* Properties. *)

RoomRecords == [kind : Kinds \cup {None}, bot : Bots \cup {None}, in : BOOLEAN,
                invited : SUBSET Bots, child : Rooms \cup {None}, parent : Rooms \cup {None}]
Stages == {"idle", "mint", "user", "joined", "space", "control", "invite_space",
           "invite_control", "session", "child", "parent", "config", "leave"}
TaskRecords == [at : Stages, bot : Bots \cup {None}, space : Rooms \cup {None},
                control : Rooms \cup {None}, room : Rooms \cup {None}]

\* Every variable has its type.
TypeOK ==
    /\ bots \in 0..MaxBots /\ users \subseteq Bots
    /\ room \in [Rooms -> RoomRecords] /\ task \in [Tasks -> TaskRecords]
    /\ creds \in Bots \cup {None} /\ config \in Bots \cup {None}
    /\ workspace \in [space : Rooms, control : Rooms] \cup {None}
    /\ onboarded \in [Bots -> Rooms \cup {None}]
    /\ v1 \in [present : BOOLEAN, saved : BOOLEAN]
    /\ gateway \in [bot : Bots \cup {None}, space : Rooms \cup {None},
                    control : Rooms \cup {None}]
    /\ spent \in [failures : 0..MaxFailures, resets : 0..MaxResets, commands : 0..MaxCommands]

Of(b, kind) == Cardinality({r \in Rooms : room[r].kind = kind /\ room[r].bot = b})

\* "Exactly one starter chat per user across setup re-runs, restarts, and further
\* pairings"; "re-running setup reuses the existing rooms and never spawns duplicates".
OneOfEach == \A b \in Bots, k \in {"space", "control", "starter"} : Of(b, k) =< 1

\* ... which is true of tasks that do not overlap, but for one room of a kind for every
\* request that failed and every reset that wiped the record under a running gateway.
DuplicatesHaveACause ==
    \A b \in Bots, k \in {"space", "control", "starter"} :
       Of(b, k) =< 1 + spent.failures + spent.resets

\* "Under it sits exactly one control room": the control room on file is linked, both
\* ways, to the space on file, and both are of one bot.
WorkspaceLinked ==
    workspace # None =>
       /\ room[workspace.control].child = workspace.space
       /\ room[workspace.control].parent = workspace.space
       /\ room[workspace.control].bot = room[workspace.space].bot

\* "A freshly paired device opens to a usable chat": a user is marked as onboarded only
\* with a chat of his own bot, to which he is invited and which belongs to a space.
OnboardedUsable ==
    \A u \in Bots : onboarded[u] # None =>
       LET r == room[onboarded[u]]
       IN /\ r.kind = "starter" /\ r.bot = u /\ u \in r.invited
          /\ r.parent # None /\ room[r.parent].kind = "space" /\ room[r.parent].bot = u

\* "Unlink first so the app stops listing it even if leave or forget fail": a session the
\* app lists is one the bot is in.
ListedIsLive ==
    \A r \in Rooms : room[r].kind \in {"session", "starter"} /\ room[r].child # None => room[r].in

\* A gateway serves only rooms its own bot created.
ServesOwnRooms == gateway.space # None => room[gateway.space].bot = gateway.bot

\* "Pair a device next": the bot in the config of a migrated account has a user to pair.
MigratedCanPair == v1.saved /\ config # None => config \in users

Complete(b) ==
    /\ b \in users /\ config = b /\ onboarded[b] # None
    /\ workspace # None
    /\ \A f \in {"space", "control"} :
          LET r == room[workspace[f]] IN r.in /\ r.bot = b /\ b \in r.invited

\* Setup is idempotent: however many of its requests fail, and whatever was reset, it is
\* complete in the end if it is run again until it succeeds.
SetupConverges == <>[](creds # None /\ Complete(creds))
=============================================================================
