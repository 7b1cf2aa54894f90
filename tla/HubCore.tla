----------------------------- MODULE HubCore -----------------------------
(***************************************************************************)
(* The websocket hub of internal/websocket (hub.go, client.go, server.go)  *)
(* with the rehydration callback of server/cmd/websocket_route.go and the  *)
(* rows of chat_rooms and chat_room_members that both read and write.      *)
(*                                                                         *)
(* A goroutine is a connection (the upgrade handler while the connection   *)
(* registers and rehydrates, its ReadPump afterwards), the hub's Run loop, *)
(* or Http, an HTTP handler that publishes through the hub.  todo[g] is    *)
(* what goroutine g still has to do before it reads the next message or    *)
(* returns to its select: one job for each section that hub.go runs under  *)
(* h.mu, and one for each loop over recipients, because hub.go releases    *)
(* h.mu before it sends.  A section is one step; so is each channel send.  *)
(***************************************************************************)
EXTENDS Naturals, Sequences, FiniteSets

CONSTANTS
    Conns,        \* the websocket connections (the *Client values) ever made
    Usernames,    \* the accounts
    NameOf,       \* NameOf[c]: the account that connection c authenticated as
    RoomIDs,      \* the ids that clients name rooms by
    Friends,      \* pairs of usernames for which AreFriends answers true
    PastRows,     \* the rows of a room that an earlier process may have left
    Requests,     \* the message types that clients and HTTP handlers issue
    SendCap,      \* capacity of Client.Send (256 in server.go)
    PresenceCap,  \* capacity of Hub.PresenceEvents (256 in NewHub)
    MaxRequests,  \* bound: messages handled and HTTP publications, in all
    NoOne,        \* no owner, no holder of h.mu
    Run, Http     \* the hub's loop; an HTTP handler goroutine

ASSUME NameAssumption == NameOf \in [Conns -> Usernames]
ASSUME PastAssumption ==
    PastRows \subseteq
        [owner : Usernames \cup {NoOne}, members : SUBSET Usernames]
ASSUME CapAssumption ==
    /\ SendCap \in Nat \ {0}
    /\ PresenceCap \in Nat \ {0}
    /\ MaxRequests \in Nat
ASSUME DistinctAssumption ==
    /\ Run \notin Conns /\ Http \notin Conns /\ Run # Http
    /\ NoOne \notin Conns \cup {Run, Http} \cup Usernames

Goroutines == Conns \cup {Run, Http}

VARIABLES
    clients,        \* h.Clients
    users,          \* h.Users, username |-> its connections ({}: no key)
    closed,         \* connections whose Send channel has been closed
    evicted,        \* history: those closed while their goroutine still ran
    open,           \* the keys of h.Rooms
    rooms,          \* h.Rooms, room |-> members ({} where not open)
    roomOwners,     \* h.RoomOwners (NoOne: no key)
    roomScreen,     \* h.RoomScreen, room |-> usernames sharing a screen
    stale,          \* history: rooms rehydrated from rows no longer there
    dbOwner,        \* chat_rooms.owner_id (NoOne: no row)
    dbMembers,      \* chat_room_members rows whose left_at is NULL
    phase,          \* where each connection's goroutine is in its life
    writing,        \* connections whose WritePump is running
    buffered,       \* number of messages in each Send channel
    presenceEvents, \* h.PresenceEvents
    announced,      \* history: what broadcastPresence said last of a user
    overflowed,     \* history: publishPresence has found the channel full
    todo,           \* per goroutine, the jobs it has yet to do
    mu,             \* the goroutine that holds h.mu across several steps
    crashed,        \* the process died of a panic
    issued          \* requests so far, against MaxRequests

registry == <<clients, users, closed, evicted>>
roomState == <<open, rooms, roomOwners, roomScreen, stale>>
database == <<dbOwner, dbMembers>>
pumps == <<phase, writing, buffered>>
presence == <<presenceEvents, announced, overflowed>>
data == <<registry, roomState, database, presence>>
control == <<mu, crashed, issued>>
vars == <<data, pumps, todo, control>>

Phases == {"new", "rehydrating", "live", "exiting",
           "panicking", "leaked", "gone"}

----------------------------------------------------------------------------
(* Jobs, in sequences. *)

\* A send loop over these recipients; evict: a full channel is reported.
Send(to, evict) ==
    IF to = {} THEN <<>> ELSE <<[op |-> "send", to |-> to, evict |-> evict]>>

\* sendSystem: one message to one client.
SendSystem(c) == Send({c}, TRUE)

\* sendToRoom, broadcastRoomMeta and broadcastScreenState all copy the members
\* of a room under RLock and then send to each; what they send differs.
ToMembers(r) == <<[op |-> "toMembers", room |-> r]>>
SendToRoom(r) == ToMembers(r)
BroadcastRoomMeta(r) == ToMembers(r)
BroadcastScreenState(r) == ToMembers(r)

\* SendRoomMetaToClient just drops when the channel is full;
\* SendScreenStateToClient uses trySend.
ToSelf(r, evict) == <<[op |-> "toSelf", room |-> r, evict |-> evict]>>
SendRoomMetaToClient(r) == ToSelf(r, FALSE)
SendScreenStateToClient(r) == ToSelf(r, TRUE)

\* sendDirect to all connections of a user; PublishSocialEvent to two users.
SendDirect(u) == <<[op |-> "direct", user |-> u]>>
SocialEvent(u, v) == SendDirect(u) \o SendDirect(v)

SignalTo(r, u) == <<[op |-> "signalTo", room |-> r, user |-> u]>>
Share(r, on) == <<[op |-> "share", room |-> r, on |-> on]>>
ListRoomsJob == <<[op |-> "listRooms"]>>
Rehydrate(rows) ==
    IF rows = {} THEN <<>> ELSE <<[op |-> "rehydrate", rows |-> rows]>>
Restore(r, ms, o) ==
    <<[op |-> "restore", room |-> r, to |-> ms, user |-> o]>>
UnlockJob == <<[op |-> "unlock"]>>
Register(c) == <<[op |-> "register", conn |-> c]>>
Unregister(c) == <<[op |-> "unregister", conn |-> c]>>
Refresh(rs) == IF rs = {} THEN <<>> ELSE <<[op |-> "refresh", rooms |-> rs]>>

\* ListActiveChatRoomsByUserID returns rows of chat_rooms.
Rows == [room : RoomIDs, owner : Usernames]

Jobs ==
    [op : {"send"}, to : SUBSET Conns, evict : BOOLEAN]
    \cup [op : {"toMembers"}, room : RoomIDs]
    \cup [op : {"toSelf"}, room : RoomIDs, evict : BOOLEAN]
    \cup [op : {"direct"}, user : Usernames]
    \cup [op : {"signalTo"}, room : RoomIDs, user : Usernames]
    \cup [op : {"share"}, room : RoomIDs, on : BOOLEAN]
    \cup [op : {"rehydrate"}, rows : SUBSET Rows]
    \cup [op : {"restore"}, room : RoomIDs, to : SUBSET Conns,
          user : Usernames]
    \cup [op : {"register", "unregister"}, conn : Conns]
    \cup [op : {"refresh"}, rooms : SUBSET RoomIDs]
    \cup [op : {"listRooms", "unlock"}]

\* Goroutine g is about to do a job of this kind.
At(g, op) == ~crashed /\ todo[g] # <<>> /\ Head(todo[g]).op = op

\* ... and does it, which leaves these jobs to do first.
Then(g, jobs) == todo' = [todo EXCEPT ![g] = jobs \o Tail(@)]

\* h.mu can be taken.  Sections are single steps, so only closeRoom, which
\* sends before it unlocks, is ever seen holding it.
Unlocked == mu = NoOne

\* A job that is a section under h.mu.
Section(g, op) == At(g, op) /\ Unlocked

----------------------------------------------------------------------------
\* NewHub, before any connection: the memory of a new process.
NewHub ==
    /\ clients = {}
    /\ users = [u \in Usernames |-> {}]
    /\ closed = {}
    /\ evicted = {}
    /\ open = {}
    /\ rooms = [r \in RoomIDs |-> {}]
    /\ roomOwners = [r \in RoomIDs |-> NoOne]
    /\ roomScreen = [r \in RoomIDs |-> {}]
    /\ stale = {}
    /\ writing = {}
    /\ buffered = [c \in Conns |-> 0]
    /\ presenceEvents = <<>>
    /\ announced = [u \in Usernames |-> FALSE]
    /\ overflowed = FALSE
    /\ todo = [g \in Goroutines |-> <<>>]
    /\ mu = NoOne

\* A new process finds the rows of an earlier one.  Against the bound, a room
\* that is there counts as the request that made it.
Init ==
    /\ NewHub
    /\ \E past \in [RoomIDs -> PastRows] :
         /\ dbOwner = [r \in RoomIDs |-> past[r].owner]
         /\ dbMembers = [r \in RoomIDs |-> past[r].members]
         /\ issued = Cardinality({r \in RoomIDs : past[r].owner # NoOne})
    /\ issued \in 0..MaxRequests
    /\ phase = [c \in Conns |-> "new"]
    /\ crashed = FALSE

----------------------------------------------------------------------------
(* Life of a connection: ServeWS, ReadPump, WritePump. *)

\* ServeWS up to hub.Register <- client, which Run takes at its select; ServeWS
\* goes on to rehydrateClientState while Run enters c in h.Clients.
Connect(c) ==
    /\ ~crashed
    /\ phase[c] = "new"
    /\ todo[Run] = <<>>
    /\ phase' = [phase EXCEPT ![c] = "rehydrating"]
    /\ todo' = [todo EXCEPT ![Run] = Register(c),
                            ![c] = ListRoomsJob]
    /\ UNCHANGED <<data, writing, buffered, control>>

\* ServeWS starts both pumps.
StartPumps(c) ==
    /\ ~crashed
    /\ phase[c] = "rehydrating"
    /\ todo[c] = <<>>
    /\ phase' = [phase EXCEPT ![c] = "live"]
    /\ writing' = writing \cup {c}
    /\ UNCHANGED <<data, buffered, todo, control>>

\* WritePump writes one message to the socket.
Drain(c) ==
    /\ ~crashed
    /\ c \in writing
    /\ buffered[c] > 0
    /\ buffered' = [buffered EXCEPT ![c] = @ - 1]
    /\ UNCHANGED <<data, phase, writing, todo, control>>

\* A bug: WritePump closes the socket only once ReadPump has returned.
WriterAwaitsReader(c) ==
    /\ ~crashed
    /\ c \in writing
    /\ phase[c] = "gone"
    /\ writing' = writing \ {c}
    /\ UNCHANGED <<data, phase, buffered, todo, control>>

\* WritePump sees the channel closed and drained, and closes the socket.
WriterSeesClose(c) ==
    /\ ~crashed
    /\ c \in writing
    /\ c \in closed
    /\ buffered[c] = 0
    /\ writing' = writing \ {c}
    /\ UNCHANGED <<data, phase, buffered, todo, control>>

\* A write or a ping fails: WritePump returns and closes the socket.
WriteFails(c) ==
    /\ ~crashed
    /\ c \in writing
    /\ writing' = writing \ {c}
    /\ UNCHANGED <<data, phase, buffered, todo, control>>

\* ReadJSON fails (peer gone, read deadline, socket closed by WritePump): the
\* deferred function of ReadPump waits at h.Unregister <- c.
ReadFails(c) ==
    /\ ~crashed
    /\ phase[c] = "live"
    /\ todo[c] = <<>>
    /\ phase' = [phase EXCEPT ![c] = "exiting"]
    /\ UNCHANGED <<data, writing, buffered, todo, control>>

\* A bug: ReadPump leaves by enqueueUnregister, which does not wait for Run.
ReadPumpDoesNotWait(c) ==
    /\ ~crashed
    /\ phase[c] = "exiting"
    /\ phase' = [phase EXCEPT ![c] = "gone"]
    /\ todo' = IF todo[Run] # <<>> THEN todo
               ELSE [todo EXCEPT ![Run] = Unregister(c)]
    /\ UNCHANGED <<data, writing, buffered, control>>

\* Run takes c from h.Unregister; ReadPump closes the socket and returns.
RunTakesUnregister(c) ==
    /\ ~crashed
    /\ todo[Run] = <<>>
    /\ phase[c] = "exiting"
    /\ phase' = [phase EXCEPT ![c] = "gone"]
    /\ todo' = [todo EXCEPT ![Run] = Unregister(c)]
    /\ UNCHANGED <<data, writing, buffered, control>>

\* The process dies: its memory and its sockets go, the database stays.
Crash ==
    /\ crashed' = TRUE
    /\ clients' = {}
    /\ users' = [u \in Usernames |-> {}]
    /\ closed' = {}
    /\ evicted' = {}
    /\ open' = {}
    /\ rooms' = [r \in RoomIDs |-> {}]
    /\ roomOwners' = [r \in RoomIDs |-> NoOne]
    /\ roomScreen' = [r \in RoomIDs |-> {}]
    /\ stale' = {}
    /\ writing' = {}
    /\ buffered' = [c \in Conns |-> 0]
    /\ presenceEvents' = <<>>
    /\ announced' = [u \in Usernames |-> FALSE]
    /\ overflowed' = FALSE
    /\ todo' = [g \in Goroutines |-> <<>>]
    /\ mu' = NoOne
    /\ phase' = [c \in Conns |-> IF phase[c] = "new" THEN "new" ELSE "gone"]
    /\ UNCHANGED <<database, issued>>

\* A panicking ReadPump gets past its deferred send to h.Unregister: nothing
\* recovers the panic, and the process ends.
PanicEndsProcess(c) ==
    /\ ~crashed
    /\ phase[c] = "panicking"
    /\ todo[Run] = <<>>
    /\ Crash

\* docker-compose restarts the server.
Restart ==
    /\ crashed
    /\ crashed' = FALSE
    /\ UNCHANGED <<data, pumps, todo, mu, issued>>

----------------------------------------------------------------------------
(* The Run loop. *)

\* publishPresence: queue the event, or drop it when the channel is full.
Publish(u, on) ==
    IF Len(presenceEvents) < PresenceCap
    THEN /\ presenceEvents' =
              Append(presenceEvents, [user |-> u, online |-> on])
         /\ UNCHANGED overflowed
    ELSE /\ overflowed' = TRUE
         /\ UNCHANGED presenceEvents

\* The Register case.
EnterClient(c) ==
    /\ Section(Run, "register")
    /\ Head(todo[Run]).conn = c
    /\ clients' = clients \cup {c}
    /\ users' = [users EXCEPT ![NameOf[c]] = @ \cup {c}]
    /\ IF users[NameOf[c]] = {}
       THEN Publish(NameOf[c], TRUE)
       ELSE UNCHANGED <<presenceEvents, overflowed>>
    /\ Then(Run, <<>>)
    /\ UNCHANGED <<closed, evicted, roomState, database, pumps, announced,
                   control>>

\* A bug: the Unregister case may skip a connection it should remove.
IgnoreAnyUnregister(c) ==
    /\ Section(Run, "unregister")
    /\ Head(todo[Run]).conn = c
    /\ Then(Run, <<>>)
    /\ UNCHANGED <<data, pumps, control>>

\* The Unregister case for a connection no longer in h.Clients.
IgnoreUnregister(c) ==
    /\ Section(Run, "unregister")
    /\ Head(todo[Run]).conn = c
    /\ c \notin clients
    /\ Then(Run, <<>>)
    /\ UNCHANGED <<data, pumps, control>>

\* A bug: the index forgets only the last connection of a user.
IndexWithoutLast(c) ==
    [users EXCEPT ![NameOf[c]] = IF @ = {c} THEN {} ELSE @]

\* delete(userConnections, c), and the key with the last one.
IndexWithout(c) == [users EXCEPT ![NameOf[c]] = @ \ {c}]

\* A bug: every removal counts as the user's last.
BecameOfflineAnyway(c) == c \in users[NameOf[c]]

BecameOffline(c) == users[NameOf[c]] \ {c} = {}

\* A bug: an owner that disconnects stays in its rooms.
RoomsKeepOwner(c) ==
    [r \in RoomIDs |-> IF roomOwners[r] = NameOf[c] THEN rooms[r]
                       ELSE rooms[r] \ {c}]

RoomsWithout(c) == [r \in RoomIDs |-> rooms[r] \ {c}]

\* Every room that is empty without c goes; every other one is told.
SweptRooms(c) == {r \in open : rooms[r] \ {c} = {}}

\* The Unregister case: close(client.Send) under the lock, then the
\* broadcasts of room meta and screen state.
RemoveClient(c) ==
    /\ Section(Run, "unregister")
    /\ Head(todo[Run]).conn = c
    /\ c \in clients
    /\ clients' = clients \ {c}
    /\ users' = IndexWithout(c)
    /\ closed' = closed \cup {c}
    /\ evicted' = IF phase[c] \in {"rehydrating", "live"}
                  THEN evicted \cup {c} ELSE evicted
    /\ open' = open \ SweptRooms(c)
    /\ rooms' = RoomsWithout(c)
    /\ roomOwners' = [r \in RoomIDs |->
                        IF r \in SweptRooms(c) THEN NoOne ELSE roomOwners[r]]
    /\ roomScreen' = [r \in RoomIDs |->
                        IF r \in SweptRooms(c) THEN {}
                        ELSE roomScreen[r] \ {NameOf[c]}]
    /\ IF BecameOffline(c)
       THEN Publish(NameOf[c], FALSE)
       ELSE UNCHANGED <<presenceEvents, overflowed>>
    /\ Then(Run, Refresh(open \ SweptRooms(c)))
    /\ UNCHANGED <<stale, database, pumps, announced, control>>

\* broadcastRoomMeta and broadcastScreenState of one affected room.
RefreshRoom(r) ==
    /\ At(Run, "refresh")
    /\ r \in Head(todo[Run]).rooms
    /\ Then(Run, BroadcastRoomMeta(r) \o BroadcastScreenState(r)
                   \o Refresh(Head(todo[Run]).rooms \ {r}))
    /\ UNCHANGED <<data, pumps, control>>

\* The PresenceEvents case: broadcastPresence to every client there is.
BroadcastPresence ==
    /\ ~crashed
    /\ todo[Run] = <<>>
    /\ Unlocked
    /\ presenceEvents # <<>>
    /\ announced' = [announced EXCEPT ![Head(presenceEvents).user] =
                                          Head(presenceEvents).online]
    /\ presenceEvents' = Tail(presenceEvents)
    /\ todo' = [todo EXCEPT ![Run] = Send(clients, TRUE)]
    /\ UNCHANGED <<registry, roomState, database, pumps, overflowed, control>>

----------------------------------------------------------------------------
(* Channel sends: trySend and the select statements of the send loops. *)

\* What is left of a send loop that has dealt with c.
Sent(g, c) == Send(Head(todo[g]).to \ {c}, Head(todo[g]).evict)

SendsTo(g, c) == At(g, "send") /\ c \in Head(todo[g]).to

\* A bug: the channel takes one message too many.
HasSpaceOffByOne(c) == buffered[c] <= SendCap

HasSpace(c) == buffered[c] < SendCap

\* There is room in the channel.
SendBuffered(g, c) ==
    /\ SendsTo(g, c)
    /\ c \notin closed
    /\ HasSpace(c)
    /\ buffered' = [buffered EXCEPT ![c] = @ + 1]
    /\ Then(g, Sent(g, c))
    /\ UNCHANGED <<data, phase, writing, control>>

\* A bug: a full client is handed to Run by a send that waits for it.
DropsOnlyUnreported(g, c) ==
    /\ SendsTo(g, c)
    /\ ~Head(todo[g]).evict
    /\ c \notin closed
    /\ ~HasSpace(c)
    /\ Then(g, Sent(g, c))
    /\ UNCHANGED <<data, pumps, control>>

\* The channel is full and the message is lost.  Either nothing else is
\* asked for, or enqueueUnregister finds no receiver at h.Unregister, which
\* is unbuffered: Run is busy, or not back at its select, or is g itself.
SendDropped(g, c) ==
    /\ SendsTo(g, c)
    /\ c \notin closed
    /\ ~HasSpace(c)
    /\ Then(g, Sent(g, c))
    /\ UNCHANGED <<data, pumps, control>>

\* The channel is full and enqueueUnregister hands c to Run at its select.
SendEvicts(g, c) ==
    /\ SendsTo(g, c)
    /\ Head(todo[g]).evict
    /\ c \notin closed
    /\ ~HasSpace(c)
    /\ g # Run
    /\ todo[Run] = <<>>
    /\ todo' = [todo EXCEPT ![g] = Sent(g, c) \o Tail(@),
                            ![Run] = Unregister(c)]
    /\ UNCHANGED <<data, pumps, control>>

\* c was closed after g copied the recipients: sending panics.  In a ReadPump
\* the deferred send to h.Unregister comes first (and closeRoom's deferred
\* unlock); under net/http the panic is recovered.
SendPanics(g, c) ==
    /\ g # Run
    /\ SendsTo(g, c)
    /\ c \in closed
    /\ todo' = [todo EXCEPT ![g] = <<>>]
    /\ mu' = IF mu = g THEN NoOne ELSE mu
    /\ phase' = [d \in Conns |->
                   IF d # g THEN phase[d]
                   ELSE IF phase[d] = "rehydrating" THEN "leaked"
                   ELSE "panicking"]
    /\ UNCHANGED <<data, writing, buffered, crashed, issued>>

\* In Run nothing recovers it.
RunPanics(c) ==
    /\ SendsTo(Run, c)
    /\ c \in closed
    /\ Crash

----------------------------------------------------------------------------
(* Sections that copy the recipients under h.mu.RLock. *)

CopyRecipients(g) ==
    /\ ~crashed
    /\ todo[g] # <<>>
    /\ Unlocked
    /\ LET job == Head(todo[g])
       IN  \/ job.op = "toMembers" /\ Then(g, Send(rooms[job.room], TRUE))
           \/ job.op = "direct" /\ Then(g, Send(users[job.user], TRUE))
           \/ /\ job.op = "toSelf"
              /\ g \in Conns
              /\ Then(g, IF rooms[job.room] = {} THEN <<>>
                         ELSE Send({g}, job.evict))
    /\ UNCHANGED <<data, pumps, control>>

=============================================================================
