----------------------------- MODULE ChatServer -----------------------------
(***************************************************************************)
(* The websocket server as one browser tab sees it: the rooms of one       *)
(* account, Me, the rows that survive its disconnections, and one other    *)
(* account, Other, that is connected all the time.  Hub models how the     *)
(* server comes by its answers; here a request is answered in one step, in *)
(* the order in which requests arrive, and no query fails, but for the     *)
(* insertion of a member into a room that is no longer there.              *)
(***************************************************************************)
EXTENDS Naturals, Sequences, FiniteSets

CONSTANTS
    Rooms,         \* the ids of rooms
    Me, Other,     \* the account of the tab, and another one
    None,          \* no owner, no room, no media stream
    HistoryLimit,  \* messages of a room sent to a new connection (30)
    OldRooms,      \* the rooms from before, room |-> [owner, mine, others]
    MaxOthers,     \* bound: what Other does
    MaxBreaks      \* bound: broken connections and failed attempts

ASSUME NameAssumption == Me # Other /\ None \notin Rooms \cup {Me, Other}
ASSUME LimitAssumption ==
    /\ IsFiniteSet(Rooms)
    /\ HistoryLimit \in Nat \ {0} /\ MaxOthers \in Nat /\ MaxBreaks \in Nat

Users == {Me, Other}

ASSUME OldRoomsAssumption ==
    OldRooms \subseteq [Rooms -> [owner : Users \cup {None}, mine : BOOLEAN, others : BOOLEAN]]

VARIABLES
    dbOwner,   \* chat_rooms.owner_id (None: no row)
    enrolled,  \* rooms whose row in chat_room_members keeps Me
    open,      \* the keys of h.Rooms
    meIn,      \* rooms that Me's connection is in
    otherIn,   \* rooms that Other's connection is in
    owner,     \* h.RoomOwners
    screens,   \* h.RoomScreen
    history,   \* chat_messages, room |-> the messages' numbers in order
    posted,    \* how many messages were stored
    due,       \* history: those stored since Me was enrolled in the room, while
               \* the room had a row
    refused,   \* history: rooms that Me could not be enrolled in
    inbox,     \* messages on their way to the tab
    outbox,    \* messages of the tab on their way to the server
    socket,    \* the tab's socket: none, connecting, open, closing
    others,    \* what Other has done, against MaxOthers
    breaks     \* broken connections, against MaxBreaks

rows == <<dbOwner, enrolled>>
memory == <<open, meIn, otherIn, owner, screens>>
chat == <<history, posted, due>>
server == <<rows, memory, chat, refused>>

Members(r) == {u \in Users : (u = Me /\ r \in meIn) \/ (u = Other /\ r \in otherIn)}

----------------------------------------------------------------------------
(* Messages to the tab. *)

RoomMeta(r) == [type |-> "room_meta", room |-> r, owner |-> owner'[r], users |-> Members(r)']
ScreenState(r) == [type |-> "screen_share_state", room |-> r, users |-> screens'[r]]
\* Of the system notices about a room the tab tells three apart.
System(r, what) == [type |-> "system", room |-> r, content |-> what]
Notice(r) == System(r, "notice")
RoomMessage(r, n) == [type |-> "room_message", room |-> r, id |-> n]
Share(r, u, on) == [type |-> "share", room |-> r, from |-> u, on |-> on]

\* Only an open socket still takes them.
Deliver(ms) == inbox' = IF socket = "open" THEN inbox \o ms ELSE inbox

----------------------------------------------------------------------------
(* A connection comes and goes. *)

\* The messages of a room that a new connection gets.
Recent(r) ==
    {history[r][i] : i \in {j \in DOMAIN history[r] : j > Len(history[r]) - HistoryLimit}}

RoomHistory(r) == [type |-> "history", room |-> r, ids |-> Recent(r)]

\* sendRoomSnapshot of each room that is listed, three messages a room.
Snapshots(list) ==
    [k \in 1..(3 * Len(list)) |->
        LET r == list[(k + 2) \div 3]
        IN  CASE k % 3 = 1 -> RoomMeta(r)
              [] k % 3 = 2 -> ScreenState(r)
              [] k % 3 = 0 -> RoomHistory(r)]

\* Rooms as a list; the order in which rows are found is left out.
Listing(S) ==
    CHOOSE list \in [1..Cardinality(S) -> S] :
        \A i, j \in 1..Cardinality(S) : list[i] = list[j] => i = j

\* rehydrateClientState: Me is back in every room that the rows have Me in, and
\* is told so last.
Rehydrate ==
    LET back == {r \in enrolled : dbOwner[r] # None}
        list == Listing(back)
    IN  /\ open' = open \cup back
        /\ meIn' = back
        /\ owner' = [r \in Rooms |-> IF r \in back THEN dbOwner[r] ELSE owner[r]]
        /\ UNCHANGED <<rows, otherIn, screens, chat, refused>>
        /\ inbox' = Snapshots(list) \o <<[type |-> "rooms", rooms |-> list]>>

\* The Unregister case of Run: rooms that Me was alone in go.
Unregister ==
    LET gone == {r \in open : r \notin otherIn}
    IN  /\ open' = open \ gone
        /\ meIn' = {}
        /\ owner' = [r \in Rooms |-> IF r \in gone THEN None ELSE owner[r]]
        /\ screens' = [r \in Rooms |-> IF r \in gone THEN {} ELSE screens[r] \ {Me}]
        /\ UNCHANGED <<rows, otherIn, chat, refused>>

----------------------------------------------------------------------------
(* The handlers of HandleMessage, for a request of Me about room r. *)

CreateRoom(r) ==
    /\ UNCHANGED <<otherIn, screens, chat, refused>>
    /\ \/ /\ r \in open
          /\ Deliver(<<Notice(r)>>)
          /\ UNCHANGED <<rows, open, meIn, owner>>
       \/ /\ r \notin open
          /\ dbOwner[r] = None
          /\ dbOwner' = [dbOwner EXCEPT ![r] = Me]
          /\ enrolled' = enrolled \cup {r}
          /\ open' = open \cup {r}
          /\ meIn' = meIn \cup {r}
          /\ owner' = [owner EXCEPT ![r] = Me]
          /\ Deliver(<<Notice(r), RoomMeta(r)>>)
       \/ /\ r \notin open
          /\ dbOwner[r] # None
          /\ owner' = [owner EXCEPT ![r] = None]
          /\ Deliver(<<Notice(r)>>)
          /\ UNCHANGED <<rows, open, meIn>>

JoinRoom(r) ==
    /\ open' = open \cup {r}
    /\ UNCHANGED <<dbOwner, otherIn, owner, screens, chat>>
    /\ \/ /\ enrolled' = enrolled \cup {r}
          /\ meIn' = meIn \cup {r}
          /\ Deliver(<<Notice(r), RoomMeta(r)>>)
          /\ UNCHANGED refused
       \/ /\ dbOwner[r] = None
          /\ r \notin meIn
          /\ Deliver(<<Notice(r)>>)
          /\ refused' = refused \cup {r}
          /\ UNCHANGED <<enrolled, meIn>>

\* A room without members goes, and its owner and sharers with it.
Emptied(r, left) ==
    /\ open' = IF left THEN open ELSE open \ {r}
    /\ owner' = [owner EXCEPT ![r] = IF left THEN @ ELSE None]

LeaveRoom(r) ==
    /\ UNCHANGED <<dbOwner, otherIn, history, posted, refused>>
    /\ \/ /\ r \in open
          /\ enrolled' = enrolled \ {r}
          /\ meIn' = meIn \ {r}
          /\ Emptied(r, r \in otherIn)
          /\ screens' = [screens EXCEPT ![r] = IF r \in otherIn THEN @ \ {Me} ELSE {}]
          /\ due' = [due EXCEPT ![r] = {}]
          /\ Deliver(<<System(r, "left room")>>)
       \/ /\ r \notin open
          /\ UNCHANGED <<enrolled, open, meIn, owner, screens, due, inbox>>

\* The room and its rows go; members are told.
Close(r) ==
    /\ dbOwner' = [dbOwner EXCEPT ![r] = None]
    /\ enrolled' = enrolled \ {r}
    /\ open' = open \ {r}
    /\ meIn' = meIn \ {r}
    /\ otherIn' = otherIn \ {r}
    /\ owner' = [owner EXCEPT ![r] = None]
    /\ screens' = [screens EXCEPT ![r] = {}]
    /\ history' = [history EXCEPT ![r] = <<>>]
    /\ due' = [due EXCEPT ![r] = {}]
    /\ Deliver(IF r \in meIn THEN <<System(r, "room closed")>> ELSE <<>>)
    /\ UNCHANGED <<posted, refused>>

CloseRoom(r) ==
    \/ owner[r] = Me /\ dbOwner[r] = Me /\ Close(r)
    \/ /\ ~(owner[r] = Me /\ dbOwner[r] = Me)
       /\ Deliver(<<System(r, IF owner[r] = None THEN "room does not exist" ELSE "notice")>>)
       /\ UNCHANGED server

AddToRoom(r) ==
    \/ /\ r \in meIn
       /\ r \notin otherIn
       /\ otherIn' = otherIn \cup {r}
       /\ UNCHANGED <<rows, open, meIn, owner, screens, chat, refused>>
       /\ Deliver(<<Notice(r), RoomMeta(r)>>)
    \/ /\ r \notin meIn \/ r \in otherIn
       /\ Deliver(<<System(r, IF r \in open THEN "notice" ELSE "room does not exist")>>)
       /\ UNCHANGED server

\* sendToRoom, which does not ask whether the sender is in the room.
Post(r) ==
    /\ r \in open
    /\ posted' = posted + 1
    /\ history' = [history EXCEPT ![r] = Append(@, posted')]
    /\ due' = IF r \in enrolled /\ dbOwner[r] # None
              THEN [due EXCEPT ![r] = @ \cup {posted'}]
              ELSE due
    /\ Deliver(IF r \in meIn THEN <<RoomMessage(r, posted')>> ELSE <<>>)
    /\ UNCHANGED <<rows, memory, refused>>

\* updateScreenShareState and broadcastScreenState, after the echo.
SetShare(r, u, on) ==
    /\ screens' = [screens EXCEPT ![r] = IF on THEN @ \cup {u} ELSE @ \ {u}]
    /\ Deliver(IF r \in meIn THEN <<Share(r, u, on), ScreenState(r)>> ELSE <<>>)
    /\ UNCHANGED <<rows, open, meIn, otherIn, owner, chat, refused>>

\* forwardRealtimeRoomSignal: sharing, and what only concerns the others.
Signal(r, type) ==
    \/ /\ r \in meIn
       /\ type \in {"screen_share_start", "screen_share_stop"}
       /\ SetShare(r, Me, type = "screen_share_start")
    \/ /\ r \in meIn
       /\ type \in {"voice_join", "voice_leave", "voice_state"}
       /\ UNCHANGED <<server, inbox>>
    \/ /\ r \notin meIn
       /\ Deliver(<<Notice(r)>>)
       /\ UNCHANGED server

\* ReadPump takes the next message of the tab.
HandleMessage ==
    /\ outbox # <<>>
    /\ outbox' = Tail(outbox)
    /\ \E m \in {Head(outbox)} :
         \/ m.type = "create_room" /\ CreateRoom(m.room)
         \/ m.type = "join_room" /\ JoinRoom(m.room)
         \/ m.type = "leave_room" /\ LeaveRoom(m.room)
         \/ m.type = "close_room" /\ CloseRoom(m.room)
         \/ m.type = "add_to_room" /\ AddToRoom(m.room)
         \/ m.type = "room_message" /\ Post(m.room)
         \/ /\ \/ m.type = "direct_message"
               \/ m.type = "room_message" /\ m.room \notin open
            /\ UNCHANGED <<server, inbox>>
         \/ /\ m.type \in {"voice_join", "voice_leave", "voice_state",
                           "screen_share_start", "screen_share_stop"}
            /\ Signal(m.room, m.type)
    /\ UNCHANGED <<socket, others, breaks>>

----------------------------------------------------------------------------
(* What Other does meanwhile. *)

OtherJoins(r) ==
    /\ r \notin otherIn
    /\ dbOwner[r] # None
    /\ open' = open \cup {r}
    /\ otherIn' = otherIn \cup {r}
    /\ UNCHANGED <<rows, meIn, owner, screens, chat, refused>>
    /\ Deliver(IF r \in meIn THEN <<RoomMeta(r)>> ELSE <<>>)

OtherLeaves(r) ==
    /\ r \in otherIn
    /\ otherIn' = otherIn \ {r}
    /\ Emptied(r, r \in meIn)
    /\ screens' = [screens EXCEPT ![r] = IF r \in meIn THEN @ \ {Other} ELSE {}]
    /\ UNCHANGED <<rows, meIn, chat, refused>>
    /\ Deliver(IF r \in meIn THEN <<RoomMeta(r), ScreenState(r)>> ELSE <<>>)

OtherAddsMe(r) ==
    /\ r \in otherIn
    /\ r \notin meIn
    /\ socket = "open"
    /\ enrolled' = enrolled \cup {r}
    /\ meIn' = meIn \cup {r}
    /\ UNCHANGED <<dbOwner, open, otherIn, owner, screens, chat, refused>>
    /\ Deliver(<<Notice(r), RoomMeta(r)>>)

OtherActs ==
    /\ others < MaxOthers
    /\ others' = others + 1
    /\ \E r \in Rooms :
         \/ OtherJoins(r) \/ OtherLeaves(r) \/ OtherAddsMe(r)
         \/ r \in otherIn /\ owner[r] = Other /\ Close(r)
         \/ r \in otherIn /\ Post(r)
         \/ r \in otherIn /\ SetShare(r, Other, Other \notin screens[r])
    /\ UNCHANGED <<outbox, socket, breaks>>

----------------------------------------------------------------------------
ServerInit ==
    /\ \E old \in OldRooms :
         /\ dbOwner = [r \in Rooms |-> old[r].owner]
         /\ enrolled = {r \in Rooms : old[r].mine}
         /\ otherIn = {r \in Rooms : old[r].others}
         /\ owner = [r \in Rooms |-> IF old[r].others THEN old[r].owner ELSE None]
    /\ open = otherIn
    /\ meIn = {}
    /\ screens = [r \in Rooms |-> {}]
    /\ history = [r \in Rooms |-> <<>>]
    /\ posted = 0
    /\ due = [r \in Rooms |-> {}]
    /\ refused = {}
    /\ inbox = <<>>
    /\ outbox = <<>>
    /\ others = 0
    /\ breaks = 0

=============================================================================
