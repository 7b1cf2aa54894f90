-------------------------- MODULE WorkspaceProofs --------------------------
(***************************************************************************)
(* Proofs that the tab and the server agree when they have dealt with all  *)
(* they have sent each other, and that the tab keeps hold of its media.    *)
(***************************************************************************)
EXTENDS Workspace, FiniteSetTheorems, TLAPS

Contents == {"notice", "room does not exist", "left room", "room closed"}
Orders ==
    {"create_room", "join_room", "leave_room", "close_room", "add_to_room", "room_message",
     "voice_join", "voice_leave", "voice_state", "screen_share_start", "screen_share_stop"}

Distinct(list) == \A i, j \in DOMAIN list : list[i] = list[j] => i = j
Lists == {list \in Seq(Rooms) : Distinct(list)}

\* What the server sends, and what the tab sends.
News ==
    [type : {"room_meta"}, room : Rooms, owner : Users \cup {None}, users : SUBSET Users]
      \cup [type : {"screen_share_state"}, room : Rooms, users : SUBSET Users]
      \cup [type : {"history"}, room : Rooms, ids : SUBSET Nat]
      \cup [type : {"system"}, room : Rooms, content : Contents]
      \cup [type : {"room_message"}, room : Rooms, id : Nat]
      \cup [type : {"share"}, room : Rooms, from : Users, on : BOOLEAN]
      \cup [type : {"rooms"}, rooms : Lists]
Requests == [type : Orders, room : Rooms] \cup {[type |-> "direct_message"]}

ServerTypes ==
    /\ dbOwner \in [Rooms -> Users \cup {None}]
    /\ enrolled \subseteq Rooms
    /\ open \subseteq Rooms
    /\ meIn \subseteq open
    /\ otherIn \subseteq open
    /\ owner \in [Rooms -> Users \cup {None}]
    /\ screens \in [Rooms -> SUBSET Users]
    /\ posted \in Nat
    /\ history \in [Rooms -> Seq(1..posted)]
    /\ due \in [Rooms -> SUBSET (1..posted)]
    /\ refused \subseteq Rooms

\* The ids of messages that m carries to the tab.
Carries(m) ==
    IF m.type = "room_message" THEN {m.id} ELSE IF m.type = "history" THEN m.ids ELSE {}

BoxTypes ==
    /\ inbox \in Seq(News)
    /\ outbox \in Seq(Requests)
    /\ \A i \in DOMAIN inbox : Carries(inbox[i]) \subseteq 1..posted

Types == TypeOK /\ ServerTypes /\ BoxTypes

\* Without an open socket nothing is on its way to the tab.
LinkInv ==
    /\ NoZombieReconnect
    /\ socket # "open" => inbox = <<>>
    /\ status = "online" => socket = "open"
    /\ timer => socket = "none"
    /\ mounted /\ socket # "open" => joined = {}

\* A call is in a room, and a prompt that is the only one leads to the only
\* stream of its kind.
MediaInv ==
    /\ CapturesAreReferenced
    /\ voice => voiceRoom # None
    /\ sharing = "none" => screenStream = None
    /\ ~overlapped =>
         /\ \A p, q \in asking : p = q
         /\ \A p \in asking : IF p.kind = "mic" THEN localStream = None ELSE screenStream = None

\* What a message says of room r: that it is over, that the tab is in it, or
\* anything that its entry in meta depends on.
IsOver(m, r) == m.type = "system" /\ m.content \in Ends /\ m.room = r
Names(m, r) == m.type = "rooms" /\ \E k \in DOMAIN m.rooms : m.rooms[k] = r
Touches(m, r) ==
    \/ m.type = "room_meta" /\ m.room = r
    \/ IsOver(m, r)
    \/ m.type = "rooms" /\ ~Names(m, r)

\* What the tab takes itself to be in, it is in, or was refused, or it will know
\* better; or the server will.
JoinInv ==
    mounted /\ socket = "open" =>
      /\ \A r \in joined : \/ r \in meIn \cup refused
                           \/ \E i \in DOMAIN inbox : IsOver(inbox[i], r)
                           \/ \E i \in DOMAIN outbox : outbox[i] = Msg("join_room", r)
      /\ \A i \in DOMAIN inbox : \A r \in Rooms :
           Names(inbox[i], r) => \/ r \in meIn \cup refused
                                 \/ \E j \in DOMAIN inbox : i < j /\ IsOver(inbox[j], r)

Current(r) == [owner |-> owner[r], users |-> Members(r)]
MetaOf(r) == [type |-> "room_meta", room |-> r, owner |-> owner[r], users |-> Members(r)]

\* The last that the tab has heard or will hear of a room is right.
MetaInv ==
    mounted /\ socket = "open" => \A r \in meIn :
        \/ meta[r] = Current(r) /\ \A i \in DOMAIN inbox : ~Touches(inbox[i], r)
        \/ \E i \in DOMAIN inbox :
             /\ inbox[i] = MetaOf(r)
             /\ \A j \in DOMAIN inbox : i < j => ~Touches(inbox[j], r)

\* Me is in the rooms that the rows have Me in, messages are due only in those,
\* and what is due and recent is shown or on its way.
RowsInv ==
    /\ socket = "open" => {r \in enrolled : dbOwner[r] # None} \subseteq meIn
    /\ \A r \in Rooms : due[r] # {} => r \in enrolled /\ dbOwner[r] # None

DueInv ==
    mounted /\ socket = "open" => \A r \in Rooms : \A n \in Recent(r) \cap due[r] :
        n \in shown \/ \E i \in DOMAIN inbox : n \in Carries(inbox[i])

IInv == Types /\ LinkInv /\ MediaInv /\ JoinInv /\ MetaInv /\ RowsInv /\ DueInv

----------------------------------------------------------------------------
(* What is on its way. *)

LEMMA SentIs ==
    ASSUME BoxTypes, NEW ms \in Seq(Requests), Send(ms)
    PROVE  /\ outbox' \in Seq(Requests)
           /\ Len(outbox) <= Len(outbox')
           /\ \A i \in DOMAIN outbox : i \in DOMAIN outbox' /\ outbox'[i] = outbox[i]
           /\ socket = "open" => \A k \in DOMAIN ms :
                /\ Len(outbox) + k \in DOMAIN outbox'
                /\ outbox'[Len(outbox) + k] = ms[k]
                /\ Len(outbox) + k > Len(outbox)
<1>1. outbox \in Seq(Requests)
  BY DEF BoxTypes
<1>2. CASE socket = "open"
  <2>1. outbox' = outbox \o ms
    BY <1>2 DEF Send
  <2>2. /\ Len(outbox \o ms) = Len(outbox) + Len(ms) /\ outbox \o ms \in Seq(Requests)
        /\ Len(outbox) \in Nat /\ Len(ms) \in Nat
        /\ DOMAIN outbox = 1..Len(outbox) /\ DOMAIN ms = 1..Len(ms)
        /\ DOMAIN (outbox \o ms) = 1..(Len(outbox) + Len(ms))
    BY <1>1
  <2>3. /\ \A i \in 1..Len(outbox) : (outbox \o ms)[i] = outbox[i]
        /\ \A k \in 1..Len(ms) : (outbox \o ms)[Len(outbox) + k] = ms[k]
    BY <1>1
  <2> QED
    BY <2>1, <2>2, <2>3
<1>3. CASE socket # "open"
  BY <1>1, <1>3 DEF Send
<1> QED
  BY <1>2, <1>3

LEMMA DeliveredIs ==
    ASSUME BoxTypes, NEW ms \in Seq(News), Deliver(ms), socket = "open"
    PROVE  /\ inbox' \in Seq(News)
           /\ \A i \in DOMAIN inbox : i \in DOMAIN inbox' /\ inbox'[i] = inbox[i]
           /\ \A k \in DOMAIN ms :
                /\ Len(inbox) + k \in DOMAIN inbox'
                /\ inbox'[Len(inbox) + k] = ms[k]
           /\ \A i \in DOMAIN inbox' :
                \/ i \in DOMAIN inbox
                \/ \E k \in DOMAIN ms : i = Len(inbox) + k
           /\ \A i \in DOMAIN inbox : i \in Nat /\ i <= Len(inbox)
           /\ \A k \in DOMAIN ms : k \in Nat /\ 1 <= k
           /\ Len(inbox) \in Nat
<1>1. inbox \in Seq(News)
  BY DEF BoxTypes
<1>2. inbox' = inbox \o ms
  BY DEF Deliver
<1>3. /\ Len(inbox \o ms) = Len(inbox) + Len(ms) /\ inbox \o ms \in Seq(News)
      /\ Len(inbox) \in Nat /\ Len(ms) \in Nat
      /\ DOMAIN inbox = 1..Len(inbox) /\ DOMAIN ms = 1..Len(ms)
      /\ DOMAIN (inbox \o ms) = 1..(Len(inbox) + Len(ms))
  BY <1>1
<1>4. /\ \A i \in 1..Len(inbox) : (inbox \o ms)[i] = inbox[i]
      /\ \A k \in 1..Len(ms) : (inbox \o ms)[Len(inbox) + k] = ms[k]
  BY <1>1
<1>5. ASSUME NEW i \in 1..(Len(inbox) + Len(ms)), i \notin 1..Len(inbox)
      PROVE  \E k \in 1..Len(ms) : i = Len(inbox) + k
  <2>1. i - Len(inbox) \in 1..Len(ms) /\ i = Len(inbox) + (i - Len(inbox))
    BY <1>3, <1>5
  <2> QED
    BY <2>1
<1>6. \A i \in DOMAIN inbox' : i \in DOMAIN inbox \/ \E k \in DOMAIN ms : i = Len(inbox) + k
  BY <1>2, <1>3, <1>5
<1>7. /\ \A i \in DOMAIN inbox : i \in DOMAIN inbox' /\ inbox'[i] = inbox[i]
      /\ \A i \in DOMAIN inbox : i \in Nat /\ i <= Len(inbox)
  BY <1>2, <1>3, <1>4
<1>8. \A k \in DOMAIN ms : /\ Len(inbox) + k \in DOMAIN inbox'
                           /\ inbox'[Len(inbox) + k] = ms[k]
                           /\ k \in Nat /\ 1 <= k
  BY <1>2, <1>3, <1>4
<1> QED
  BY <1>2, <1>3, <1>6, <1>7, <1>8

LEMMA TailIs ==
    ASSUME BoxTypes, inbox # <<>>, inbox' = Tail(inbox)
    PROVE  /\ 1 \in DOMAIN inbox /\ Head(inbox) = inbox[1] /\ Head(inbox) \in News
           /\ inbox' \in Seq(News)
           /\ \A i \in DOMAIN inbox' :
                i \in Nat /\ i + 1 \in DOMAIN inbox /\ inbox'[i] = inbox[i + 1] /\ i + 1 # 1
           /\ \A i \in DOMAIN inbox : i # 1 => i - 1 \in DOMAIN inbox' /\ inbox'[i - 1] = inbox[i]
           /\ \A i \in DOMAIN inbox : i \in Nat /\ i >= 1
<1>1. inbox \in Seq(News) /\ Len(inbox) \in Nat /\ Len(inbox) >= 1
  BY DEF BoxTypes
<1> QED
  BY <1>1

----------------------------------------------------------------------------
(* What the tab does by itself. *)

\* A step that only sends, and may take the tab to be in a room that it asks for,
\* keeps all that relates the tab to the server.
LEMMA TabKeeps ==
    ASSUME IInv, NEW ms \in Seq(Requests), Send(ms),
           UNCHANGED <<server, inbox, mounted, status, timer, socket, meta, shown>>,
           \/ joined' = joined
           \/ \E r \in Rooms :
                /\ joined' = joined \cup {r}
                /\ status = "online"
                /\ r \in joined \/ \E k \in DOMAIN ms : ms[k] = Msg("join_room", r)
    PROVE  /\ ServerTypes' /\ BoxTypes' /\ LinkInv' /\ JoinInv' /\ MetaInv' /\ RowsInv' /\ DueInv'
<1> USE DEF IInv, Types
<1>1. UNCHANGED <<dbOwner, enrolled, open, meIn, otherIn, owner, screens, history, posted,
                  due, refused>>
  BY DEF server, rows, memory, chat
<1>2. ServerTypes'
  BY <1>1 DEF ServerTypes
<1>3. BoxTypes'
  BY <1>1, SentIs DEF BoxTypes
<1>4. LinkInv'
  BY DEF LinkInv, NoZombieReconnect
<1>5. JoinInv'
  <2>1. \A r \in Rooms : (\E i \in DOMAIN outbox : outbox[i] = Msg("join_room", r))
           => (\E i \in DOMAIN outbox' : outbox'[i] = Msg("join_room", r))
    BY SentIs
  <2>2. \A r \in Rooms : socket = "open" /\ (\E k \in DOMAIN ms : ms[k] = Msg("join_room", r))
           => (\E i \in DOMAIN outbox' : outbox'[i] = Msg("join_room", r))
    BY SentIs
  <2>3. joined \subseteq Rooms
    BY DEF TypeOK
  <2> QED
    BY <1>1, <2>1, <2>2, <2>3 DEF JoinInv
<1>6. MetaInv'
  BY <1>1 DEF MetaInv, MetaOf, Current, Members
<1>7. RowsInv' /\ DueInv'
  BY <1>1 DEF RowsInv, DueInv, Recent
<1> QED
  BY <1>2, <1>3, <1>4, <1>5, <1>6, <1>7

\* The tab does something by itself that TabKeeps is about.
TabStep ==
    /\ UNCHANGED <<server, inbox, mounted, status, timer, socket, meta, shown>>
    /\ \E ms \in Seq(Requests) :
         /\ Send(ms)
         /\ \/ joined' = joined
            \/ \E r \in Rooms :
                 /\ joined' = joined \cup {r}
                 /\ status = "online"
                 /\ r \in joined \/ \E k \in DOMAIN ms : ms[k] = Msg("join_room", r)

LEMMA TabStepKeeps ==
    ASSUME IInv, TabStep, TypeOK', MediaInv'
    PROVE  IInv'
<1>1. PICK ms \in Seq(Requests) :
         /\ Send(ms)
         /\ \/ joined' = joined
            \/ \E r \in Rooms :
                 /\ joined' = joined \cup {r}
                 /\ status = "online"
                 /\ r \in joined \/ \E k \in DOMAIN ms : ms[k] = Msg("join_room", r)
  BY DEF TabStep
<1>2. UNCHANGED <<server, inbox, mounted, status, timer, socket, meta, shown>>
  BY DEF TabStep
<1> QED
  BY <1>1, <1>2, TabKeeps DEF IInv, Types

LEMMA MsgType ==
    /\ \A r \in Rooms : \A order \in Orders : Msg(order, r) \in Requests
    /\ \A r \in Rooms : \A order \in Orders : <<Msg(order, r)>> \in Seq(Requests)
    /\ <<[type |-> "direct_message"]>> \in Seq(Requests)
    /\ <<>> \in Seq(Requests)
<1>1. \A r \in Rooms : \A order \in Orders : Msg(order, r) \in Requests
  BY DEF Msg, Requests
<1>2. [type |-> "direct_message"] \in Requests
  BY DEF Requests
<1> QED
  BY <1>1, <1>2

LEMMA LeaveSignalsType ==
    ASSUME NEW r \in Rooms \cup {None}
    PROVE  LeaveSignals(r) \in Seq(Requests)
<1>1. CASE r = None
  BY <1>1, MsgType DEF LeaveSignals
<1>2. CASE r # None
  <2> DEFINE stop == IF screenStream # None THEN <<Msg("screen_share_stop", r)>> ELSE <<>>
             leave == IF voice THEN <<Msg("voice_leave", r)>> ELSE <<>>
  <2>1. r \in Rooms /\ "screen_share_stop" \in Orders /\ "voice_leave" \in Orders
    BY <1>2 DEF Orders
  <2>2. stop \in Seq(Requests) /\ leave \in Seq(Requests)
    BY <2>1, MsgType
  <2>3. LeaveSignals(r) = stop \o leave
    BY <1>2 DEF LeaveSignals
  <2> HIDE DEF stop, leave
  <2> QED
    BY <2>2, <2>3
<1> QED
  BY <1>1, <1>2

LEMMA NothingSent ==
    ASSUME BoxTypes, UNCHANGED outbox
    PROVE  Send(<<>>)
  BY DEF Send, BoxTypes

\* Cleanup lets go of all streams.
LEMMA CleanupKeeps ==
    ASSUME TypeOK, MediaInv, Cleanup
    PROVE  /\ MediaInv'
           /\ {voice', heard', joiningVoice'} \subseteq BOOLEAN /\ voiceRoom' = None
           /\ localStream' = None /\ screenStream' = None /\ sharing' = "none"
           /\ live' \subseteq Captures
           /\ UNCHANGED <<micMuted, asking>>
  BY DEF Cleanup, StopTracks, MediaInv, CapturesAreReferenced, TypeOK

LEMMA ActBySendingKeeps ==
    ASSUME IInv, NEW what, NEW ms \in Seq(Requests), ActBySending(what, ms)
    PROVE  TypeOK' /\ MediaInv' /\ TabStep
<1>1. /\ UNCHANGED <<view, news, call, media, prompts, tasks>> /\ Send(ms)
      /\ UNCHANGED <<server, inbox, link>>
  BY DEF ActBySending, Act, client
<1>2. UNCHANGED posted
  BY <1>1 DEF server, chat
<1>3. TypeOK'
  BY <1>1, <1>2 DEF IInv, Types, TypeOK, view, news, call, media, prompts, tasks, link
<1>4. MediaInv'
  BY <1>1 DEF IInv, MediaInv, CapturesAreReferenced, call, media, prompts
<1>5. TabStep
  BY <1>1 DEF TabStep, link, view, news
<1> QED
  BY <1>3, <1>4, <1>5

LEMMA JoinSelectedRoomKeeps ==
    ASSUME IInv, NEW r \in Rooms, HandleJoinSelectedRoom(r)
    PROVE  TypeOK' /\ MediaInv' /\ TabStep
<1> USE DEF IInv, Types
<1> DEFINE left == IF activeRoom = None THEN <<>>
                   ELSE LeaveSignals(activeRoom) \o <<Msg("leave_room", activeRoom)>>
           asks == IF r \in joined THEN <<>> ELSE <<Msg("join_room", r)>>
<1>1. /\ UNCHANGED <<server, inbox, link, news, tasks, rooms>>
      /\ status = "online"
      /\ Send(left \o asks)
      /\ joiningRoom' = TRUE /\ direct' = FALSE
      /\ activeRoom' = r /\ joined' = joined \cup {r}
      /\ UNCHANGED <<call, media, prompts>> \/ Cleanup
  BY DEF HandleJoinSelectedRoom, Act
<1>2. MediaInv' /\ TypeOK'
  <2>1. UNCHANGED posted
    BY <1>1 DEF server, chat
  <2>2. CASE UNCHANGED <<call, media, prompts>>
    <3>1. MediaInv'
      BY <2>2 DEF MediaInv, CapturesAreReferenced, call, media, prompts
    <3>2. TypeOK'
      BY <1>1, <2>1, <2>2 DEF TypeOK, news, call, media, prompts, tasks, link
    <3> QED
      BY <3>1, <3>2
  <2>3. CASE Cleanup
    BY <1>1, <2>1, <2>3, CleanupKeeps DEF TypeOK, news, tasks, link
  <2> QED
    BY <1>1, <2>2, <2>3
<1>3. TabStep
  <2>1. left \in Seq(Requests)
    <3>1. CASE activeRoom = None
      BY <3>1, MsgType
    <3>2. CASE activeRoom # None
      <4>1. activeRoom \in Rooms /\ "leave_room" \in Orders
        BY <3>2 DEF TypeOK, Orders
      <4>2. LeaveSignals(activeRoom) \in Seq(Requests)
        BY <4>1, LeaveSignalsType
      <4>3. <<Msg("leave_room", activeRoom)>> \in Seq(Requests)
        BY <4>1, MsgType
      <4> QED
        BY <3>2, <4>2, <4>3
    <3> QED
      BY <3>1, <3>2
  <2>2. asks \in Seq(Requests)
    BY MsgType DEF Orders
  <2> HIDE DEF left
  <2>3. r \in joined \/ \E k \in DOMAIN (left \o asks) : (left \o asks)[k] = Msg("join_room", r)
    <3>1. CASE r \in joined
      BY <3>1
    <3>2. CASE r \notin joined
      <4>1. asks = <<Msg("join_room", r)>>
        BY <3>2
      <4> HIDE DEF asks
      <4>2. /\ Len(left) + 1 \in DOMAIN (left \o asks)
            /\ (left \o asks)[Len(left) + 1] = Msg("join_room", r)
        BY <2>1, <4>1
      <4> QED
        BY <4>2
    <3> QED
      BY <3>1, <3>2
  <2>4. left \o asks \in Seq(Requests)
    BY <2>1, <2>2
  <2> HIDE DEF asks
  <2> QED
    BY <1>1, <2>3, <2>4 DEF TabStep, link, news
<1> QED
  BY <1>2, <1>3

LEMMA RoomClickKeeps ==
    ASSUME IInv, RoomClicks
    PROVE  TypeOK' /\ MediaInv' /\ TabStep
<1> USE DEF IInv, Types
<1>1. ASSUME NEW r \in Rooms, HandleCreateRoom(r)
      PROVE  TypeOK' /\ MediaInv' /\ TabStep
  <2>1. <<Msg("create_room", r)>> \in Seq(Requests)
    BY MsgType DEF Orders
  <2> QED
    BY <1>1, <2>1, ActBySendingKeeps DEF HandleCreateRoom
<1>2. ASSUME NEW r \in Rooms, HandleSelectRoom(r)
      PROVE  TypeOK' /\ MediaInv' /\ TabStep
  <2>1. /\ UNCHANGED <<server, inbox, link, outbox, rooms, activeRoom, joined, joiningRoom, news,
                        call, media, prompts, tasks>>
        /\ direct' = FALSE
    BY <1>2 DEF HandleSelectRoom, Act
  <2>2. UNCHANGED posted
    BY <2>1 DEF server, chat
  <2>3. TypeOK'
    BY <2>1, <2>2 DEF TypeOK, news, call, media, prompts, tasks, link
  <2>4. MediaInv'
    BY <2>1 DEF MediaInv, CapturesAreReferenced, call, media, prompts
  <2> QED
    BY <2>1, <2>3, <2>4, NothingSent, MsgType DEF TabStep, link, news
<1>3. ASSUME NEW r \in Rooms, HandleJoinSelectedRoom(r)
      PROVE  TypeOK' /\ MediaInv' /\ TabStep
  BY <1>3, JoinSelectedRoomKeeps
<1>4. ASSUME HandleSelectDirectFriend
      PROVE  TypeOK' /\ MediaInv' /\ TabStep
  <2>1. /\ UNCHANGED <<server, inbox, link, outbox, rooms, joined, joiningRoom, news,
                        call, media, prompts, tasks>>
        /\ activeRoom' = None
    BY <1>4 DEF HandleSelectDirectFriend, Act
  <2>2. UNCHANGED posted
    BY <2>1 DEF server, chat
  <2>3. TypeOK'
    BY <2>1, <2>2 DEF TypeOK, news, call, media, prompts, tasks, link
  <2>4. MediaInv'
    BY <2>1 DEF MediaInv, CapturesAreReferenced, call, media, prompts
  <2> QED
    BY <2>1, <2>3, <2>4, NothingSent, MsgType DEF TabStep, link, news
<1>5. ASSUME HandleCloseRoom \/ HandleAddFriendToRoom
      PROVE  TypeOK' /\ MediaInv' /\ TabStep
  <2>1. activeRoom \in Rooms
    BY <1>5 DEF HandleCloseRoom, HandleAddFriendToRoom, IsActiveRoomOwner, TypeOK
  <2>2. /\ <<Msg("close_room", activeRoom)>> \in Seq(Requests)
        /\ <<Msg("add_to_room", activeRoom)>> \in Seq(Requests)
    BY <2>1, MsgType DEF Orders
  <2> QED
    BY <1>5, <2>2, ActBySendingKeeps DEF HandleCloseRoom, HandleAddFriendToRoom
<1>6. ASSUME HandleSendRoomMessage
      PROVE  TypeOK' /\ MediaInv' /\ TabStep
  <2>1. (IF direct THEN <<[type |-> "direct_message"]>>
         ELSE <<Msg("room_message", activeRoom)>>) \in Seq(Requests)
    <3>1. direct \/ activeRoom \in Rooms
      BY <1>6 DEF HandleSendRoomMessage, TypeOK
    <3> QED
      BY <3>1, MsgType DEF Orders
  <2> QED
    BY <1>6, <2>1, ActBySendingKeeps DEF HandleSendRoomMessage
<1>7. ASSUME HandleLeaveRoom
      PROVE  TypeOK' /\ MediaInv' /\ TabStep
  <2>1. /\ UNCHANGED <<server, inbox, link, view, news, voiceRoom, joiningVoice, micMuted, media,
                        prompts, tasks>>
        /\ voice' = FALSE
        /\ Send(LeaveSignals(activeRoom) \o <<Msg("leave_room", activeRoom)>>)
    BY <1>7 DEF HandleLeaveRoom, Act
  <2>2. LeaveSignals(activeRoom) \o <<Msg("leave_room", activeRoom)>> \in Seq(Requests)
    <3>1. activeRoom \in Rooms /\ "leave_room" \in Orders
      BY <1>7 DEF HandleLeaveRoom, TypeOK, Orders
    <3>2. LeaveSignals(activeRoom) \in Seq(Requests)
      BY <3>1, LeaveSignalsType
    <3>3. <<Msg("leave_room", activeRoom)>> \in Seq(Requests)
      BY <3>1, MsgType
    <3> QED
      BY <3>2, <3>3
  <2>3. UNCHANGED posted
    BY <2>1 DEF server, chat
  <2>4. TypeOK'
    BY <2>1, <2>3 DEF TypeOK, view, news, media, prompts, tasks, link
  <2>5. MediaInv'
    BY <2>1 DEF MediaInv, CapturesAreReferenced, media, prompts
  <2> QED
    BY <2>1, <2>2, <2>4, <2>5 DEF TabStep, link, view, news
<1>8. ASSUME HandleUploadAttachment
      PROVE  TypeOK' /\ MediaInv' /\ TabStep
  <2>1. UNCHANGED <<server, inbox, link, outbox, view, news, call, media, prompts>>
    BY <1>8 DEF HandleUploadAttachment, Act
  <2>2. UNCHANGED posted
    BY <2>1 DEF server, chat
  <2>3. TypeOK'
    BY <2>1, <2>2 DEF TypeOK, view, news, call, media, prompts, link
  <2>4. MediaInv'
    BY <2>1 DEF MediaInv, CapturesAreReferenced, call, media, prompts
  <2> QED
    BY <2>1, <2>3, <2>4, NothingSent, MsgType DEF TabStep, link, view, news
<1> QED
  BY <1>1, <1>2, <1>3, <1>4, <1>5, <1>6, <1>7, <1>8 DEF RoomClicks

LEMMA JoinVoiceKeeps ==
    ASSUME IInv, HandleJoinVoice
    PROVE  TypeOK' /\ MediaInv' /\ TabStep
<1> USE DEF IInv, Types
<1>1. /\ UNCHANGED <<server, inbox, link, view, news, micMuted, media, tasks>>
      /\ joiningVoice' = TRUE /\ activeRoom \in Rooms
  BY DEF HandleJoinVoice, Act, CallButton, TypeOK
<1>2. UNCHANGED posted
  BY <1>1 DEF server, chat
<1>3. CASE localStream = None /\ Ask("mic", activeRoom) /\ UNCHANGED <<outbox, voice, voiceRoom>>
  <2>1. /\ asking' = asking \cup {[kind |-> "mic", room |-> activeRoom]}
        /\ overlapped' = (overlapped \/ asking # {})
    BY <1>3 DEF Ask
  <2>2. TypeOK'
    BY <1>1, <1>2, <1>3, <2>1 DEF TypeOK, Prompts, view, news, media, tasks, link
  <2>3. MediaInv'
    <3>1. ~overlapped' => ~overlapped /\ asking = {}
      BY <2>1, Zenon
    <3>2. asking = {} => asking' = {[kind |-> "mic", room |-> activeRoom]}
      BY <2>1
    <3> QED
      BY <1>1, <1>3, <3>1, <3>2 DEF MediaInv, CapturesAreReferenced, media
  <2> QED
    BY <1>1, <1>3, <2>2, <2>3, NothingSent, MsgType DEF TabStep, link, view, news
<1>4. CASE EnterCall(activeRoom) /\ UNCHANGED prompts
  <2>1. voice' = TRUE /\ voiceRoom' = activeRoom /\ Send(<<Msg("voice_join", activeRoom)>>)
    BY <1>4 DEF EnterCall
  <2>2. TypeOK'
    BY <1>1, <1>2, <1>4, <2>1 DEF TypeOK, view, news, media, tasks, link, prompts
  <2>3. MediaInv'
    BY <1>1, <1>4, <2>1, NameAssumption DEF MediaInv, CapturesAreReferenced, media, prompts
  <2>4. <<Msg("voice_join", activeRoom)>> \in Seq(Requests)
    BY <1>1, MsgType DEF Orders
  <2> QED
    BY <1>1, <2>1, <2>2, <2>3, <2>4 DEF TabStep, link, view, news
<1> QED
  BY <1>3, <1>4 DEF HandleJoinVoice

LEMMA LeaveVoiceKeeps ==
    ASSUME IInv, HandleLeaveVoice
    PROVE  TypeOK' /\ MediaInv' /\ TabStep
<1> USE DEF IInv, Types
<1>1. /\ UNCHANGED <<server, inbox, link, view, news, tasks>> /\ Cleanup
      /\ Send(<<Msg("voice_leave", TargetRoom)>>) /\ TargetRoom \in Rooms
  BY DEF HandleLeaveVoice, Act, CallButton, TargetRoom, TypeOK
<1>2. UNCHANGED posted
  BY <1>1 DEF server, chat
<1>3. TypeOK' /\ MediaInv'
  BY <1>1, <1>2, CleanupKeeps DEF TypeOK, view, news, tasks, link
<1>4. <<Msg("voice_leave", TargetRoom)>> \in Seq(Requests)
  BY <1>1, MsgType DEF Orders
<1> QED
  BY <1>1, <1>3, <1>4 DEF TabStep, link, view, news

LEMMA StartShareKeeps ==
    ASSUME IInv, NEW kind \in {"screen", "camera"}, HandleStartShare(kind)
    PROVE  TypeOK' /\ MediaInv' /\ TabStep
<1> USE DEF IInv, Types
<1>1. /\ UNCHANGED <<server, inbox, link, outbox, view, news, call, media, tasks>>
      /\ sharing = "none" /\ TargetRoom \in Rooms
      /\ asking' = asking \cup {[kind |-> kind, room |-> TargetRoom]}
      /\ overlapped' = (overlapped \/ asking # {})
  BY DEF HandleStartShare, Ask, Act, CallButton, TargetRoom, TypeOK
<1>2. UNCHANGED posted
  BY <1>1 DEF server, chat
<1>3. TypeOK'
  BY <1>1, <1>2 DEF TypeOK, Prompts, view, news, call, media, tasks, link
<1>4. MediaInv'
  <2>1. ~overlapped' => ~overlapped /\ asking = {}
    BY <1>1, Zenon
  <2>2. asking = {} => asking' = {[kind |-> kind, room |-> TargetRoom]}
    BY <1>1
  <2> QED
    BY <1>1, <2>1, <2>2 DEF MediaInv, CapturesAreReferenced, media, call
<1> QED
  BY <1>1, <1>3, <1>4, NothingSent, MsgType DEF TabStep, link, view, news

LEMMA StopShareKeeps ==
    ASSUME IInv, \/ HandleStopShare
                 \/ \E s \in Captures : TrackEnds(s)
    PROVE  TypeOK' /\ MediaInv' /\ TabStep
<1> USE DEF IInv, Types
<1>1. UNCHANGED <<server, inbox, link, view, meta, shown, call, localStream, heard, prompts, tasks>>
  BY DEF HandleStopShare, TrackEnds
<1>2. UNCHANGED posted
  BY <1>1 DEF server, chat
<1>3. CASE /\ screenStream' = None /\ sharing' = "none" /\ TargetRoom \in Rooms
           /\ \E s \in Captures \cup {None} : live' = live \ {s, screenStream}
           /\ Send(<<Msg("screen_share_stop", TargetRoom)>>)
           /\ sharers' = [sharers EXCEPT ![TargetRoom] = @ \ {Me}]
  <2>1. TypeOK'
    BY <1>1, <1>2, <1>3 DEF TypeOK, view, call, prompts, tasks, link
  <2>2. MediaInv'
    BY <1>1, <1>3 DEF MediaInv, CapturesAreReferenced, call, prompts
  <2>3. <<Msg("screen_share_stop", TargetRoom)>> \in Seq(Requests)
    BY <1>3, MsgType DEF Orders
  <2> QED
    BY <1>1, <1>3, <2>1, <2>2, <2>3 DEF TabStep, link, view
<1>4. CASE /\ UNCHANGED <<screenStream, sharing, outbox, sharers>>
           /\ \E s \in Captures : live' = live \ {s}
  <2>1. TypeOK'
    BY <1>1, <1>2, <1>4 DEF TypeOK, view, call, prompts, tasks, link
  <2>2. MediaInv'
    BY <1>1, <1>4 DEF MediaInv, CapturesAreReferenced, call, prompts
  <2> QED
    BY <1>1, <1>4, <2>1, <2>2, NothingSent, MsgType DEF TabStep, link, view
<1>5. ASSUME HandleStopShare
      PROVE  /\ screenStream' = None /\ sharing' = "none" /\ TargetRoom \in Rooms
             /\ \E s \in Captures \cup {None} : live' = live \ {s, screenStream}
             /\ Send(<<Msg("screen_share_stop", TargetRoom)>>)
             /\ sharers' = [sharers EXCEPT ![TargetRoom] = @ \ {Me}]
  <2>1. TargetRoom \in Rooms /\ screenStream \in Captures
    BY <1>5 DEF HandleStopShare, CallButton, TargetRoom, TypeOK
  <2>2. live' = live \ {screenStream, screenStream}
    BY <1>5 DEF HandleStopShare, StopScreenShare
  <2> QED
    BY <1>5, <2>1, <2>2 DEF HandleStopShare, StopScreenShare
<1>6. ASSUME NEW s \in Captures, TrackEnds(s), screenStream # None, TargetRoom # None,
             live' = live \ {s, screenStream},
             screenStream' = None, sharing' = "none",
             Send(<<Msg("screen_share_stop", TargetRoom)>>),
             sharers' = [sharers EXCEPT ![TargetRoom] = @ \ {Me}]
      PROVE  TypeOK' /\ MediaInv' /\ TabStep
  BY <1>3, <1>6 DEF TargetRoom, TypeOK
<1> QED
  BY <1>3, <1>4, <1>5, <1>6 DEF TrackEnds

LEMMA ToggleMicKeeps ==
    ASSUME IInv, HandleToggleMic
    PROVE  TypeOK' /\ MediaInv' /\ TabStep
<1> USE DEF IInv, Types
<1>1. /\ UNCHANGED <<server, inbox, link, view, news, voice, voiceRoom, joiningVoice, localStream,
                      screenStream, sharing, live, prompts, tasks>>
      /\ micMuted' \in BOOLEAN /\ heard' \in BOOLEAN
      /\ Send(<<Msg("voice_state", TargetRoom)>>) /\ TargetRoom \in Rooms
  BY DEF HandleToggleMic, Act, CallButton, TargetRoom, TypeOK
<1>2. UNCHANGED posted
  BY <1>1 DEF server, chat
<1>3. TypeOK'
  BY <1>1, <1>2 DEF TypeOK, view, news, prompts, tasks, link
<1>4. MediaInv'
  BY <1>1 DEF MediaInv, CapturesAreReferenced, prompts
<1>5. <<Msg("voice_state", TargetRoom)>> \in Seq(Requests)
  BY <1>1, MsgType DEF Orders
<1> QED
  BY <1>1, <1>3, <1>4, <1>5 DEF TabStep, link, view, news

LEMMA CallClickKeeps ==
    ASSUME IInv, CallClicks
    PROVE  TypeOK' /\ MediaInv' /\ TabStep
  BY JoinVoiceKeeps, LeaveVoiceKeeps, StartShareKeeps, StopShareKeeps, ToggleMicKeeps DEF CallClicks

LEMMA MicGrantedKeeps ==
    ASSUME IInv, NEW p \in asking, NEW s \in Captures, MicGranted(p, s)
    PROVE  TypeOK' /\ MediaInv' /\ TabStep
<1> USE DEF IInv, Types
<1>1. /\ UNCHANGED <<server, inbox, link, view, tasks, overlapped, news, joiningVoice, micMuted,
                      screenStream, sharing>>
      /\ p.kind = "mic" /\ p.room \in Rooms
      /\ asking' = asking \ {p} /\ live' = live \cup {s} /\ localStream' = s /\ heard' = TRUE
      /\ voice' = TRUE /\ voiceRoom' = p.room /\ Send(<<Msg("voice_join", p.room)>>)
  BY DEF MicGranted, Granted, EnterCall, TypeOK, Prompts
<1>2. UNCHANGED posted
  BY <1>1 DEF server, chat
<1>3. TypeOK'
  BY <1>1, <1>2 DEF TypeOK, view, news, tasks, link
<1>4. MediaInv'
  <2>1. voiceRoom' # None
    BY <1>1, NameAssumption
  <2>2. ~overlapped => asking = {p} /\ localStream = None
    BY <1>1 DEF MediaInv
  <2>3. CapturesAreReferenced'
    BY <1>1, <2>2, CaptureAssumption DEF MediaInv, CapturesAreReferenced, TypeOK
  <2> QED
    BY <1>1, <2>1, <2>2, <2>3 DEF MediaInv
<1>5. <<Msg("voice_join", p.room)>> \in Seq(Requests)
  BY <1>1, MsgType DEF Orders
<1> QED
  BY <1>1, <1>3, <1>4, <1>5 DEF TabStep, link, view, news

LEMMA ShareGrantedKeeps ==
    ASSUME IInv, NEW p \in asking, NEW s \in Captures, ShareGranted(p, s)
    PROVE  TypeOK' /\ MediaInv' /\ TabStep
<1> USE DEF IInv, Types
<1>1. /\ UNCHANGED <<server, inbox, link, view, tasks, overlapped, meta, shown, call, localStream,
                      heard>>
      /\ p.kind \in {"screen", "camera"} /\ p.room \in Rooms
      /\ asking' = asking \ {p} /\ live' = live \cup {s} /\ screenStream' = s
      /\ sharing' = p.kind /\ Send(<<Msg("screen_share_start", p.room)>>)
      /\ sharers' = [sharers EXCEPT ![p.room] = @ \cup {Me}]
  BY DEF ShareGranted, Granted, TypeOK, Prompts
<1>2. UNCHANGED posted
  BY <1>1 DEF server, chat
<1>3. TypeOK'
  BY <1>1, <1>2 DEF TypeOK, Users, view, call, tasks, link
<1>4. MediaInv'
  <2>1. ~overlapped => asking = {p} /\ screenStream = None
    BY <1>1 DEF MediaInv
  <2>2. CapturesAreReferenced'
    BY <1>1, <2>1, CaptureAssumption DEF MediaInv, CapturesAreReferenced, TypeOK
  <2> QED
    BY <1>1, <2>1, <2>2 DEF MediaInv, call
<1>5. <<Msg("screen_share_start", p.room)>> \in Seq(Requests)
  BY <1>1, MsgType DEF Orders
<1> QED
  BY <1>1, <1>3, <1>4, <1>5 DEF TabStep, link, view

LEMMA OtherTabStepKeeps ==
    ASSUME IInv, \/ \E p \in asking : Denied(p)
                 \/ JoiningRoomEnds \/ JoiningVoiceEnds \/ HandleLogout
    PROVE  TypeOK' /\ MediaInv' /\ TabStep
<1> USE DEF IInv, Types
<1>1. /\ UNCHANGED <<server, inbox, link, rooms, activeRoom, joined, news, voice, voiceRoom,
                      micMuted, media, overlapped>>
      /\ joiningRoom' \in BOOLEAN /\ joiningVoice' \in BOOLEAN
      /\ asking' \subseteq asking
  BY DEF Denied, JoiningRoomEnds, JoiningVoiceEnds, HandleLogout, Act, TypeOK, view, call, prompts,
         channels
<1>2. UNCHANGED posted
  BY <1>1 DEF server, chat
<1>3. TypeOK'
  BY <1>1, <1>2 DEF TypeOK, news, media, link
<1>4. MediaInv'
  BY <1>1 DEF MediaInv, CapturesAreReferenced, media
<1>5. \E ms \in Seq(Requests) : Send(ms)
  <2>1. CASE HandleLogout
    <3>1. LeaveSignals(activeRoom) \in Seq(Requests)
      BY LeaveSignalsType DEF TypeOK
    <3> QED
      BY <2>1, <3>1 DEF HandleLogout
  <2>2. CASE ~HandleLogout
    <3>1. UNCHANGED outbox
      BY <2>2 DEF Denied, JoiningRoomEnds, JoiningVoiceEnds, channels
    <3> QED
      BY <3>1, NothingSent, MsgType
  <2> QED
    BY <2>1, <2>2
<1> QED
  BY <1>1, <1>3, <1>4, <1>5 DEF TabStep, link, news

----------------------------------------------------------------------------
(* What the server does. *)

\* A step of the server that sends ms: whoever is not in a room any more is
\* told, and so is the entry of a room that changed, after all else about it;
\* and what is posted to a member is sent.
Answers(ms) ==
    /\ Deliver(ms) /\ ms \in Seq(News)
    /\ ServerTypes' /\ RowsInv'
    /\ posted <= posted' /\ refused \subseteq refused'
    /\ \A k \in DOMAIN ms : ms[k].type # "rooms" /\ Carries(ms[k]) \subseteq 1..posted'
    /\ socket = "open" =>
         /\ \A r \in meIn : r \in meIn' \/ \E k \in DOMAIN ms : IsOver(ms[k], r)
         /\ \A r \in meIn' :
              \/ /\ r \in meIn /\ Current(r)' = Current(r) /\ MetaOf(r)' = MetaOf(r)
                 /\ \A k \in DOMAIN ms : ~Touches(ms[k], r)
              \/ \E k \in DOMAIN ms : /\ ms[k] = MetaOf(r)'
                                      /\ \A j \in DOMAIN ms : k < j => ~Touches(ms[j], r)
         /\ \A r \in Rooms : \A n \in Recent(r)' \cap due'[r] :
              n \in Recent(r) \cap due[r] \/ \E k \in DOMAIN ms : n \in Carries(ms[k])

LEMMA AnswersKeep ==
    ASSUME IInv, NEW ms, Answers(ms),
           UNCHANGED <<mounted, status, timer, socket, view, news, call, media, prompts>>,
           \/ UNCHANGED outbox
           \/ /\ outbox # <<>> /\ outbox' = Tail(outbox)
              /\ \A r \in Rooms : Head(outbox) = Msg("join_room", r) => r \in meIn' \cup refused'
    PROVE  IInv'
<1> USE DEF IInv, Types
<1>1. /\ Deliver(ms) /\ ms \in Seq(News) /\ ServerTypes' /\ RowsInv'
      /\ posted <= posted' /\ refused \subseteq refused' /\ posted \in Nat /\ posted' \in Nat
      /\ \A k \in DOMAIN ms : ms[k].type # "rooms" /\ Carries(ms[k]) \subseteq 1..posted'
  BY DEF Answers, ServerTypes
<1>2. TypeOK'
  <2>1. shown' \subseteq 1..posted'
    BY <1>1 DEF TypeOK, news
  <2> QED
    BY <2>1 DEF TypeOK, view, news, call, media, prompts
<1>3. BoxTypes'
  <2>1. outbox' \in Seq(Requests)
    BY DEF BoxTypes
  <2>2. CASE socket = "open"
    <3>1. inbox' \in Seq(News)
      BY <1>1, <2>2, DeliveredIs
    <3>2. ASSUME NEW i \in DOMAIN inbox' PROVE Carries(inbox'[i]) \subseteq 1..posted'
      <4>1. CASE i \in DOMAIN inbox
        <5>1. inbox'[i] = inbox[i]
          BY <1>1, <2>2, <4>1, DeliveredIs
        <5>2. Carries(inbox[i]) \subseteq 1..posted
          BY <4>1 DEF BoxTypes
        <5> QED
          BY <1>1, <5>1, <5>2
      <4>2. CASE \E k \in DOMAIN ms : i = Len(inbox) + k
        BY <1>1, <2>2, <4>2, DeliveredIs
      <4> QED
        BY <1>1, <2>2, <4>1, <4>2, DeliveredIs
    <3> QED
      BY <2>1, <3>1, <3>2 DEF BoxTypes, Carries
  <2>3. CASE socket # "open"
    <3>1. inbox' = inbox
      BY <1>1, <2>3 DEF Deliver
    <3>2. \A i \in DOMAIN inbox : Carries(inbox[i]) \subseteq 1..posted'
      BY <1>1 DEF BoxTypes
    <3> QED
      BY <2>1, <3>1, <3>2 DEF BoxTypes
  <2> QED
    BY <2>2, <2>3
<1>4. LinkInv'
  BY <1>1 DEF LinkInv, NoZombieReconnect, Deliver, view
<1>5. MediaInv'
  BY DEF MediaInv, CapturesAreReferenced, call, media, prompts
<1>6. ASSUME socket = "open", mounted
      PROVE  JoinInv' /\ MetaInv' /\ DueInv'
  <2>1. /\ \A i \in DOMAIN inbox : i \in DOMAIN inbox' /\ inbox'[i] = inbox[i]
        /\ \A k \in DOMAIN ms :
             /\ Len(inbox) + k \in DOMAIN inbox'
             /\ inbox'[Len(inbox) + k] = ms[k]
        /\ \A i \in DOMAIN inbox' : i \in DOMAIN inbox \/ \E k \in DOMAIN ms : i = Len(inbox) + k
        /\ \A i \in DOMAIN inbox : i \in Nat /\ i <= Len(inbox)
        /\ \A k \in DOMAIN ms : k \in Nat /\ 1 <= k
        /\ Len(inbox) \in Nat
    BY <1>1, <1>6, DeliveredIs
  <2>2. \A r \in meIn : r \in meIn' \/ \E k \in DOMAIN ms : IsOver(ms[k], r)
    BY <1>6 DEF Answers
  <2>3. /\ \A r \in joined : \/ r \in meIn \cup refused
                             \/ \E i \in DOMAIN inbox : IsOver(inbox[i], r)
                             \/ \E i \in DOMAIN outbox : outbox[i] = Msg("join_room", r)
        /\ \A i \in DOMAIN inbox : \A r \in Rooms :
             Names(inbox[i], r) => \/ r \in meIn \cup refused
                                   \/ \E j \in DOMAIN inbox : i < j /\ IsOver(inbox[j], r)
    BY <1>6 DEF JoinInv
  <2>4. ASSUME NEW r \in joined
        PROVE  \/ r \in meIn' \cup refused'
               \/ \E i \in DOMAIN inbox' : IsOver(inbox'[i], r)
               \/ \E i \in DOMAIN outbox' : outbox'[i] = Msg("join_room", r)
    <3>1. joined \subseteq Rooms
      BY DEF TypeOK
    <3>2. CASE r \in meIn
      BY <2>1, <2>2, <3>2
    <3>3. CASE r \in refused
      BY <1>1, <3>3
    <3>4. CASE \E i \in DOMAIN inbox : IsOver(inbox[i], r)
      BY <2>1, <3>4
    <3>5. CASE \E i \in DOMAIN outbox : outbox[i] = Msg("join_room", r)
      <4>1. PICK i \in DOMAIN outbox : outbox[i] = Msg("join_room", r)
        BY <3>5
      <4>2. CASE UNCHANGED outbox
        BY <4>1, <4>2
      <4>3. CASE /\ outbox # <<>> /\ outbox' = Tail(outbox)
                 /\ \A q \in Rooms :
                      Head(outbox) = Msg("join_room", q) => q \in meIn' \cup refused'
        <5>1. outbox \in Seq(Requests)
          BY DEF BoxTypes
        <5>2. CASE i = 1
          BY <3>1, <4>1, <4>3, <5>1, <5>2
        <5>3. CASE i # 1
          <6>1. i - 1 \in DOMAIN outbox' /\ outbox'[i - 1] = outbox[i]
            BY <4>1, <4>3, <5>1, <5>3
          <6> QED
            BY <4>1, <6>1
        <5> QED
          BY <5>2, <5>3
      <4> QED
        BY <4>2, <4>3
    <3> QED
      BY <2>3, <3>2, <3>3, <3>4, <3>5
  <2>5. ASSUME NEW i \in DOMAIN inbox', NEW r \in Rooms, Names(inbox'[i], r)
        PROVE  \/ r \in meIn' \cup refused'
               \/ \E j \in DOMAIN inbox' : i < j /\ IsOver(inbox'[j], r)
    <3>1. i \in DOMAIN inbox /\ Names(inbox[i], r)
      <4>1. \A k \in DOMAIN ms : ~Names(ms[k], r)
        BY <1>1 DEF Names
      <4> QED
        BY <2>1, <2>5, <4>1
    <3>2. CASE r \in meIn
      <4>1. \A k \in DOMAIN ms : i < Len(inbox) + k
        BY <2>1, <3>1
      <4> QED
        BY <2>1, <2>2, <3>2, <4>1
    <3>3. CASE r \in refused
      BY <1>1, <3>3
    <3>4. CASE \E j \in DOMAIN inbox : i < j /\ IsOver(inbox[j], r)
      BY <2>1, <3>4
    <3> QED
      BY <2>3, <3>1, <3>2, <3>3, <3>4
  <2>6. JoinInv'
    BY <2>4, <2>5 DEF JoinInv, IsOver, Names, view
  <2>7. ASSUME NEW r \in meIn'
        PROVE  \/ meta'[r] = Current(r)' /\ \A i \in DOMAIN inbox' : ~Touches(inbox'[i], r)
               \/ \E i \in DOMAIN inbox' :
                    /\ inbox'[i] = MetaOf(r)'
                    /\ \A j \in DOMAIN inbox' : i < j => ~Touches(inbox'[j], r)
    <3>1. CASE /\ r \in meIn /\ Current(r)' = Current(r) /\ MetaOf(r)' = MetaOf(r)
               /\ \A k \in DOMAIN ms : ~Touches(ms[k], r)
      <4>1. meta' = meta
        BY DEF news
      <4>2. CASE meta[r] = Current(r) /\ \A i \in DOMAIN inbox : ~Touches(inbox[i], r)
        BY <2>1, <3>1, <4>1, <4>2
      <4>3. CASE \E i \in DOMAIN inbox :
                   /\ inbox[i] = MetaOf(r)
                   /\ \A j \in DOMAIN inbox : i < j => ~Touches(inbox[j], r)
        BY <2>1, <3>1, <4>3
      <4> QED
        BY <1>6, <3>1, <4>2, <4>3 DEF MetaInv
    <3>2. CASE \E k \in DOMAIN ms : /\ ms[k] = MetaOf(r)'
                                    /\ \A j \in DOMAIN ms : k < j => ~Touches(ms[j], r)
      <4>1. PICK k \in DOMAIN ms : /\ ms[k] = MetaOf(r)'
                                   /\ \A j \in DOMAIN ms : k < j => ~Touches(ms[j], r)
        BY <3>2
      <4>2. ASSUME NEW j \in DOMAIN inbox', Len(inbox) + k < j
            PROVE  ~Touches(inbox'[j], r)
        <5>1. PICK l \in DOMAIN ms : j = Len(inbox) + l
          BY <2>1, <4>2
        <5>2. k < l
          BY <2>1, <4>2, <5>1
        <5> QED
          BY <2>1, <4>1, <5>1, <5>2
      <4> QED
        BY <2>1, <4>1, <4>2
    <3> QED
      BY <1>6, <3>1, <3>2 DEF Answers
  <2>8. MetaInv'
    BY <2>7 DEF MetaInv, MetaOf, Touches, IsOver, Names
  <2>9. DueInv'
    <3>1. ASSUME NEW r \in Rooms, NEW n \in Recent(r)' \cap due'[r]
          PROVE  n \in shown \/ \E i \in DOMAIN inbox' : n \in Carries(inbox'[i])
      <4>1. CASE n \in Recent(r) \cap due[r]
        BY <1>6, <2>1, <4>1 DEF DueInv
      <4>2. CASE \E k \in DOMAIN ms : n \in Carries(ms[k])
        BY <2>1, <4>2
      <4> QED
        BY <1>6, <3>1, <4>1, <4>2 DEF Answers
    <3> QED
      BY <3>1 DEF DueInv, Carries, news
  <2> QED
    BY <2>6, <2>8, <2>9
<1>7. JoinInv' /\ MetaInv' /\ DueInv'
  BY <1>6 DEF JoinInv, MetaInv, DueInv
<1> QED
  BY <1>1, <1>2, <1>3, <1>4, <1>5, <1>7

\* A message that nothing follows from but for what it carries.
Harmless(m) == m \in News /\ m.type # "rooms" /\ \A q \in Rooms : ~Touches(m, q)

LEMMA Messages ==
    ASSUME NEW r \in Rooms
    PROVE  /\ \A c \in Contents :
                /\ System(r, c) \in News /\ System(r, c).type = "system"
                /\ System(r, c).room = r /\ System(r, c).content = c
                /\ Carries(System(r, c)) = {}
                /\ c \notin Ends => Harmless(System(r, c))
                /\ c \in Ends => IsOver(System(r, c), r)
                /\ \A q \in Rooms \ {r} : ~Touches(System(r, c), q)
           /\ Harmless(Notice(r)) /\ Carries(Notice(r)) = {}
           /\ \A u \in Users, on \in BOOLEAN :
                Harmless(Share(r, u, on)) /\ Carries(Share(r, u, on)) = {}
           /\ \A n \in Nat : Harmless(RoomMessage(r, n)) /\ Carries(RoomMessage(r, n)) = {n}
<1>1. ASSUME NEW c \in Contents
      PROVE  /\ System(r, c) \in News /\ System(r, c).type = "system"
             /\ System(r, c).room = r /\ System(r, c).content = c
             /\ Carries(System(r, c)) = {}
             /\ c \notin Ends => Harmless(System(r, c))
             /\ c \in Ends => IsOver(System(r, c), r)
             /\ \A q \in Rooms \ {r} : ~Touches(System(r, c), q)
  <2>1. /\ System(r, c) \in News /\ System(r, c).type = "system"
        /\ System(r, c).room = r /\ System(r, c).content = c
    BY DEF System, News
  <2> QED
    BY <2>1 DEF Carries, Harmless, IsOver, Touches, Names
<1>2. Harmless(Notice(r)) /\ Carries(Notice(r)) = {}
  BY <1>1 DEF Notice, Contents, Ends
<1>3. ASSUME NEW u \in Users, NEW on \in BOOLEAN
      PROVE  Harmless(Share(r, u, on)) /\ Carries(Share(r, u, on)) = {}
  <2>1. Share(r, u, on) \in News /\ Share(r, u, on).type = "share"
    BY DEF Share, News
  <2> QED
    BY <2>1 DEF Carries, Harmless, IsOver, Touches, Names
<1>4. ASSUME NEW n \in Nat
      PROVE  Harmless(RoomMessage(r, n)) /\ Carries(RoomMessage(r, n)) = {n}
  <2>1. /\ RoomMessage(r, n) \in News /\ RoomMessage(r, n).type = "room_message"
        /\ RoomMessage(r, n).id = n
    BY DEF RoomMessage, News
  <2> QED
    BY <2>1 DEF Carries, Harmless, IsOver, Touches, Names
<1> QED
  BY <1>1, <1>2, <1>3, <1>4

LEMMA StateMessages ==
    ASSUME NEW r \in Rooms, ServerTypes'
    PROVE  /\ RoomMeta(r) \in News /\ RoomMeta(r).type = "room_meta" /\ RoomMeta(r).room = r
           /\ RoomMeta(r) = MetaOf(r)' /\ Carries(RoomMeta(r)) = {}
           /\ \A q \in Rooms \ {r} : ~Touches(RoomMeta(r), q)
           /\ Harmless(ScreenState(r)) /\ Carries(ScreenState(r)) = {}
<1>1. /\ RoomMeta(r) \in News /\ RoomMeta(r).type = "room_meta" /\ RoomMeta(r).room = r
      /\ RoomMeta(r) = MetaOf(r)'
  <2>1. Members(r)' \subseteq Users /\ owner'[r] \in Users \cup {None}
    BY DEF Members, ServerTypes
  <2> QED
    BY <2>1 DEF RoomMeta, News, MetaOf, Members
<1>2. ScreenState(r) \in News /\ ScreenState(r).type = "screen_share_state"
  BY DEF ScreenState, News, ServerTypes
<1> QED
  BY <1>1, <1>2 DEF Carries, Harmless, IsOver, Touches, Names

LEMMA SameServer ==
    ASSUME IInv, UNCHANGED <<server, socket>>
    PROVE  /\ ServerTypes' /\ RowsInv'
           /\ UNCHANGED <<dbOwner, enrolled, open, meIn, otherIn, owner, screens, history, posted,
                         due, refused>>
           /\ \A r \in Rooms : Current(r)' = Current(r) /\ MetaOf(r)' = MetaOf(r)
           /\ \A r \in Rooms : Recent(r)' = Recent(r)
  BY DEF IInv, Types, ServerTypes, RowsInv, Current, MetaOf, Members, Recent, server, rows, memory,
         chat

\* Nothing changes, and a message that tells nothing is sent, or none.
LEMMA HarmlessAnswers ==
    ASSUME IInv, UNCHANGED <<server, socket>>, NEW m, Harmless(m), Carries(m) = {}, Deliver(<<m>>)
    PROVE  Answers(<<m>>)
<1>1. m \in News /\ m.type # "rooms" /\ \A q \in Rooms : ~Touches(m, q)
  BY DEF Harmless
<1>2. <<m>> \in Seq(News) /\ DOMAIN <<m>> = {1} /\ <<m>>[1] = m
  BY <1>1
<1>3. meIn \subseteq Rooms /\ posted \in Nat
  BY DEF IInv, Types, ServerTypes
<1> HIDE DEF Harmless
<1> QED
  BY <1>1, <1>2, <1>3, SameServer DEF Answers

LEMMA SilentAnswers ==
    ASSUME IInv, UNCHANGED <<server, socket, inbox>>
    PROVE  Answers(<<>>)
<1>1. <<>> \in Seq(News) /\ DOMAIN <<>> = {} /\ Deliver(<<>>)
  BY DEF Deliver, IInv, Types, BoxTypes
<1>2. meIn \subseteq Rooms /\ posted \in Nat
  BY DEF IInv, Types, ServerTypes
<1> QED
  BY <1>1, <1>2, SameServer DEF Answers

\* Messages ms about room r, of which the last that touches it is its entry.
About(r, ms) ==
    /\ ms \in Seq(News)
    /\ \A k \in DOMAIN ms :
         /\ ms[k].type # "rooms" /\ Carries(ms[k]) = {}
         /\ \A q \in Rooms \ {r} : ~Touches(ms[k], q)
Corrects(r, ms) ==
    \E k \in DOMAIN ms : /\ ms[k] = MetaOf(r)'
                         /\ \A j \in DOMAIN ms : k < j => ~Touches(ms[j], r)

\* Room r changes and its members are told; the other rooms stay as they are.
LEMMA RoomAnswers ==
    ASSUME IInv, UNCHANGED <<socket, posted>>, ServerTypes', RowsInv',
           refused \subseteq refused', NEW r \in Rooms,
           NEW ms, About(r, ms), Deliver(ms),
           \A q \in Rooms : Recent(q)' \cap due'[q] \subseteq Recent(q) \cap due[q],
           \A q \in Rooms \ {r} : /\ q \in meIn' <=> q \in meIn
                                  /\ q \in otherIn' <=> q \in otherIn
                                  /\ owner'[q] = owner[q],
           r \in meIn => r \in meIn' \/ \E k \in DOMAIN ms : IsOver(ms[k], r),
           r \in meIn' => Corrects(r, ms)
    PROVE  Answers(ms)
<1>1. meIn \subseteq Rooms /\ meIn' \subseteq Rooms /\ posted \in Nat /\ posted <= posted'
  BY DEF IInv, Types, ServerTypes
<1>2. ASSUME NEW q \in meIn
      PROVE  q \in meIn' \/ \E k \in DOMAIN ms : IsOver(ms[k], q)
  <2>1. CASE q = r
    BY <2>1
  <2>2. CASE q # r
    BY <1>1, <2>2
  <2> QED
    BY <2>1, <2>2
<1>3. ASSUME NEW q \in meIn'
      PROVE  \/ /\ q \in meIn /\ Current(q)' = Current(q) /\ MetaOf(q)' = MetaOf(q)
                /\ \A k \in DOMAIN ms : ~Touches(ms[k], q)
             \/ \E k \in DOMAIN ms : /\ ms[k] = MetaOf(q)'
                                     /\ \A j \in DOMAIN ms : k < j => ~Touches(ms[j], q)
  <2>1. CASE q = r
    BY <2>1 DEF Corrects
  <2>2. CASE q # r
    <3>1. q \in Rooms \ {r} /\ q \in meIn
      BY <1>1, <1>3, <2>2
    <3>2. Members(q)' = Members(q)
      BY <3>1 DEF Members
    <3> QED
      BY <3>1, <3>2 DEF About, Current, MetaOf
  <2> QED
    BY <2>1, <2>2
<1>4. /\ \A k \in DOMAIN ms : ms[k].type # "rooms" /\ Carries(ms[k]) \subseteq 1..posted'
      /\ ms \in Seq(News)
  BY DEF About
<1>5. ASSUME NEW q \in Rooms, NEW n \in Recent(q)' \cap due'[q]
      PROVE  n \in Recent(q) \cap due[q]
  OBVIOUS
<1> QED
  BY <1>1, <1>2, <1>3, <1>4, <1>5 DEF Answers

LEMMA SameChat ==
    ASSUME UNCHANGED chat
    PROVE  /\ UNCHANGED <<history, due, posted>>
           /\ \A q \in Rooms : Recent(q)' \cap due'[q] \subseteq Recent(q) \cap due[q]
  BY DEF chat, Recent

LEMMA Silence ==
    ASSUME NEW r \in Rooms
    PROVE  About(r, <<>>)
<1>1. <<>> \in Seq(News) /\ DOMAIN <<>> = {}
  OBVIOUS
<1> QED
  BY <1>1 DEF About

\* One message about a room is about that room.
LEMMA OneMessage ==
    ASSUME NEW r \in Rooms, NEW c \in Contents
    PROVE  /\ About(r, <<System(r, c)>>)
           /\ c \in Ends => \E k \in DOMAIN <<System(r, c)>> : IsOver(<<System(r, c)>>[k], r)
<1>1. <<System(r, c)>> \in Seq(News) /\ DOMAIN <<System(r, c)>> = {1}
      /\ <<System(r, c)>>[1] = System(r, c)
  BY Messages
<1>2. System(r, c).type # "rooms" /\ Carries(System(r, c)) = {}
  BY Messages
<1>3. /\ \A q \in Rooms \ {r} : ~Touches(System(r, c), q)
      /\ c \in Ends => IsOver(System(r, c), r)
  BY Messages
<1> QED
  BY <1>1, <1>2, <1>3 DEF About

\* The new entry of a room, after a notice or before the list of who shares.
LEMMA EntryMessages ==
    ASSUME NEW r \in Rooms, ServerTypes'
    PROVE  /\ About(r, <<Notice(r), RoomMeta(r)>>) /\ Corrects(r, <<Notice(r), RoomMeta(r)>>)
           /\ About(r, <<RoomMeta(r)>>) /\ Corrects(r, <<RoomMeta(r)>>)
           /\ About(r, <<RoomMeta(r), ScreenState(r)>>)
           /\ Corrects(r, <<RoomMeta(r), ScreenState(r)>>)
<1> DEFINE n == Notice(r)
           m == RoomMeta(r)
           s == ScreenState(r)
<1>1. /\ n \in News /\ n.type # "rooms" /\ Carries(n) = {} /\ \A q \in Rooms : ~Touches(n, q)
      /\ s \in News /\ s.type # "rooms" /\ Carries(s) = {} /\ \A q \in Rooms : ~Touches(s, q)
      /\ m \in News /\ m.type # "rooms" /\ Carries(m) = {} /\ m = MetaOf(r)'
      /\ \A q \in Rooms \ {r} : ~Touches(m, q)
  BY Messages, StateMessages DEF Harmless
<1> HIDE DEF n, m, s
<1>2. /\ <<n, m>> \in Seq(News) /\ DOMAIN <<n, m>> = {1, 2} /\ <<n, m>>[1] = n /\ <<n, m>>[2] = m
      /\ <<m>> \in Seq(News) /\ DOMAIN <<m>> = {1} /\ <<m>>[1] = m
      /\ <<m, s>> \in Seq(News) /\ DOMAIN <<m, s>> = {1, 2} /\ <<m, s>>[1] = m /\ <<m, s>>[2] = s
  BY <1>1
<1>3. About(r, <<n, m>>) /\ About(r, <<m>>) /\ About(r, <<m, s>>)
  BY <1>1, <1>2 DEF About
<1>4. Corrects(r, <<n, m>>)
  <2>1. \A j \in DOMAIN <<n, m>> : ~(2 < j)
    BY <1>2
  <2> QED
    BY <1>1, <1>2, <2>1 DEF Corrects
<1>5. Corrects(r, <<m>>)
  <2>1. \A j \in DOMAIN <<m>> : ~(1 < j)
    BY <1>2
  <2> QED
    BY <1>1, <1>2, <2>1 DEF Corrects
<1>6. Corrects(r, <<m, s>>)
  <2>1. \A j \in DOMAIN <<m, s>> : 1 < j => j = 2
    BY <1>2
  <2> QED
    BY <1>1, <1>2, <2>1 DEF Corrects
<1> QED
  BY <1>3, <1>4, <1>5, <1>6 DEF n, m, s

----------------------------------------------------------------------------
(* Each handler of the server answers so. *)

LEMMA CreateRoomAnswers ==
    ASSUME IInv, UNCHANGED socket, NEW r \in Rooms, CreateRoom(r)
    PROVE  \E ms : Answers(ms)
<1> USE DEF IInv, Types
<1>1. UNCHANGED <<otherIn, screens, chat, refused, history, due, posted>>
  BY DEF CreateRoom, chat
<1>2. CASE UNCHANGED <<rows, open, meIn, owner>> /\ Deliver(<<Notice(r)>>)
  <2>1. UNCHANGED <<server, socket>>
    BY <1>1, <1>2 DEF server, memory
  <2> QED
    BY <1>2, <2>1, HarmlessAnswers, Messages
<1>3. CASE /\ r \notin open /\ dbOwner[r] = None
           /\ dbOwner' = [dbOwner EXCEPT ![r] = Me]
           /\ enrolled' = enrolled \cup {r}
           /\ open' = open \cup {r}
           /\ meIn' = meIn \cup {r}
           /\ owner' = [owner EXCEPT ![r] = Me]
           /\ Deliver(<<Notice(r), RoomMeta(r)>>)
  <2>1. ServerTypes'
    BY <1>1, <1>3 DEF ServerTypes, Users
  <2>2. RowsInv'
    BY <1>1, <1>3, NameAssumption DEF RowsInv, ServerTypes
  <2>3. About(r, <<Notice(r), RoomMeta(r)>>) /\ Corrects(r, <<Notice(r), RoomMeta(r)>>)
    BY <2>1, EntryMessages
  <2>4. \A q \in Rooms \ {r} : owner'[q] = owner[q]
    BY <1>3 DEF ServerTypes
  <2> QED
    BY <1>1, <1>3, <2>1, <2>2, <2>3, <2>4, SameChat, RoomAnswers
<1>4. CASE /\ r \notin open
           /\ owner' = [owner EXCEPT ![r] = None]
           /\ Deliver(<<Notice(r)>>)
           /\ UNCHANGED <<rows, open, meIn>>
  <2>1. UNCHANGED <<dbOwner, enrolled>> /\ r \notin meIn
    BY <1>4 DEF rows, ServerTypes
  <2>2. ServerTypes' /\ RowsInv'
    BY <1>1, <1>4, <2>1 DEF ServerTypes, RowsInv
  <2>3. About(r, <<Notice(r)>>)
    BY OneMessage DEF Notice, Contents
  <2>4. \A q \in Rooms \ {r} : owner'[q] = owner[q]
    BY <1>4 DEF ServerTypes
  <2> QED
    BY <1>1, <1>4, <2>1, <2>2, <2>3, <2>4, SameChat, RoomAnswers
<1> QED
  BY <1>2, <1>3, <1>4 DEF CreateRoom

LEMMA JoinRoomAnswers ==
    ASSUME IInv, UNCHANGED socket, NEW r \in Rooms, JoinRoom(r)
    PROVE  (\E ms : Answers(ms)) /\ r \in meIn' \cup refused'
<1> USE DEF IInv, Types
<1>1. /\ UNCHANGED <<dbOwner, otherIn, owner, screens, chat, history, due, posted>>
      /\ open' = open \cup {r}
  BY DEF JoinRoom, chat
<1>2. CASE /\ enrolled' = enrolled \cup {r}
           /\ meIn' = meIn \cup {r}
           /\ Deliver(<<Notice(r), RoomMeta(r)>>)
           /\ UNCHANGED refused
  <2>1. ServerTypes'
    BY <1>1, <1>2 DEF ServerTypes
  <2>2. RowsInv'
    BY <1>1, <1>2 DEF RowsInv
  <2>3. About(r, <<Notice(r), RoomMeta(r)>>) /\ Corrects(r, <<Notice(r), RoomMeta(r)>>)
    BY <2>1, EntryMessages
  <2> QED
    BY <1>1, <1>2, <2>1, <2>2, <2>3, SameChat, RoomAnswers
<1>3. CASE /\ dbOwner[r] = None
           /\ r \notin meIn
           /\ Deliver(<<Notice(r)>>)
           /\ refused' = refused \cup {r}
           /\ UNCHANGED <<enrolled, meIn>>
  <2>1. ServerTypes' /\ RowsInv'
    BY <1>1, <1>3 DEF ServerTypes, RowsInv
  <2>2. About(r, <<Notice(r)>>)
    BY OneMessage DEF Notice, Contents
  <2> QED
    BY <1>1, <1>3, <2>1, <2>2, SameChat, RoomAnswers
<1> QED
  BY <1>2, <1>3 DEF JoinRoom

LEMMA LeaveRoomAnswers ==
    ASSUME IInv, UNCHANGED socket, NEW r \in Rooms, LeaveRoom(r)
    PROVE  \E ms : Answers(ms)
<1> USE DEF IInv, Types
<1>1. UNCHANGED <<dbOwner, otherIn, history, posted, refused>>
  BY DEF LeaveRoom
<1>2. CASE /\ enrolled' = enrolled \ {r}
           /\ meIn' = meIn \ {r}
           /\ Emptied(r, r \in otherIn)
           /\ screens' = [screens EXCEPT ![r] = IF r \in otherIn THEN @ \ {Me} ELSE {}]
           /\ due' = [due EXCEPT ![r] = {}]
           /\ Deliver(<<System(r, "left room")>>)
  <2>1. /\ open' = IF r \in otherIn THEN open ELSE open \ {r}
        /\ owner' = [owner EXCEPT ![r] = IF r \in otherIn THEN @ ELSE None]
    BY <1>2 DEF Emptied
  <2>2. screens' \in [Rooms -> SUBSET Users]
    BY <1>2 DEF ServerTypes
  <2>3. ServerTypes'
    BY <1>1, <1>2, <2>1, <2>2 DEF ServerTypes
  <2>4. RowsInv'
    BY <1>1, <1>2 DEF RowsInv, ServerTypes
  <2>5. About(r, <<System(r, "left room")>>)
        /\ \E k \in DOMAIN <<System(r, "left room")>> : IsOver(<<System(r, "left room")>>[k], r)
    BY OneMessage DEF Contents, Ends
  <2>6. \A q \in Rooms : Recent(q)' \cap due'[q] \subseteq Recent(q) \cap due[q]
    BY <1>1, <1>2 DEF ServerTypes, Recent
  <2>7. \A q \in Rooms \ {r} : owner'[q] = owner[q]
    BY <2>1 DEF ServerTypes
  <2> QED
    BY <1>1, <1>2, <2>3, <2>4, <2>5, <2>6, <2>7, RoomAnswers
<1>3. CASE UNCHANGED <<enrolled, open, meIn, owner, screens, due, inbox>>
  BY <1>1, <1>3, SilentAnswers DEF server, rows, memory, chat
<1> QED
  BY <1>2, <1>3 DEF LeaveRoom

LEMMA CloseAnswers ==
    ASSUME IInv, UNCHANGED socket, NEW r \in Rooms, Close(r)
    PROVE  \E ms : Answers(ms)
<1> USE DEF IInv, Types
<1> DEFINE ms == IF r \in meIn THEN <<System(r, "room closed")>> ELSE <<>>
<1>1. /\ dbOwner' = [dbOwner EXCEPT ![r] = None]
      /\ enrolled' = enrolled \ {r}
      /\ open' = open \ {r}
      /\ meIn' = meIn \ {r}
      /\ otherIn' = otherIn \ {r}
      /\ owner' = [owner EXCEPT ![r] = None]
      /\ screens' = [screens EXCEPT ![r] = {}]
      /\ history' = [history EXCEPT ![r] = <<>>]
      /\ due' = [due EXCEPT ![r] = {}]
      /\ Deliver(ms)
      /\ UNCHANGED <<posted, refused>>
  BY DEF Close
<1>2. About(r, ms) /\ (r \in meIn => \E k \in DOMAIN ms : IsOver(ms[k], r))
  <2>1. CASE r \in meIn
    BY <2>1, OneMessage DEF Contents, Ends
  <2>2. CASE r \notin meIn
    BY <2>2, Silence
  <2> QED
    BY <2>1, <2>2
<1> HIDE DEF ms
<1>3. /\ dbOwner' \in [Rooms -> Users \cup {None}] /\ owner' \in [Rooms -> Users \cup {None}]
      /\ screens' \in [Rooms -> SUBSET Users]
  BY <1>1 DEF ServerTypes
<1>4. history' \in [Rooms -> Seq(1..posted)] /\ due' \in [Rooms -> SUBSET (1..posted)]
  BY <1>1 DEF ServerTypes
<1>5. ServerTypes'
  BY <1>1, <1>3, <1>4 DEF ServerTypes
<1>6. RowsInv'
  BY <1>1 DEF RowsInv, ServerTypes
<1>7. ASSUME NEW q \in Rooms
      PROVE  Recent(q)' \cap due'[q] \subseteq Recent(q) \cap due[q]
  <2>1. CASE q = r
    BY <1>1, <2>1 DEF ServerTypes
  <2>2. CASE q # r
    <3>1. history'[q] = history[q] /\ due'[q] = due[q]
      BY <1>1, <2>2 DEF ServerTypes
    <3> QED
      BY <3>1 DEF Recent
  <2> QED
    BY <2>1, <2>2
<1>8. \A q \in Rooms \ {r} : owner'[q] = owner[q]
  BY <1>1 DEF ServerTypes
<1> QED
  BY <1>1, <1>2, <1>5, <1>6, <1>7, <1>8, RoomAnswers

LEMMA CloseRoomAnswers ==
    ASSUME IInv, UNCHANGED socket, NEW r \in Rooms, CloseRoom(r)
    PROVE  \E ms : Answers(ms)
<1>1. CASE Close(r)
  BY <1>1, CloseAnswers
<1>2. CASE /\ Deliver(<<System(r, IF owner[r] = None THEN "room does not exist" ELSE "notice")>>)
           /\ UNCHANGED server
  <2>1. ASSUME NEW c \in {"room does not exist", "notice"}, Deliver(<<System(r, c)>>)
        PROVE  \E ms : Answers(ms)
    <3>1. c \in Contents /\ c \notin Ends
      BY <2>1 DEF Contents, Ends
    <3> QED
      BY <1>2, <2>1, <3>1, Messages, HarmlessAnswers
  <2> QED
    BY <1>2, <2>1
<1> QED
  BY <1>1, <1>2 DEF CloseRoom

LEMMA AddToRoomAnswers ==
    ASSUME IInv, UNCHANGED socket, NEW r \in Rooms, AddToRoom(r)
    PROVE  \E ms : Answers(ms)
<1> USE DEF IInv, Types
<1>1. CASE /\ r \in meIn
           /\ otherIn' = otherIn \cup {r}
           /\ UNCHANGED <<rows, open, meIn, owner, screens, chat, refused>>
           /\ Deliver(<<Notice(r), RoomMeta(r)>>)
  <2>1. UNCHANGED <<dbOwner, enrolled, history, due, posted>>
    BY <1>1 DEF rows, chat
  <2>2. ServerTypes' /\ RowsInv'
    BY <1>1, <2>1 DEF ServerTypes, RowsInv
  <2>3. About(r, <<Notice(r), RoomMeta(r)>>) /\ Corrects(r, <<Notice(r), RoomMeta(r)>>)
    BY <2>2, EntryMessages
  <2> QED
    BY <1>1, <2>1, <2>2, <2>3, SameChat, RoomAnswers
<1>2. CASE /\ Deliver(<<System(r, IF r \in open THEN "notice" ELSE "room does not exist")>>)
           /\ UNCHANGED server
  <2>1. ASSUME NEW c \in {"room does not exist", "notice"}, Deliver(<<System(r, c)>>)
        PROVE  \E ms : Answers(ms)
    <3>1. c \in Contents /\ c \notin Ends
      BY <2>1 DEF Contents, Ends
    <3> QED
      BY <1>2, <2>1, <3>1, Messages, HarmlessAnswers
  <2> QED
    BY <1>2, <2>1
<1> QED
  BY <1>1, <1>2 DEF AddToRoom

LEMMA SeqElements ==
    ASSUME NEW S, NEW s \in Seq(S)
    PROVE  \A i \in DOMAIN s : s[i] \in S
  OBVIOUS

LEMMA WiderSeq ==
    ASSUME NEW S, NEW T, S \subseteq T, NEW s \in Seq(S)
    PROVE  s \in Seq(T)
<1>1. Len(s) \in Nat /\ DOMAIN s = 1..Len(s) /\ s = [i \in 1..Len(s) |-> s[i]]
      /\ \A i \in 1..Len(s) : s[i] \in S
  OBVIOUS
<1>2. s \in [1..Len(s) -> T]
  BY <1>1
<1> QED
  BY <1>1, <1>2

\* What is due anew is sent, since a member by the rows is a member.
LEMMA PostAnswers ==
    ASSUME IInv, UNCHANGED socket, NEW r \in Rooms, Post(r)
    PROVE  \E ms : Answers(ms)
<1> USE DEF IInv, Types
<1> DEFINE id == posted + 1
           ms == IF r \in meIn THEN <<RoomMessage(r, id)>> ELSE <<>>
<1>1. /\ posted' = id
      /\ history' = [history EXCEPT ![r] = Append(@, id)]
      /\ due' = IF r \in enrolled /\ dbOwner[r] # None
                THEN [due EXCEPT ![r] = @ \cup {id}]
                ELSE due
      /\ Deliver(ms)
      /\ UNCHANGED <<dbOwner, enrolled, open, meIn, otherIn, owner, screens, refused>>
  BY DEF Post, rows, memory
<1>2. posted \in Nat /\ id \in Nat /\ meIn \subseteq Rooms
  BY DEF ServerTypes
<1>3. /\ ms \in Seq(News)
      /\ \A k \in DOMAIN ms : /\ ms[k].type # "rooms" /\ Carries(ms[k]) \subseteq 1..id
                              /\ \A q \in Rooms : ~Touches(ms[k], q)
      /\ r \in meIn => \E k \in DOMAIN ms : id \in Carries(ms[k])
  <2>1. /\ RoomMessage(r, id) \in News /\ RoomMessage(r, id).type # "rooms"
        /\ \A q \in Rooms : ~Touches(RoomMessage(r, id), q)
        /\ Carries(RoomMessage(r, id)) = {id}
    BY <1>2, Messages DEF Harmless
  <2>2. CASE r \in meIn
    <3>1. ms = <<RoomMessage(r, id)>>
      BY <2>2
    <3>2. ms \in Seq(News) /\ DOMAIN ms = {1} /\ ms[1] = RoomMessage(r, id)
      BY <2>1, <3>1
    <3>3. {id} \subseteq 1..id
      BY <1>2
    <3> HIDE DEF ms, id
    <3> QED
      BY <2>1, <3>2, <3>3
  <2>3. CASE r \notin meIn
    <3>1. ms = <<>> /\ DOMAIN ms = {}
      BY <2>3
    <3> QED
      BY <2>3, <3>1
  <2> HIDE DEF ms, id
  <2> QED
    BY <2>2, <2>3
<1> HIDE DEF ms
<1>4. ServerTypes'
  <2>1. history' \in [Rooms -> Seq(1..id)]
    <3>1. ASSUME NEW q \in Rooms
          PROVE  history'[q] \in Seq(1..id)
      <4>1. history[q] \in Seq(1..posted)
        BY DEF ServerTypes
      <4>2. 1..posted \subseteq 1..id /\ id \in 1..id
        BY <1>2
      <4>3. history[q] \in Seq(1..id)
        BY <4>1, <4>2, WiderSeq
      <4> HIDE DEF id
      <4>4. Append(history[q], id) \in Seq(1..id)
        BY <4>2, <4>3
      <4> QED
        BY <1>1, <4>3, <4>4 DEF ServerTypes
    <3> QED
      BY <1>1, <3>1 DEF ServerTypes
  <2>2. due' \in [Rooms -> SUBSET (1..id)]
    BY <1>1, <1>2 DEF ServerTypes
  <2> QED
    BY <1>1, <1>2, <2>1, <2>2 DEF ServerTypes
<1>5. RowsInv'
  BY <1>1 DEF RowsInv, ServerTypes
<1>6. ASSUME socket = "open", NEW q \in Rooms, NEW n \in Recent(q)' \cap due'[q]
      PROVE  n \in Recent(q) \cap due[q] \/ \E k \in DOMAIN ms : n \in Carries(ms[k])
  <2>1. CASE n = id
    <3>1. due[q] \subseteq 1..posted /\ id \notin 1..posted
      BY <1>2 DEF ServerTypes
    <3>2. q = r /\ r \in enrolled /\ dbOwner[r] # None
      BY <1>1, <1>6, <2>1, <3>1 DEF ServerTypes
    <3>3. r \in meIn
      BY <1>6, <3>2 DEF RowsInv
    <3> QED
      BY <1>3, <2>1, <3>3
  <2>2. CASE n # id
    <3>1. n \in due[q]
      BY <1>1, <1>6, <2>2 DEF ServerTypes
    <3>2. n \in Recent(q)
      <4>1. CASE q # r
        <5>1. history'[q] = history[q]
          BY <1>1, <4>1 DEF ServerTypes
        <5> QED
          BY <1>6, <5>1 DEF Recent
      <4>2. CASE q = r
        <5> DEFINE old == history[r]
                   new == Append(old, id)
        <5>1. old \in Seq(1..posted)
          BY DEF ServerTypes
        <5>2. history'[q] = new
          BY <1>1, <4>2 DEF ServerTypes
        <5>3. PICK i \in DOMAIN new : n = new[i] /\ i > Len(new) - HistoryLimit
          BY <1>6, <5>2 DEF Recent
        <5> HIDE DEF id
        <5>4. i \in DOMAIN old /\ new[i] = old[i] /\ i > Len(old) - HistoryLimit
          <6>1. /\ Len(new) = Len(old) + 1 /\ Len(old) \in Nat
                /\ DOMAIN new = 1..(Len(old) + 1) /\ DOMAIN old = 1..Len(old)
                /\ new[Len(old) + 1] = id
            BY <5>1
          <6>2. i # Len(old) + 1
            BY <2>2, <5>3, <6>1
          <6>3. i \in DOMAIN old
            BY <5>3, <6>1, <6>2
          <6>4. new[i] = old[i]
            BY <5>1, <6>3
          <6>5. HistoryLimit \in Nat
            BY LimitAssumption
          <6> QED
            BY <5>3, <6>1, <6>3, <6>4, <6>5
        <5> QED
          BY <4>2, <5>3, <5>4 DEF Recent
      <4> QED
        BY <4>1, <4>2
    <3> QED
      BY <3>1, <3>2
  <2> QED
    BY <2>1, <2>2
<1>7. \A q \in Rooms : Current(q)' = Current(q) /\ MetaOf(q)' = MetaOf(q)
  BY <1>1 DEF Current, MetaOf, Members
<1>8. posted <= posted'
  BY <1>1, <1>2
<1>9. Answers(ms)
  BY <1>1, <1>2, <1>3, <1>4, <1>5, <1>6, <1>7, <1>8 DEF Answers
<1> QED
  BY <1>9

LEMMA SetShareAnswers ==
    ASSUME IInv, UNCHANGED socket, NEW r \in Rooms, NEW u \in Users, NEW on \in BOOLEAN,
           SetShare(r, u, on)
    PROVE  \E ms : Answers(ms)
<1> USE DEF IInv, Types
<1> DEFINE ms == IF r \in meIn THEN <<Share(r, u, on), ScreenState(r)>> ELSE <<>>
<1>1. /\ screens' = [screens EXCEPT ![r] = IF on THEN @ \cup {u} ELSE @ \ {u}]
      /\ Deliver(ms)
      /\ UNCHANGED <<dbOwner, enrolled, open, meIn, otherIn, owner, chat, history, posted, due,
                     refused>>
  BY DEF SetShare, rows, chat
<1>2. ServerTypes'
  <2>1. screens' \in [Rooms -> SUBSET Users]
    BY <1>1 DEF ServerTypes
  <2> QED
    BY <1>1, <2>1 DEF ServerTypes
<1>3. RowsInv'
  BY <1>1 DEF RowsInv
<1>4. /\ ms \in Seq(News)
      /\ \A k \in DOMAIN ms : /\ ms[k].type # "rooms" /\ Carries(ms[k]) = {}
                              /\ \A q \in Rooms : ~Touches(ms[k], q)
  <2> DEFINE a == Share(r, u, on)
             b == ScreenState(r)
  <2>1. /\ a \in News /\ a.type # "rooms" /\ Carries(a) = {} /\ \A q \in Rooms : ~Touches(a, q)
        /\ b \in News /\ b.type # "rooms" /\ Carries(b) = {} /\ \A q \in Rooms : ~Touches(b, q)
    BY <1>2, Messages, StateMessages DEF Harmless
  <2>2. ms = IF r \in meIn THEN <<a, b>> ELSE <<>>
    OBVIOUS
  <2> HIDE DEF a, b, ms
  <2>3. CASE r \in meIn
    <3>1. <<a, b>> \in Seq(News) /\ DOMAIN <<a, b>> = {1, 2} /\ <<a, b>>[1] = a /\ <<a, b>>[2] = b
      BY <2>1
    <3> QED
      BY <2>1, <2>2, <2>3, <3>1
  <2>4. CASE r \notin meIn
    <3>1. ms = <<>> /\ DOMAIN ms = {}
      BY <2>2, <2>4
    <3> QED
      BY <3>1
  <2> QED
    BY <2>3, <2>4
<1> HIDE DEF ms
<1>5. \A q \in Rooms : Current(q)' = Current(q) /\ MetaOf(q)' = MetaOf(q)
  BY <1>1 DEF Current, MetaOf, Members
<1>6. meIn \subseteq Rooms /\ posted <= posted'
  BY <1>1 DEF ServerTypes
<1>7. \A q \in Rooms : Recent(q)' \cap due'[q] \subseteq Recent(q) \cap due[q]
  BY <1>1, SameChat
<1>8. Answers(ms)
  BY <1>1, <1>2, <1>3, <1>4, <1>5, <1>6, <1>7 DEF Answers
<1> QED
  BY <1>8

LEMMA SignalAnswers ==
    ASSUME IInv, UNCHANGED socket, NEW r \in Rooms, NEW type, Signal(r, type)
    PROVE  \E ms : Answers(ms)
<1>1. CASE SetShare(r, Me, type = "screen_share_start")
  BY <1>1, SetShareAnswers DEF Users
<1>2. CASE UNCHANGED <<server, inbox>>
  BY <1>2, SilentAnswers
<1>3. CASE Deliver(<<Notice(r)>>) /\ UNCHANGED server
  BY <1>3, Messages, HarmlessAnswers
<1> QED
  BY <1>1, <1>2, <1>3 DEF Signal

LEMMA OtherJoinsAnswers ==
    ASSUME IInv, UNCHANGED socket, NEW r \in Rooms, OtherJoins(r)
    PROVE  \E ms : Answers(ms)
<1> USE DEF IInv, Types
<1> DEFINE ms == IF r \in meIn THEN <<RoomMeta(r)>> ELSE <<>>
<1>1. /\ open' = open \cup {r}
      /\ otherIn' = otherIn \cup {r}
      /\ UNCHANGED <<dbOwner, enrolled, meIn, owner, screens, chat, history, due, posted, refused>>
      /\ Deliver(ms)
  BY DEF OtherJoins, rows, chat
<1>2. ServerTypes' /\ RowsInv'
  BY <1>1 DEF ServerTypes, RowsInv
<1>3. About(r, ms) /\ (r \in meIn => Corrects(r, ms))
  <2>1. CASE r \in meIn
    BY <1>2, <2>1, EntryMessages
  <2>2. CASE r \notin meIn
    BY <2>2, Silence
  <2> QED
    BY <2>1, <2>2
<1> HIDE DEF ms
<1> QED
  BY <1>1, <1>2, <1>3, SameChat, RoomAnswers

LEMMA OtherLeavesAnswers ==
    ASSUME IInv, UNCHANGED socket, NEW r \in Rooms, OtherLeaves(r)
    PROVE  \E ms : Answers(ms)
<1> USE DEF IInv, Types
<1> DEFINE ms == IF r \in meIn THEN <<RoomMeta(r), ScreenState(r)>> ELSE <<>>
<1>1. /\ open' = IF r \in meIn THEN open ELSE open \ {r}
      /\ owner' = [owner EXCEPT ![r] = IF r \in meIn THEN @ ELSE None]
      /\ otherIn' = otherIn \ {r}
      /\ screens' = [screens EXCEPT ![r] = IF r \in meIn THEN @ \ {Other} ELSE {}]
      /\ UNCHANGED <<dbOwner, enrolled, meIn, chat, history, due, posted, refused>>
      /\ Deliver(ms)
  BY DEF OtherLeaves, Emptied, rows, chat
<1>2. screens' \in [Rooms -> SUBSET Users] /\ owner' \in [Rooms -> Users \cup {None}]
  BY <1>1 DEF ServerTypes
<1>3. ServerTypes' /\ RowsInv'
  BY <1>1, <1>2 DEF ServerTypes, RowsInv
<1>4. About(r, ms) /\ (r \in meIn => Corrects(r, ms))
  <2>1. CASE r \in meIn
    BY <1>3, <2>1, EntryMessages
  <2>2. CASE r \notin meIn
    BY <2>2, Silence
  <2> QED
    BY <2>1, <2>2
<1>5. \A q \in Rooms \ {r} : owner'[q] = owner[q]
  BY <1>1 DEF ServerTypes
<1> HIDE DEF ms
<1> QED
  BY <1>1, <1>3, <1>4, <1>5, SameChat, RoomAnswers

LEMMA OtherAddsMeAnswers ==
    ASSUME IInv, UNCHANGED socket, NEW r \in Rooms, OtherAddsMe(r)
    PROVE  \E ms : Answers(ms)
<1> USE DEF IInv, Types
<1>1. /\ r \in otherIn
      /\ enrolled' = enrolled \cup {r}
      /\ meIn' = meIn \cup {r}
      /\ UNCHANGED <<dbOwner, open, otherIn, owner, screens, chat, history, due, posted, refused>>
      /\ Deliver(<<Notice(r), RoomMeta(r)>>)
  BY DEF OtherAddsMe, chat
<1>2. ServerTypes' /\ RowsInv'
  BY <1>1 DEF ServerTypes, RowsInv
<1>3. About(r, <<Notice(r), RoomMeta(r)>>) /\ Corrects(r, <<Notice(r), RoomMeta(r)>>)
  BY <1>2, EntryMessages
<1> QED
  BY <1>1, <1>2, <1>3, SameChat, RoomAnswers

LEMMA ServerActsKeep ==
    ASSUME IInv, ServerActs \/ UploadAnswered
    PROVE  IInv'
<1> USE DEF IInv, Types
<1>1. CASE HandleMessage /\ UNCHANGED <<mounted, status, timer, client, agenda>>
  <2>1. PICK m \in {Head(outbox)} :
         \/ m.type = "create_room" /\ CreateRoom(m.room)
         \/ m.type = "join_room" /\ JoinRoom(m.room)
         \/ m.type = "leave_room" /\ LeaveRoom(m.room)
         \/ m.type = "close_room" /\ CloseRoom(m.room)
         \/ m.type = "add_to_room" /\ AddToRoom(m.room)
         \/ m.type = "room_message" /\ Post(m.room)
         \/ /\ \/ m.type = "direct_message"
               \/ m.type = "room_message" /\ m.room \notin open
            /\ UNCHANGED <<server, inbox>>
         \/ /\ m.type \in {"voice_join", "voice_leave", "voice_state",
                           "screen_share_start", "screen_share_stop"}
            /\ Signal(m.room, m.type)
    BY <1>1 DEF HandleMessage
  <2>2. /\ outbox # <<>> /\ outbox' = Tail(outbox) /\ UNCHANGED socket
        /\ UNCHANGED <<mounted, status, timer, socket, view, news, call, media, prompts>>
    BY <1>1 DEF HandleMessage, client
  <2>3. m = Head(outbox) /\ m \in Requests
    BY <2>2 DEF BoxTypes
  <2>4. m.type # "direct_message" => m.room \in Rooms
    BY <2>3 DEF Requests
  <2>5. (\E ms : Answers(ms)) /\ (m.type = "join_room" => m.room \in meIn' \cup refused')
    <3>1. CASE m.type = "create_room" /\ CreateRoom(m.room)
      BY <2>2, <2>4, <3>1, CreateRoomAnswers
    <3>2. CASE m.type = "join_room" /\ JoinRoom(m.room)
      BY <2>2, <2>4, <3>2, JoinRoomAnswers
    <3>3. CASE m.type = "leave_room" /\ LeaveRoom(m.room)
      BY <2>2, <2>4, <3>3, LeaveRoomAnswers
    <3>4. CASE m.type = "close_room" /\ CloseRoom(m.room)
      BY <2>2, <2>4, <3>4, CloseRoomAnswers
    <3>5. CASE m.type = "add_to_room" /\ AddToRoom(m.room)
      BY <2>2, <2>4, <3>5, AddToRoomAnswers
    <3>6. CASE m.type = "room_message" /\ Post(m.room)
      BY <2>2, <2>4, <3>6, PostAnswers
    <3>7. CASE /\ m.type \in {"direct_message", "room_message"}
               /\ UNCHANGED <<server, inbox>>
      BY <2>2, <3>7, SilentAnswers
    <3>8. CASE /\ m.type \in {"voice_join", "voice_leave", "voice_state",
                              "screen_share_start", "screen_share_stop"}
               /\ Signal(m.room, m.type)
      BY <2>2, <2>4, <3>8, SignalAnswers
    <3> QED
      BY <2>1, <3>1, <3>2, <3>3, <3>4, <3>5, <3>6, <3>7, <3>8
  <2>6. \A r \in Rooms : Head(outbox) = Msg("join_room", r) => r \in meIn' \cup refused'
    BY <2>3, <2>5 DEF Msg
  <2>7. PICK ms : Answers(ms)
    BY <2>5
  <2> QED
    BY <2>2, <2>6, <2>7, AnswersKeep
<1>2. CASE OtherActs /\ UNCHANGED <<mounted, status, timer, client, agenda>>
  <2>1. PICK r \in Rooms :
         \/ OtherJoins(r) \/ OtherLeaves(r) \/ OtherAddsMe(r)
         \/ Close(r) \/ Post(r) \/ SetShare(r, Other, Other \notin screens[r])
    BY <1>2 DEF OtherActs
  <2>2. /\ UNCHANGED <<outbox, socket>>
        /\ UNCHANGED <<mounted, status, timer, socket, view, news, call, media, prompts>>
    BY <1>2 DEF OtherActs, client
  <2>3. Other \in Users
    BY DEF Users
  <2>4. \E ms : Answers(ms)
    BY <2>1, <2>2, <2>3, OtherJoinsAnswers, OtherLeavesAnswers, OtherAddsMeAnswers, CloseAnswers,
       PostAnswers, SetShareAnswers
  <2>5. PICK ms : Answers(ms)
    BY <2>4
  <2> QED
    BY <2>2, <2>5, AnswersKeep
<1>3. CASE UploadAnswered
  <2>1. UNCHANGED <<outbox, mounted, status, timer, socket, view, news, call, media, prompts>>
    BY <1>3 DEF UploadAnswered, link
  <2>2. meIn \subseteq Rooms
    BY DEF ServerTypes
  <2>3. \E ms : Answers(ms)
    BY <1>3, <2>1, <2>2, PostAnswers, SilentAnswers DEF UploadAnswered
  <2>4. PICK ms : Answers(ms)
    BY <2>3
  <2> QED
    BY <2>1, <2>4, AnswersKeep
<1> QED
  BY <1>1, <1>2, <1>3 DEF ServerActs

----------------------------------------------------------------------------
(* What a new connection is sent. *)

LEMMA ListingIs ==
    ASSUME NEW S \in SUBSET Rooms
    PROVE  /\ Listing(S) \in Lists
           /\ \A i \in DOMAIN Listing(S) : Listing(S)[i] \in S
           /\ \A r \in S : \E i \in DOMAIN Listing(S) : Listing(S)[i] = r
<1> DEFINE n == Cardinality(S)
           f == Listing(S)
<1>1. IsFiniteSet(S) /\ n \in Nat /\ ExistsBijection(1..n, S)
  <2>1. IsFiniteSet(S)
    BY LimitAssumption, FS_Subset
  <2> QED
    BY <2>1, FS_CardinalityType
<1>2. \E g \in [1..n -> S] : \A i, j \in 1..n : g[i] = g[j] => i = j
  BY <1>1 DEF ExistsBijection, Bijection, Injection, IsInjective
<1>3. f \in [1..n -> S] /\ \A i, j \in 1..n : f[i] = f[j] => i = j
  BY <1>2 DEF Listing
<1>4. IsFiniteSet(1..n) /\ Cardinality(1..n) = n
  BY <1>1, FS_Interval
<1> HIDE DEF n, f
<1>5. f \in Injection(1..n, S)
  BY <1>3 DEF Injection, IsInjective
<1>6. f \in Surjection(1..n, S)
  BY <1>1, <1>4, <1>5, FS_Injection DEF n
<1>7. DOMAIN f = 1..n /\ \A r \in S : \E i \in 1..n : f[i] = r
  BY <1>3, <1>6 DEF Surjection
<1>8. f \in Seq(Rooms)
  <2>1. f \in [1..n -> Rooms]
    BY <1>3
  <2> QED
    BY <1>1, <2>1
<1> QED
  BY <1>3, <1>7, <1>8 DEF Lists, Distinct, f

\* Of each room that is listed its entry, then who shares, then its history.
LEMMA SnapshotsAre ==
    ASSUME NEW list \in Seq(Rooms)
    PROVE  /\ Len(Snapshots(list)) = 3 * Len(list)
           /\ DOMAIN Snapshots(list) = 1..(3 * Len(list))
           /\ Snapshots(list) = [k \in 1..(3 * Len(list)) |-> Snapshots(list)[k]]
           /\ \A i \in DOMAIN list :
                /\ {3 * i - 2, 3 * i - 1, 3 * i} \subseteq DOMAIN Snapshots(list)
                /\ Snapshots(list)[3 * i - 2] = RoomMeta(list[i])
                /\ Snapshots(list)[3 * i - 1] = ScreenState(list[i])
                /\ Snapshots(list)[3 * i] = RoomHistory(list[i])
           /\ \A k \in DOMAIN Snapshots(list) :
                \E i \in DOMAIN list : k \in {3 * i - 2, 3 * i - 1, 3 * i}
<1> DEFINE n == Len(list)
<1>1. n \in Nat /\ DOMAIN list = 1..n
  OBVIOUS
<1>2. /\ DOMAIN Snapshots(list) = 1..(3 * n)
      /\ Snapshots(list) = [k \in 1..(3 * n) |-> Snapshots(list)[k]]
  BY DEF Snapshots
<1>3. Len(Snapshots(list)) = 3 * n
  BY <1>1, <1>2 DEF Snapshots
<1> HIDE DEF n
<1>4. ASSUME NEW i \in 1..n
      PROVE  /\ {3 * i - 2, 3 * i - 1, 3 * i} \subseteq 1..(3 * n)
             /\ ((3 * i - 2) + 2) \div 3 = i /\ (3 * i - 2) % 3 = 1
             /\ ((3 * i - 1) + 2) \div 3 = i /\ (3 * i - 1) % 3 = 2
             /\ (3 * i + 2) \div 3 = i /\ (3 * i) % 3 = 0
  BY <1>1
<1>5. ASSUME NEW k \in 1..(3 * n)
      PROVE  \E i \in 1..n : k \in {3 * i - 2, 3 * i - 1, 3 * i}
  <2>1. /\ (k + 2) \div 3 \in 1..n
        /\ k \in {3 * ((k + 2) \div 3) - 2, 3 * ((k + 2) \div 3) - 1, 3 * ((k + 2) \div 3)}
    BY <1>1
  <2> QED
    BY <2>1
<1>6. ASSUME NEW k \in 1..(3 * n), NEW i, i = (k + 2) \div 3
      PROVE  /\ k % 3 = 1 => Snapshots(list)[k] = RoomMeta(list[i])
             /\ k % 3 = 2 => Snapshots(list)[k] = ScreenState(list[i])
             /\ k % 3 = 0 => Snapshots(list)[k] = RoomHistory(list[i])
  <2>1. Snapshots(list)[k] = LET r == list[i]
                             IN  CASE k % 3 = 1 -> RoomMeta(r)
                                   [] k % 3 = 2 -> ScreenState(r)
                                   [] k % 3 = 0 -> RoomHistory(r)
    BY <1>6 DEF Snapshots, n
  <2> QED
    BY <2>1
<1>7. ASSUME NEW i \in 1..n
      PROVE  /\ Snapshots(list)[3 * i - 2] = RoomMeta(list[i])
             /\ Snapshots(list)[3 * i - 1] = ScreenState(list[i])
             /\ Snapshots(list)[3 * i] = RoomHistory(list[i])
  <2>1. Snapshots(list)[3 * i - 2] = RoomMeta(list[i])
    BY <1>4, <1>6
  <2>2. Snapshots(list)[3 * i - 1] = ScreenState(list[i])
    BY <1>4, <1>6
  <2>3. Snapshots(list)[3 * i] = RoomHistory(list[i])
    BY <1>4, <1>6
  <2> QED
    BY <2>1, <2>2, <2>3
<1> QED
  BY <1>1, <1>2, <1>3, <1>4, <1>5, <1>7 DEF n

LEMMA SocketOpensKeeps ==
    ASSUME IInv, SocketOpens
    PROVE  IInv'
<1> USE DEF IInv, Types
<1> DEFINE back == {r \in enrolled : dbOwner[r] # None}
           list == Listing(back)
           snaps == Snapshots(list)
           told == [type |-> "rooms", rooms |-> list]
<1>1. /\ mounted /\ socket = "connecting"
      /\ socket' = "open" /\ status' = "online" /\ timer' = FALSE
      /\ open' = open \cup back
      /\ meIn' = back
      /\ owner' = [r \in Rooms |-> IF r \in back THEN dbOwner[r] ELSE owner[r]]
      /\ inbox' = snaps \o <<told>>
      /\ UNCHANGED <<dbOwner, enrolled, otherIn, screens, history, posted, due, refused>>
      /\ UNCHANGED <<outbox, mounted, breaks, view, news, call, media, prompts, tasks>>
  BY DEF SocketOpens, Rehydrate, rows, chat, client
<1>2. back \subseteq Rooms
  BY DEF ServerTypes
<1>3. /\ list \in Lists
      /\ \A i \in DOMAIN list : list[i] \in back
      /\ \A r \in back : \E i \in DOMAIN list : list[i] = r
  BY <1>2, ListingIs
<1> HIDE DEF list
<1>4. list \in Seq(Rooms) /\ Distinct(list) /\ Len(list) \in Nat /\ DOMAIN list = 1..Len(list)
  BY <1>3 DEF Lists
<1>5. /\ Len(snaps) = 3 * Len(list)
      /\ DOMAIN snaps = 1..(3 * Len(list))
      /\ snaps = [k \in 1..(3 * Len(list)) |-> snaps[k]]
      /\ \A i \in DOMAIN list :
           /\ {3 * i - 2, 3 * i - 1, 3 * i} \subseteq DOMAIN snaps
           /\ snaps[3 * i - 2] = RoomMeta(list[i])
           /\ snaps[3 * i - 1] = ScreenState(list[i])
           /\ snaps[3 * i] = RoomHistory(list[i])
      /\ \A k \in DOMAIN snaps :
           \E i \in DOMAIN list : k \in {3 * i - 2, 3 * i - 1, 3 * i}
  BY <1>4, SnapshotsAre
<1>6. ServerTypes'
  <2>1. owner' \in [Rooms -> Users \cup {None}]
    BY <1>1, <1>2 DEF ServerTypes
  <2> QED
    BY <1>1, <1>2, <2>1 DEF ServerTypes
<1>7. ASSUME NEW r \in Rooms
      PROVE  /\ RoomHistory(r) \in News /\ RoomHistory(r).type = "history"
             /\ Carries(RoomHistory(r)) = Recent(r) /\ Recent(r) \subseteq 1..posted
             /\ \A q \in Rooms : ~Touches(RoomHistory(r), q)
  <2>1. Recent(r) \subseteq 1..posted
    <3>1. history[r] \in Seq(1..posted)
      BY DEF ServerTypes
    <3>2. \A j \in DOMAIN history[r] : history[r][j] \in 1..posted
      BY <3>1, SeqElements
    <3> QED
      BY <3>2 DEF Recent
  <2>2. Recent(r) \subseteq Nat
    BY <2>1 DEF ServerTypes
  <2>3. RoomHistory(r) \in News /\ RoomHistory(r).type = "history" /\ RoomHistory(r).ids = Recent(r)
    BY <2>2 DEF RoomHistory, News
  <2> QED
    BY <2>1, <2>3 DEF Carries, Touches, IsOver
<1>8. told \in News /\ told.type = "rooms" /\ told.rooms = list /\ Carries(told) = {}
  BY <1>3 DEF News, Carries
<1> HIDE DEF told, snaps
<1>9. \A k \in DOMAIN snaps : \E i \in DOMAIN list :
         \/ k = 3 * i - 2 /\ snaps[k] = RoomMeta(list[i])
         \/ k = 3 * i - 1 /\ snaps[k] = ScreenState(list[i])
         \/ k = 3 * i /\ snaps[k] = RoomHistory(list[i])
  BY <1>5
<1>10. ASSUME NEW k \in DOMAIN snaps
       PROVE  snaps[k] \in News /\ Carries(snaps[k]) \subseteq 1..posted /\ snaps[k].type # "rooms"
  <2>1. PICK i \in DOMAIN list : snaps[k] \in {RoomMeta(list[i]), ScreenState(list[i]),
                                               RoomHistory(list[i])}
    BY <1>9
  <2>2. list[i] \in Rooms
    BY <1>2, <1>3
  <2> QED
    BY <1>6, <1>7, <2>1, <2>2, StateMessages DEF Harmless
<1>11. snaps \in Seq(News)
  <2>1. snaps \in [1..(3 * Len(list)) -> News]
    BY <1>5, <1>10
  <2>2. 3 * Len(list) \in Nat
    BY <1>4
  <2> QED
    BY <2>1, <2>2
\* What is on its way.
<1>12. /\ \A k \in DOMAIN snaps : k \in DOMAIN inbox' /\ inbox'[k] = snaps[k]
       /\ \A k \in DOMAIN inbox' : k \in DOMAIN snaps \/ (k = Len(snaps) + 1 /\ inbox'[k] = told)
       /\ DOMAIN inbox' \subseteq Nat
  <2> DEFINE l == Len(snaps)
  <2>1. l \in Nat /\ DOMAIN snaps = 1..l
    BY <1>11
  <2>2. /\ DOMAIN (snaps \o <<told>>) = 1..(l + 1)
        /\ \A k \in 1..l : (snaps \o <<told>>)[k] = snaps[k]
        /\ (snaps \o <<told>>)[l + 1] = told
    BY <1>8, <1>11
  <2> HIDE DEF l
  <2> QED
    BY <1>1, <2>1, <2>2 DEF l
<1>13. BoxTypes'
  <2>1. \A k \in DOMAIN inbox' : inbox'[k] \in News /\ Carries(inbox'[k]) \subseteq 1..posted
    BY <1>8, <1>12, <1>10
  <2>2. inbox' \in Seq(News)
    <3>1. <<told>> \in Seq(News)
      BY <1>8
    <3> QED
      BY <1>1, <1>11, <3>1
  <2> QED
    BY <1>1, <2>1, <2>2 DEF BoxTypes, Carries
<1>14. TypeOK'
  BY <1>1 DEF TypeOK, view, news, call, media, prompts
<1>15. LinkInv'
  BY <1>1 DEF LinkInv, NoZombieReconnect
<1>16. MediaInv'
  BY <1>1 DEF MediaInv, CapturesAreReferenced, call, media, prompts
<1>17. RowsInv'
  BY <1>1 DEF RowsInv
<1>18. joined' = {}
  BY <1>1 DEF LinkInv, view
<1>19. ASSUME NEW k \in DOMAIN inbox', NEW r \in Rooms, Names(inbox'[k], r)
       PROVE  r \in meIn'
  <2>1. inbox'[k] = told
    BY <1>12, <1>10, <1>19 DEF Names
  <2>2. \E i \in DOMAIN list : list[i] = r
    BY <1>8, <1>19, <2>1 DEF Names
  <2> QED
    BY <1>1, <1>3, <2>2
<1>20. JoinInv'
  BY <1>18, <1>19 DEF JoinInv, Names, IsOver
<1>21. ASSUME NEW r \in back
       PROVE  \E k \in DOMAIN inbox' : /\ inbox'[k] = MetaOf(r)'
                                       /\ \A j \in DOMAIN inbox' : k < j => ~Touches(inbox'[j], r)
  <2>1. PICK i \in DOMAIN list : list[i] = r
    BY <1>3
  <2>2. /\ 3 * i - 2 \in DOMAIN inbox' /\ inbox'[3 * i - 2] = RoomMeta(r)
        /\ r \in Rooms /\ i \in Nat
    <3>1. 3 * i - 2 \in DOMAIN snaps /\ snaps[3 * i - 2] = RoomMeta(list[i])
      BY <1>5
    <3>2. r \in Rooms /\ i \in Nat
      BY <1>2, <1>4
    <3> QED
      BY <1>12, <2>1, <3>1, <3>2
  <2>3. ASSUME NEW j \in DOMAIN inbox', 3 * i - 2 < j
        PROVE  ~Touches(inbox'[j], r)
    <3>1. CASE inbox'[j] = told
      <4>1. Names(told, r)
        BY <1>8, <2>1 DEF Names
      <4> QED
        BY <1>8, <3>1, <4>1 DEF Touches, IsOver
    <3>2. CASE j \in DOMAIN snaps
      <4>1. PICK l \in DOMAIN list :
              \/ j = 3 * l - 2 /\ snaps[j] = RoomMeta(list[l])
              \/ j = 3 * l - 1 /\ snaps[j] = ScreenState(list[l])
              \/ j = 3 * l /\ snaps[j] = RoomHistory(list[l])
        BY <1>9, <3>2
      <4>2. list[l] \in Rooms /\ l \in Nat /\ inbox'[j] = snaps[j]
        BY <1>2, <1>3, <1>4, <1>12, <3>2
      <4>3. CASE j = 3 * l - 2 /\ snaps[j] = RoomMeta(list[l])
        <5>1. l # i
          BY <2>2, <2>3, <4>2, <4>3
        <5>2. list[l] # r
          BY <1>4, <2>1, <5>1 DEF Distinct
        <5> QED
          BY <1>6, <2>2, <4>2, <4>3, <5>2, StateMessages
      <4>4. CASE snaps[j] = ScreenState(list[l])
        BY <1>6, <2>2, <4>2, <4>4, StateMessages DEF Harmless
      <4>5. CASE snaps[j] = RoomHistory(list[l])
        BY <1>7, <2>2, <4>2, <4>5
      <4> QED
        BY <4>1, <4>3, <4>4, <4>5
    <3> QED
      BY <1>12, <3>1, <3>2
  <2>4. RoomMeta(r) = MetaOf(r)'
    BY <1>6, <2>2, StateMessages
  <2> QED
    BY <2>2, <2>3, <2>4
<1>22. MetaInv'
  BY <1>1, <1>21 DEF MetaInv, MetaOf, Touches, IsOver, Names
<1>23. DueInv'
  <2>1. ASSUME NEW r \in Rooms, NEW n \in Recent(r) \cap due[r]
        PROVE  \E k \in DOMAIN inbox' : n \in Carries(inbox'[k])
    <3>1. r \in back
      BY <2>1 DEF RowsInv
    <3>2. PICK i \in DOMAIN list : list[i] = r
      BY <1>3, <3>1
    <3>3. 3 * i \in DOMAIN inbox' /\ inbox'[3 * i] = RoomHistory(r)
      BY <1>5, <1>12, <3>2
    <3> QED
      BY <1>7, <2>1, <3>3
  <2>2. \A r \in Rooms : Recent(r)' = Recent(r) /\ due'[r] = due[r]
    BY <1>1 DEF Recent
  <2> QED
    BY <2>1, <2>2 DEF DueInv, Carries
<1> QED
  BY <1>6, <1>13, <1>14, <1>15, <1>16, <1>17, <1>20, <1>22, <1>23

----------------------------------------------------------------------------
(* A connection that comes and goes. *)

LEMMA UnregisterTypes ==
    ASSUME ServerTypes, Unregister
    PROVE  /\ ServerTypes'
           /\ UNCHANGED <<dbOwner, enrolled, due, posted>>
<1>1. /\ open' = open \ {r \in open : r \notin otherIn}
      /\ meIn' = {}
      /\ owner' = [r \in Rooms |-> IF r \in {q \in open : q \notin otherIn} THEN None ELSE owner[r]]
      /\ screens' = [r \in Rooms |-> IF r \in {q \in open : q \notin otherIn} THEN {}
                                     ELSE screens[r] \ {Me}]
      /\ UNCHANGED <<dbOwner, enrolled, otherIn, history, posted, due, refused>>
  BY DEF Unregister, rows, chat
<1>2. owner' \in [Rooms -> Users \cup {None}]
  BY <1>1 DEF ServerTypes
<1>3. screens' \in [Rooms -> SUBSET Users]
  BY <1>1 DEF ServerTypes
<1> QED
  BY <1>1, <1>2, <1>3 DEF ServerTypes

\* Without an open socket there is nothing to agree about.
LEMMA ClosedKeeps ==
    ASSUME socket' # "open" \/ ~mounted'
    PROVE  JoinInv' /\ MetaInv' /\ DueInv'
  BY DEF JoinInv, MetaInv, DueInv

LEMMA SocketClosesKeeps ==
    ASSUME IInv, SocketCloses
    PROVE  IInv'
<1> USE DEF IInv, Types
<1>1. /\ mounted /\ socket' = "none" /\ inbox' = <<>> /\ outbox' = <<>>
      /\ Unregister /\ joined' = {} /\ Cleanup
      /\ sharers' = [r \in Rooms |-> {}]
      /\ status' = "reconnecting" /\ timer' = TRUE
      /\ UNCHANGED <<mounted, rooms, activeRoom, direct, joiningRoom, meta, shown, tasks>>
  BY DEF SocketCloses, ScheduleReconnect
<1>2. ServerTypes' /\ UNCHANGED <<dbOwner, enrolled, due, posted>>
  BY <1>1, UnregisterTypes
<1>3. /\ MediaInv'
      /\ {voice', heard', joiningVoice'} \subseteq BOOLEAN /\ voiceRoom' = None
      /\ localStream' = None /\ screenStream' = None /\ sharing' = "none"
      /\ live' \subseteq Captures
      /\ UNCHANGED <<micMuted, asking>>
  BY <1>1, CleanupKeeps
<1>4. TypeOK'
  <2>1. sharers' \in [Rooms -> SUBSET Users]
    BY <1>1
  <2> QED
    BY <1>1, <1>2, <1>3, <2>1 DEF TypeOK
<1>5. BoxTypes'
  BY <1>1 DEF BoxTypes
<1>6. LinkInv'
  BY <1>1 DEF LinkInv, NoZombieReconnect
<1>7. RowsInv'
  BY <1>1, <1>2 DEF RowsInv
<1> QED
  BY <1>1, <1>2, <1>3, <1>4, <1>5, <1>6, <1>7, ClosedKeeps

LEMMA ReconnectKeeps ==
    ASSUME IInv, Reconnect
    PROVE  IInv'
<1> USE DEF IInv, Types
<1>1. /\ timer /\ mounted /\ timer' = FALSE /\ socket' = "connecting"
      /\ UNCHANGED <<dbOwner, enrolled, open, meIn, otherIn, owner, screens, history, posted, due,
                     refused>>
      /\ UNCHANGED <<inbox, outbox, mounted, status, view, news, call, media, prompts>>
  BY DEF Reconnect, server, rows, memory, chat, channels, client
<1>2. socket = "none"
  BY <1>1 DEF LinkInv
<1>3. ServerTypes' /\ BoxTypes'
  BY <1>1 DEF ServerTypes, BoxTypes
<1>4. TypeOK'
  BY <1>1 DEF TypeOK, view, news, call, media, prompts
<1>5. LinkInv'
  BY <1>1, <1>2 DEF LinkInv, NoZombieReconnect, view
<1>6. MediaInv'
  BY <1>1 DEF MediaInv, CapturesAreReferenced, call, media, prompts
<1>7. RowsInv'
  BY <1>1 DEF RowsInv
<1> QED
  BY <1>1, <1>3, <1>4, <1>5, <1>6, <1>7, ClosedKeeps

LEMMA UnmountKeeps ==
    ASSUME IInv, Unmount
    PROVE  IInv'
<1> USE DEF IInv, Types
<1>1. /\ mounted' = FALSE /\ timer' = FALSE /\ status' = "offline" /\ inbox' = <<>>
      /\ Send(LeaveSignals(activeRoom)) /\ Cleanup
      /\ socket' = IF socket = "open" THEN "closing" ELSE "none"
      /\ UNCHANGED <<dbOwner, enrolled, open, meIn, otherIn, owner, screens, history, posted, due,
                     refused>>
      /\ UNCHANGED <<view, news>>
  BY DEF Unmount, ClearReconnectTimer, server, rows, memory, chat
<1>2. socket' \in {"closing", "none"}
  BY <1>1
<1>3. outbox' \in Seq(Requests)
  <2>1. LeaveSignals(activeRoom) \in Seq(Requests)
    BY LeaveSignalsType DEF TypeOK
  <2> QED
    BY <1>1, <2>1, SentIs
<1>4. ServerTypes' /\ BoxTypes'
  BY <1>1, <1>3 DEF ServerTypes, BoxTypes
<1>5. /\ MediaInv'
      /\ {voice', heard', joiningVoice'} \subseteq BOOLEAN /\ voiceRoom' = None
      /\ localStream' = None /\ screenStream' = None /\ sharing' = "none"
      /\ live' \subseteq Captures
      /\ UNCHANGED <<micMuted, asking>>
  BY <1>1, CleanupKeeps
<1>6. TypeOK'
  BY <1>1, <1>2, <1>5 DEF TypeOK, view, news
<1>7. LinkInv'
  BY <1>1, <1>2 DEF LinkInv, NoZombieReconnect
<1>8. RowsInv'
  BY <1>1, <1>2 DEF RowsInv
<1> QED
  BY <1>1, <1>4, <1>5, <1>6, <1>7, <1>8, ClosedKeeps

LEMMA ServerSeesCloseKeeps ==
    ASSUME IInv, ServerSeesClose
    PROVE  IInv'
<1> USE DEF IInv, Types
<1>1. /\ socket = "closing" /\ socket' = "none" /\ Unregister
      /\ UNCHANGED <<inbox, outbox, mounted, status, timer, view, news, call, media, prompts>>
  BY DEF ServerSeesClose, channels, client
<1>2. ServerTypes' /\ UNCHANGED <<dbOwner, enrolled, due, posted>>
  BY <1>1, UnregisterTypes
<1>3. BoxTypes'
  BY <1>1, <1>2 DEF BoxTypes
<1>4. TypeOK'
  BY <1>1, <1>2 DEF TypeOK, view, news, call, media, prompts
<1>5. LinkInv'
  BY <1>1 DEF LinkInv, NoZombieReconnect, view
<1>6. MediaInv'
  BY <1>1 DEF MediaInv, CapturesAreReferenced, call, media, prompts
<1>7. RowsInv'
  BY <1>1, <1>2 DEF RowsInv
<1> QED
  BY <1>1, <1>2, <1>3, <1>4, <1>5, <1>6, <1>7, ClosedKeeps

----------------------------------------------------------------------------
(* What the tab is told. *)

LEMMA ListedIs ==
    ASSUME TypeOK, NEW r \in Rooms
    PROVE  Listed(r) \in Seq(Rooms) /\ Distinct(Listed(r))
<1>1. rooms \in Seq(Rooms) /\ Distinct(rooms)
  BY DEF TypeOK, Distinct
<1>2. CASE \E i \in DOMAIN rooms : rooms[i] = r
  BY <1>1, <1>2 DEF Listed
<1>3. CASE ~ \E i \in DOMAIN rooms : rooms[i] = r
  <2>1. Listed(r) = Append(rooms, r)
    BY <1>3 DEF Listed
  <2>2. /\ Append(rooms, r) \in Seq(Rooms)
        /\ Len(rooms) \in Nat /\ DOMAIN rooms = 1..Len(rooms)
        /\ DOMAIN Append(rooms, r) = 1..(Len(rooms) + 1)
        /\ \A i \in 1..Len(rooms) : Append(rooms, r)[i] = rooms[i]
        /\ Append(rooms, r)[Len(rooms) + 1] = r
    BY <1>1
  <2> QED
    BY <1>1, <1>3, <2>1, <2>2 DEF Distinct
<1> QED
  BY <1>2, <1>3

LEMMA SubSeqIs ==
    ASSUME NEW S, NEW s \in Seq(S), NEW m \in 1..(Len(s) + 1), NEW n \in 0..Len(s), m <= n + 1
    PROVE  /\ SubSeq(s, m, n) \in Seq(S) /\ Len(SubSeq(s, m, n)) = n + 1 - m
           /\ \A i \in 1..(n + 1 - m) : SubSeq(s, m, n)[i] = s[m + i - 1]
  OBVIOUS

LEMMA UnlistedIs ==
    ASSUME TypeOK, NEW r \in Rooms
    PROVE  Unlisted(r) \in Seq(Rooms) /\ Distinct(Unlisted(r))
<1> DEFINE at == {i \in DOMAIN rooms : rooms[i] = r}
           k == CHOOSE i \in at : TRUE
           n == Len(rooms)
           a == SubSeq(rooms, 1, k - 1)
           b == SubSeq(rooms, k + 1, n)
<1>1. rooms \in Seq(Rooms) /\ Distinct(rooms) /\ n \in Nat /\ DOMAIN rooms = 1..n
  BY DEF TypeOK, Distinct
<1>2. CASE at = {}
  BY <1>1, <1>2 DEF Unlisted
<1>3. CASE at # {}
  <2>1. k \in 1..n
    BY <1>1, <1>3
  <2>2. Unlisted(r) = a \o b
    BY <1>3 DEF Unlisted
  <2> HIDE DEF k, n
  <2>3. /\ a \in Seq(Rooms) /\ Len(a) = k - 1 /\ \A i \in 1..(k - 1) : a[i] = rooms[i]
        /\ b \in Seq(Rooms) /\ Len(b) = n - k /\ \A i \in 1..(n - k) : b[i] = rooms[k + i]
    <3>1. /\ 1 \in Nat /\ k - 1 \in Nat /\ k + 1 \in Nat /\ n \in Nat
          /\ k - 1 <= n /\ k + 1 >= 1
      BY <1>1, <2>1
    <3>2. a \in Seq(Rooms) /\ Len(a) = k - 1 /\ \A i \in 1..(k - 1) : a[i] = rooms[i]
      <4>1. \A i \in 1..(k - 1) : i \in DOMAIN rooms
        BY <1>1, <2>1
      <4> QED
        BY <1>1, <2>1, <3>1, <4>1, SubSeqIs DEF n
    <3>3. b \in Seq(Rooms) /\ Len(b) = n - k /\ \A i \in 1..(n - k) : b[i] = rooms[k + i]
      <4>1. k + 1 \in 1..(n + 1) /\ n \in 0..n /\ k + 1 <= n + 1
        BY <1>1, <2>1
      <4>2. /\ SubSeq(rooms, k + 1, n) \in Seq(Rooms)
            /\ Len(SubSeq(rooms, k + 1, n)) = n + 1 - (k + 1)
            /\ \A i \in 1..(n + 1 - (k + 1)) :
                 SubSeq(rooms, k + 1, n)[i] = rooms[k + 1 + i - 1]
        BY <1>1, <4>1, SubSeqIs DEF n
      <4>3. n + 1 - (k + 1) = n - k /\ \A i \in 1..(n - k) : k + 1 + i - 1 = k + i
        BY <1>1, <2>1
      <4> QED
        BY <4>2, <4>3
    <3> QED
      BY <3>2, <3>3
  <2> HIDE DEF a, b
  <2>4. /\ a \o b \in Seq(Rooms) /\ Len(a \o b) = n - 1
        /\ \A i \in 1..(n - 1) : (a \o b)[i] = rooms[IF i < k THEN i ELSE i + 1]
    <3>1. a \o b \in Seq(Rooms) /\ Len(a \o b) = Len(a) + Len(b)
      BY <2>3
    <3>2. ASSUME NEW i \in 1..(n - 1)
          PROVE  (a \o b)[i] = rooms[IF i < k THEN i ELSE i + 1]
      <4>1. CASE i < k
        <5>1. i \in 1..Len(a)
          BY <1>1, <2>1, <2>3, <4>1
        <5>2. (a \o b)[i] = a[i]
          BY <2>3, <5>1
        <5>3. (IF i < k THEN i ELSE i + 1) = i /\ i \in 1..(k - 1)
          BY <2>3, <4>1, <5>1
        <5>4. a[i] = rooms[i]
          BY <2>3, <5>3
        <5>5. rooms[IF i < k THEN i ELSE i + 1] = rooms[i]
          BY <4>1
        <5> QED
          BY <5>2, <5>4, <5>5
      <4>2. CASE ~(i < k)
        <5>1. i - (k - 1) \in 1..(n - k) /\ k + (i - (k - 1)) = i + 1 /\ Len(a) + (i - (k - 1)) = i
          <6>1. n \in Nat /\ k \in 1..n /\ Len(a) = k - 1
            BY <1>1, <2>1, <2>3
          <6> QED
            BY <4>2, <6>1
        <5>2. (a \o b)[Len(a) + (i - (k - 1))] = b[i - (k - 1)]
          BY <2>3, <5>1
        <5> QED
          BY <2>3, <4>2, <5>1, <5>2
      <4> QED
        BY <4>1, <4>2
    <3> QED
      BY <1>1, <2>1, <2>3, <3>1, <3>2
  <2>5. ASSUME NEW i \in 1..(n - 1), NEW j \in 1..(n - 1), (a \o b)[i] = (a \o b)[j]
        PROVE  i = j
    <3> DEFINE p == IF i < k THEN i ELSE i + 1
               q == IF j < k THEN j ELSE j + 1
    <3>1. p \in 1..n /\ q \in 1..n /\ (p = q => i = j)
      BY <1>1, <2>1
    <3>2. rooms[p] = rooms[q]
      BY <2>4, <2>5
    <3> QED
      BY <1>1, <3>1, <3>2 DEF Distinct
  <2>6. DOMAIN (a \o b) = 1..(n - 1)
    BY <2>4
  <2> QED
    BY <2>2, <2>4, <2>5, <2>6 DEF Distinct
<1> QED
  BY <1>2, <1>3

\* The message h at the head is dealt with: it is what the tab takes from a
\* list of rooms that it is in them, from a room's entry what the room is like,
\* and from a message about the end of a room that it is not in it.
LEMMA ReceiveKeeps ==
    ASSUME IInv, TypeOK', mounted, inbox # <<>>, inbox' = Tail(inbox),
           UNCHANGED <<server, outbox, link, call, media, prompts>>,
           NEW h, h = Head(inbox),
           \A r \in joined' : Names(h, r) \/ (r \in joined /\ ~IsOver(h, r)),
           \A r \in meIn : /\ ~Touches(h, r) => meta'[r] = meta[r]
                           /\ h = MetaOf(r) => meta'[r] = Current(r),
           shown \subseteq shown', Carries(h) \subseteq shown'
    PROVE  IInv'
<1> USE DEF IInv, Types
<1>1. /\ 1 \in DOMAIN inbox /\ h = inbox[1]
      /\ inbox' \in Seq(News)
      /\ \A i \in DOMAIN inbox' :
           i \in Nat /\ i + 1 \in DOMAIN inbox /\ inbox'[i] = inbox[i + 1] /\ i + 1 # 1
      /\ \A i \in DOMAIN inbox : i # 1 => i - 1 \in DOMAIN inbox' /\ inbox'[i - 1] = inbox[i]
      /\ \A i \in DOMAIN inbox : i \in Nat /\ i >= 1
  BY TailIs
<1>2. /\ UNCHANGED <<dbOwner, enrolled, open, meIn, otherIn, owner, screens, history, posted, due,
                     refused>>
      /\ UNCHANGED <<mounted, status, timer, socket>>
      /\ socket = "open"
  BY DEF server, rows, memory, chat, link, LinkInv
<1>3. ServerTypes' /\ RowsInv'
  BY <1>2 DEF ServerTypes, RowsInv
<1>4. BoxTypes'
  <2>1. \A i \in DOMAIN inbox' : Carries(inbox'[i]) \subseteq 1..posted
    BY <1>1 DEF BoxTypes
  <2> QED
    BY <1>1, <1>2, <2>1 DEF BoxTypes, Carries
<1>5. LinkInv'
  BY <1>2 DEF LinkInv, NoZombieReconnect
<1>6. MediaInv'
  BY DEF MediaInv, CapturesAreReferenced, call, media, prompts
<1>7. ASSUME NEW r, NEW i \in DOMAIN inbox, i # 1, IsOver(inbox[i], r)
      PROVE  i - 1 \in DOMAIN inbox' /\ IsOver(inbox'[i - 1], r)
  BY <1>1, <1>7
<1>8. JoinInv'
  <2>1. /\ \A r \in joined : \/ r \in meIn \cup refused
                             \/ \E i \in DOMAIN inbox : IsOver(inbox[i], r)
                             \/ \E i \in DOMAIN outbox : outbox[i] = Msg("join_room", r)
        /\ \A i \in DOMAIN inbox : \A r \in Rooms :
             Names(inbox[i], r) => \/ r \in meIn \cup refused
                                   \/ \E j \in DOMAIN inbox : i < j /\ IsOver(inbox[j], r)
    BY <1>2 DEF JoinInv
  <2>2. joined' \subseteq Rooms
    BY DEF TypeOK
  <2>3. ASSUME NEW r \in joined'
        PROVE  \/ r \in meIn \cup refused
               \/ \E i \in DOMAIN inbox' : IsOver(inbox'[i], r)
               \/ \E i \in DOMAIN outbox : outbox[i] = Msg("join_room", r)
    <3>1. CASE Names(h, r)
      <4>1. r \in meIn \cup refused \/ \E j \in DOMAIN inbox : 1 < j /\ IsOver(inbox[j], r)
        BY <1>1, <2>1, <2>2, <3>1
      <4> QED
        BY <1>1, <1>7, <4>1
    <3>2. CASE r \in joined /\ ~IsOver(h, r)
      BY <1>1, <1>7, <2>1, <3>2
    <3> QED
      BY <3>1, <3>2
  <2>4. ASSUME NEW i \in DOMAIN inbox', NEW r \in Rooms, Names(inbox'[i], r)
        PROVE  \/ r \in meIn \cup refused
               \/ \E j \in DOMAIN inbox' : i < j /\ IsOver(inbox'[j], r)
    <3>1. i + 1 \in DOMAIN inbox /\ Names(inbox[i + 1], r) /\ i \in Nat
      BY <1>1, <2>4
    <3>2. CASE r \in meIn \cup refused
      BY <3>2
    <3>3. CASE \E j \in DOMAIN inbox : i + 1 < j /\ IsOver(inbox[j], r)
      <4>1. PICK j \in DOMAIN inbox : i + 1 < j /\ IsOver(inbox[j], r)
        BY <3>3
      <4>2. j \in Nat /\ j # 1 /\ i < j - 1
        BY <1>1, <3>1, <4>1
      <4> QED
        BY <1>7, <4>1, <4>2
    <3> QED
      BY <2>1, <3>1, <3>2, <3>3
  <2> QED
    BY <1>2, <2>3, <2>4 DEF JoinInv, IsOver, Names
<1>9. MetaInv'
  <2>1. ASSUME NEW r \in meIn
        PROVE  \/ meta'[r] = Current(r) /\ \A i \in DOMAIN inbox' : ~Touches(inbox'[i], r)
               \/ \E i \in DOMAIN inbox' :
                    /\ inbox'[i] = MetaOf(r)
                    /\ \A j \in DOMAIN inbox' : i < j => ~Touches(inbox'[j], r)
    <3>1. CASE meta[r] = Current(r) /\ \A i \in DOMAIN inbox : ~Touches(inbox[i], r)
      BY <1>1, <3>1
    <3>2. CASE \E i \in DOMAIN inbox :
                 /\ inbox[i] = MetaOf(r)
                 /\ \A j \in DOMAIN inbox : i < j => ~Touches(inbox[j], r)
      <4>1. PICK i \in DOMAIN inbox :
                 /\ inbox[i] = MetaOf(r)
                 /\ \A j \in DOMAIN inbox : i < j => ~Touches(inbox[j], r)
        BY <3>2
      <4>2. CASE i = 1
        <5>1. \A j \in DOMAIN inbox' : j + 1 \in DOMAIN inbox /\ 1 < j + 1
          BY <1>1
        <5> QED
          BY <1>1, <4>1, <4>2, <5>1
      <4>3. CASE i # 1
        <5>1. i - 1 \in DOMAIN inbox' /\ inbox'[i - 1] = MetaOf(r)
          BY <1>1, <4>1, <4>3
        <5>2. ASSUME NEW j \in DOMAIN inbox', i - 1 < j
              PROVE  ~Touches(inbox'[j], r)
          <6>1. j + 1 \in DOMAIN inbox /\ inbox'[j] = inbox[j + 1] /\ i < j + 1
            BY <1>1, <4>1, <5>2
          <6> QED
            BY <4>1, <6>1
        <5> QED
          BY <5>1, <5>2
      <4> QED
        BY <4>2, <4>3
    <3> QED
      BY <1>2, <3>1, <3>2 DEF MetaInv
  <2>2. \A r \in Rooms : Current(r)' = Current(r) /\ MetaOf(r)' = MetaOf(r)
    BY <1>2 DEF Current, MetaOf, Members
  <2>3. meIn \subseteq Rooms
    BY DEF ServerTypes
  <2>4. ASSUME NEW r \in meIn'
        PROVE  \/ meta'[r] = Current(r)' /\ \A i \in DOMAIN inbox' : ~Touches(inbox'[i], r)
               \/ \E i \in DOMAIN inbox' :
                    /\ inbox'[i] = MetaOf(r)'
                    /\ \A j \in DOMAIN inbox' : i < j => ~Touches(inbox'[j], r)
    BY <1>2, <2>1, <2>2, <2>3
  <2> QED
    BY <2>4 DEF MetaInv, MetaOf, Touches, IsOver, Names
<1>10. DueInv'
  <2>1. ASSUME NEW r \in Rooms, NEW n \in Recent(r) \cap due[r]
        PROVE  n \in shown' \/ \E i \in DOMAIN inbox' : n \in Carries(inbox'[i])
    <3>1. n \in shown \/ \E i \in DOMAIN inbox : n \in Carries(inbox[i])
      BY <1>2 DEF DueInv
    <3>2. CASE n \in shown
      BY <3>2
    <3>3. CASE \E i \in DOMAIN inbox : n \in Carries(inbox[i])
      <4>1. PICK i \in DOMAIN inbox : n \in Carries(inbox[i])
        BY <3>3
      <4>2. CASE i = 1
        BY <1>1, <4>1, <4>2
      <4>3. CASE i # 1
        BY <1>1, <4>1, <4>3
      <4> QED
        BY <4>2, <4>3
    <3> QED
      BY <3>1, <3>2, <3>3
  <2>2. \A r \in Rooms : Recent(r)' = Recent(r)
    BY <1>2 DEF Recent
  <2> QED
    BY <1>2, <2>1, <2>2 DEF DueInv, Carries
<1> QED
  BY <1>3, <1>4, <1>5, <1>6, <1>8, <1>9, <1>10

\* What all the branches of onmessage have in common.
LEMMA ReceiveIs ==
    ASSUME IInv, NEW type, Receive(type)
    PROVE  /\ mounted /\ inbox # <<>> /\ inbox' = Tail(inbox)
           /\ Head(inbox) \in News /\ Head(inbox).type = type
           /\ Carries(Head(inbox)) \subseteq 1..posted
           /\ UNCHANGED <<server, outbox, link, call, media, prompts>> /\ UNCHANGED posted
           /\ UNCHANGED <<status, timer, socket, mounted>>
<1> USE DEF IInv, Types
<1>1. /\ mounted /\ inbox # <<>> /\ inbox' = Tail(inbox) /\ Head(inbox).type = type
      /\ UNCHANGED <<server, outbox, link, call, media, prompts>>
  BY DEF Receive
<1>2. 1 \in DOMAIN inbox /\ Head(inbox) = inbox[1] /\ Head(inbox) \in News
  BY <1>1, TailIs
<1>3. UNCHANGED posted /\ UNCHANGED <<status, timer, socket, mounted>>
  BY <1>1 DEF server, chat, link
<1> QED
  BY <1>1, <1>2, <1>3 DEF BoxTypes

\* The types that such a branch leaves alone, given those of what it changes.
LEMMA ReceiveTypes ==
    ASSUME IInv, UNCHANGED <<link, call, media, prompts, posted>>,
           rooms' \in Seq(Rooms), Distinct(rooms'),
           activeRoom' \in Rooms \cup {None}, joined' \subseteq Rooms,
           meta' \in [Rooms -> [owner : Users \cup {None}, users : SUBSET Users]],
           sharers' \in [Rooms -> SUBSET Users],
           shown' \subseteq 1..posted, UNCHANGED joiningRoom
    PROVE  TypeOK'
  BY DEF IInv, Types, TypeOK, Distinct, link, call, media, prompts

LEMMA ReceiveRoomsKeeps ==
    ASSUME IInv, ReceiveRooms
    PROVE  IInv'
<1> USE DEF IInv, Types
<1> DEFINE h == Head(inbox)
           kept == {h.rooms[i] : i \in DOMAIN h.rooms}
<1>1. /\ mounted /\ inbox # <<>> /\ inbox' = Tail(inbox) /\ h \in News /\ h.type = "rooms"
      /\ UNCHANGED <<server, outbox, link, call, media, prompts>> /\ UNCHANGED posted
  BY ReceiveIs DEF ReceiveRooms
<1>2. /\ rooms' = h.rooms /\ joined' = kept
      /\ meta' = [r \in Rooms |-> IF r \in kept THEN meta[r] ELSE NoEntry]
      /\ sharers' = [r \in Rooms |-> IF r \in kept THEN sharers[r] ELSE {}]
      /\ UNCHANGED <<activeRoom, direct, joiningRoom, shown>>
  BY DEF ReceiveRooms
<1> HIDE DEF h
<1>3. h.rooms \in Seq(Rooms) /\ Distinct(h.rooms)
  BY <1>1 DEF News, Lists
<1>4. kept \subseteq Rooms /\ \A r \in kept : Names(h, r)
  <2>1. \A i \in DOMAIN h.rooms : h.rooms[i] \in Rooms
    BY <1>3, SeqElements
  <2> QED
    BY <1>1, <2>1 DEF Names
<1>5. \A r : r \notin kept => Touches(h, r)
  BY <1>1 DEF Touches, Names
<1> HIDE DEF kept
<1>6. TypeOK'
  <2>1. meta' \in [Rooms -> [owner : Users \cup {None}, users : SUBSET Users]]
    <3>1. NoEntry \in [owner : Users \cup {None}, users : SUBSET Users]
      BY DEF NoEntry
    <3> QED
      BY <1>2, <3>1 DEF TypeOK
  <2>2. sharers' \in [Rooms -> SUBSET Users]
    BY <1>2 DEF TypeOK
  <2>3. activeRoom' \in Rooms \cup {None} /\ shown' \subseteq 1..posted
    BY <1>2 DEF TypeOK
  <2> QED
    BY <1>1, <1>2, <1>3, <1>4, <2>1, <2>2, <2>3, ReceiveTypes
<1>7. \A r \in meIn : (~Touches(h, r) => meta'[r] = meta[r]) /\ h # MetaOf(r)
  <2>1. meIn \subseteq Rooms
    BY DEF ServerTypes
  <2> QED
    BY <1>1, <1>2, <1>5, <2>1 DEF MetaOf
<1>8. Carries(h) = {}
  BY <1>1 DEF Carries
<1> QED
  BY <1>1, <1>2, <1>4, <1>6, <1>7, <1>8, ReceiveKeeps DEF h

LEMMA ReceiveRoomMetaKeeps ==
    ASSUME IInv, ReceiveRoomMeta
    PROVE  IInv'
<1> USE DEF IInv, Types
<1> DEFINE h == Head(inbox)
<1>1. /\ mounted /\ inbox # <<>> /\ inbox' = Tail(inbox) /\ h \in News /\ h.type = "room_meta"
      /\ UNCHANGED <<server, outbox, link, call, media, prompts>> /\ UNCHANGED posted
  BY ReceiveIs DEF ReceiveRoomMeta
<1>2. /\ meta' = [meta EXCEPT ![h.room] = [owner |-> h.owner, users |-> h.users]]
      /\ UNCHANGED <<rooms, activeRoom, direct, joined, joiningRoom, sharers, shown>>
  BY DEF ReceiveRoomMeta, StoreMeta, view
<1> HIDE DEF h
<1>3. h.room \in Rooms /\ h.owner \in Users \cup {None} /\ h.users \in SUBSET Users
  BY <1>1 DEF News
<1>4. TypeOK'
  <2>1. meta' \in [Rooms -> [owner : Users \cup {None}, users : SUBSET Users]]
    BY <1>2, <1>3 DEF TypeOK
  <2>2. /\ rooms' \in Seq(Rooms) /\ Distinct(rooms') /\ activeRoom' \in Rooms \cup {None}
        /\ joined' \subseteq Rooms /\ sharers' \in [Rooms -> SUBSET Users]
        /\ shown' \subseteq 1..posted
    BY <1>2 DEF TypeOK, Distinct
  <2> QED
    BY <1>1, <1>2, <2>1, <2>2, ReceiveTypes
<1>5. \A r \in meIn : /\ ~Touches(h, r) => meta'[r] = meta[r]
                      /\ h = MetaOf(r) => meta'[r] = Current(r)
  <2>1. meIn \subseteq Rooms
    BY DEF ServerTypes
  <2>2. \A r \in Rooms : ~Touches(h, r) => r # h.room
    BY <1>1 DEF Touches
  <2>3. ASSUME NEW r \in Rooms, h = MetaOf(r)
        PROVE  meta'[r] = Current(r)
    BY <1>2, <2>3 DEF TypeOK, MetaOf, Current
  <2> QED
    BY <1>2, <2>1, <2>2, <2>3 DEF TypeOK
<1>6. Carries(h) = {} /\ \A r : ~IsOver(h, r)
  BY <1>1 DEF Carries, IsOver
<1> QED
  BY <1>1, <1>2, <1>4, <1>5, <1>6, ReceiveKeeps DEF h

\* A message that only shows messages, a room or a sharer.
LEMMA ReceiveOtherKeeps ==
    ASSUME IInv, ReceiveHistory \/ ReceiveScreenState \/ ReceiveShare \/ ReceiveNotice
                   \/ ReceiveRoomMessage
    PROVE  IInv'
<1> USE DEF IInv, Types
<1> DEFINE h == Head(inbox)
<1>1. /\ mounted /\ inbox # <<>> /\ inbox' = Tail(inbox) /\ h \in News
      /\ Carries(h) \subseteq 1..posted
      /\ UNCHANGED <<server, outbox, link, call, media, prompts>> /\ UNCHANGED posted
  BY ReceiveIs DEF ReceiveHistory, ReceiveScreenState, ReceiveShare, ReceiveNotice,
                   ReceiveRoomMessage
<1>2. h.type \in {"history", "screen_share_state", "share", "room_message"}
        \/ (h.type = "system" /\ h.content \notin Ends)
  BY DEF ReceiveHistory, ReceiveScreenState, ReceiveShare, ReceiveNotice, ReceiveRoomMessage,
         Receive
<1>3. h.room \in Rooms
  BY <1>1, <1>2 DEF News
<1>4. UNCHANGED <<activeRoom, joined, joiningRoom, meta>>
  BY DEF ReceiveHistory, ReceiveScreenState, ReceiveShare, ReceiveNotice, ReceiveRoomMessage, view,
         news
<1>5. rooms' = rooms \/ rooms' = Listed(h.room)
  BY DEF ReceiveHistory, ReceiveScreenState, ReceiveShare, ReceiveNotice, ReceiveRoomMessage, view
<1>6. shown' = shown \cup Carries(h)
  <2>1. CASE ReceiveHistory
    <3>1. h.type = "history" /\ shown' = shown \cup h.ids
      BY <2>1 DEF ReceiveHistory, AppendHistory, Receive
    <3> QED
      BY <3>1 DEF Carries
  <2>2. CASE ReceiveRoomMessage
    <3>1. h.type = "room_message" /\ shown' = shown \cup {h.id}
      BY <2>2 DEF ReceiveRoomMessage, Receive
    <3> QED
      BY <3>1 DEF Carries
  <2>3. CASE ReceiveScreenState \/ ReceiveShare \/ ReceiveNotice
    <3>1. h.type \in {"screen_share_state", "share", "system"} /\ shown' = shown
      BY <2>3 DEF ReceiveScreenState, ReceiveShare, ReceiveNotice, Receive, news
    <3> QED
      BY <3>1 DEF Carries
  <2> QED
    BY <2>1, <2>2, <2>3
<1>7. sharers' \in [Rooms -> SUBSET Users]
  <2>1. CASE ReceiveScreenState
    <3>1. h.type = "screen_share_state" /\ sharers' = [sharers EXCEPT ![h.room] = h.users]
      BY <2>1 DEF ReceiveScreenState, Receive
    <3>2. h.users \in SUBSET Users
      BY <1>1, <3>1 DEF News
    <3> QED
      BY <3>1, <3>2 DEF TypeOK
  <2>2. CASE ReceiveShare
    <3>1. h.type = "share"
          /\ sharers' = [sharers EXCEPT ![h.room] =
                           IF h.on THEN @ \cup {h.from} ELSE @ \ {h.from}]
      BY <2>2 DEF ReceiveShare, Receive
    <3>2. h.from \in Users
      BY <1>1, <3>1 DEF News
    <3> QED
      BY <1>3, <3>1, <3>2 DEF TypeOK
  <2>3. CASE ReceiveHistory \/ ReceiveNotice \/ ReceiveRoomMessage
    BY <2>3 DEF ReceiveHistory, ReceiveNotice, ReceiveRoomMessage, news, TypeOK
  <2> QED
    BY <2>1, <2>2, <2>3
<1> HIDE DEF h
<1>8. TypeOK'
  <2>1. rooms' \in Seq(Rooms) /\ Distinct(rooms')
    <3>1. rooms \in Seq(Rooms) /\ Distinct(rooms)
      BY DEF TypeOK, Distinct
    <3>2. Listed(h.room) \in Seq(Rooms) /\ Distinct(Listed(h.room))
      BY <1>3, ListedIs
    <3> QED
      BY <1>5, <3>1, <3>2
  <2>2. /\ activeRoom' \in Rooms \cup {None} /\ joined' \subseteq Rooms
        /\ meta' \in [Rooms -> [owner : Users \cup {None}, users : SUBSET Users]]
    BY <1>4 DEF TypeOK
  <2>3. shown' \subseteq 1..posted
    BY <1>1, <1>6 DEF TypeOK
  <2> QED
    BY <1>1, <1>4, <1>7, <2>1, <2>2, <2>3, ReceiveTypes
<1>9. /\ \A r : ~IsOver(h, r) /\ ~Touches(h, r)
      /\ \A r : h # MetaOf(r)
  BY <1>2 DEF IsOver, Touches, MetaOf
<1>10. shown \subseteq shown' /\ Carries(h) \subseteq shown'
  BY <1>6
<1> QED
  BY <1>1, <1>4, <1>8, <1>9, <1>10, ReceiveKeeps DEF h

LEMMA ReceiveEndKeeps ==
    ASSUME IInv, ReceiveEnd
    PROVE  IInv'
<1> USE DEF IInv, Types
<1> DEFINE h == Head(inbox)
           next == Unlisted(h.room)
<1>1. /\ mounted /\ inbox # <<>> /\ inbox' = Tail(inbox) /\ h \in News /\ h.type = "system"
      /\ UNCHANGED <<server, outbox, link, call, media, prompts>> /\ UNCHANGED posted
  BY ReceiveIs DEF ReceiveEnd
<1>2. /\ h.content \in Ends
      /\ rooms' = next
      /\ activeRoom' = IF activeRoom # h.room THEN activeRoom
                       ELSE IF next = <<>> THEN None ELSE Head(next)
      /\ joined' = joined \ {h.room}
      /\ meta' = [meta EXCEPT ![h.room] = NoEntry]
      /\ UNCHANGED <<direct, joiningRoom, sharers, shown>>
  BY DEF ReceiveEnd, ForgetJoined
<1> HIDE DEF h
<1>3. h.room \in Rooms
  BY <1>1 DEF News
<1>4. next \in Seq(Rooms) /\ Distinct(next)
  BY <1>3, UnlistedIs
<1> HIDE DEF next
<1>5. TypeOK'
  <2>1. meta' \in [Rooms -> [owner : Users \cup {None}, users : SUBSET Users]]
    <3>1. NoEntry \in [owner : Users \cup {None}, users : SUBSET Users]
      BY DEF NoEntry
    <3> QED
      BY <1>2, <3>1 DEF TypeOK
  <2>2. activeRoom' \in Rooms \cup {None}
    BY <1>2, <1>4 DEF TypeOK
  <2>3. /\ joined' \subseteq Rooms /\ sharers' \in [Rooms -> SUBSET Users]
        /\ shown' \subseteq 1..posted
    BY <1>2 DEF TypeOK
  <2> QED
    BY <1>1, <1>2, <1>4, <2>1, <2>2, <2>3, ReceiveTypes
<1>6. /\ \A r : IsOver(h, r) <=> r = h.room
      /\ \A r \in Rooms : ~Touches(h, r) => r # h.room
      /\ \A r : h # MetaOf(r)
      /\ Carries(h) = {}
  BY <1>1, <1>2 DEF IsOver, Touches, MetaOf, Carries
<1>7. \A r \in meIn : ~Touches(h, r) => meta'[r] = meta[r]
  <2>1. meIn \subseteq Rooms
    BY DEF ServerTypes
  <2> QED
    BY <1>2, <1>6, <2>1 DEF TypeOK
<1> QED
  BY <1>1, <1>2, <1>5, <1>6, <1>7, ReceiveKeeps DEF h

----------------------------------------------------------------------------
(* The invariant is inductive. *)

LEMMA InitIInv == Init => IInv
<1> SUFFICES ASSUME Init
             PROVE  IInv
  OBVIOUS
<1>1. PICK old \in OldRooms :
        /\ dbOwner = [r \in Rooms |-> old[r].owner]
        /\ enrolled = {r \in Rooms : old[r].mine}
        /\ otherIn = {r \in Rooms : old[r].others}
        /\ owner = [r \in Rooms |-> IF old[r].others THEN old[r].owner ELSE None]
  BY DEF Init, ServerInit
<1>2. /\ open = otherIn /\ meIn = {} /\ screens = [r \in Rooms |-> {}]
      /\ history = [r \in Rooms |-> <<>>] /\ posted = 0 /\ due = [r \in Rooms |-> {}]
      /\ refused = {} /\ inbox = <<>> /\ outbox = <<>>
  BY DEF Init, ServerInit
<1>3. ServerTypes
  <2>1. old \in [Rooms -> [owner : Users \cup {None}, mine : BOOLEAN, others : BOOLEAN]]
    BY OldRoomsAssumption
  <2>2. dbOwner \in [Rooms -> Users \cup {None}] /\ owner \in [Rooms -> Users \cup {None}]
    BY <1>1, <2>1
  <2>3. history \in [Rooms -> Seq(1..posted)] /\ due \in [Rooms -> SUBSET (1..posted)]
        /\ screens \in [Rooms -> SUBSET Users]
    BY <1>2
  <2> QED
    BY <1>1, <1>2, <2>2, <2>3 DEF ServerTypes
<1>4. BoxTypes
  BY <1>2 DEF BoxTypes
<1>5. TypeOK
  <2>1. NoEntry \in [owner : Users \cup {None}, users : SUBSET Users]
    BY DEF NoEntry
  <2>2. meta \in [Rooms -> [owner : Users \cup {None}, users : SUBSET Users]]
        /\ sharers \in [Rooms -> SUBSET Users]
    BY <2>1 DEF Init
  <2>3. rooms \in Seq(Rooms) /\ \A i, j \in DOMAIN rooms : rooms[i] = rooms[j] => i = j
    BY DEF Init
  <2> QED
    BY <1>2, <2>2, <2>3 DEF Init, TypeOK
<1>6. LinkInv
  BY <1>2 DEF Init, LinkInv, NoZombieReconnect
<1>7. MediaInv
  BY DEF Init, MediaInv, CapturesAreReferenced
<1>8. JoinInv /\ MetaInv /\ DueInv
  BY DEF Init, JoinInv, MetaInv, DueInv
<1>9. RowsInv
  BY <1>2 DEF Init, RowsInv
<1> QED
  BY <1>3, <1>4, <1>5, <1>6, <1>7, <1>8, <1>9 DEF IInv, Types

LEMMA StutterKeeps ==
    ASSUME IInv, UNCHANGED vars
    PROVE  IInv'
<1>1. /\ UNCHANGED <<server, socket, inbox, outbox>>
      /\ UNCHANGED <<mounted, status, timer, view, news, call, media, prompts>>
  BY DEF vars, channels, link, client
<1>2. Answers(<<>>)
  BY <1>1, SilentAnswers
<1> QED
  BY <1>1, <1>2, AnswersKeep

LEMMA StepIInv == IInv /\ [Next]_vars => IInv'
<1> SUFFICES ASSUME IInv, [Next]_vars
             PROVE  IInv'
  OBVIOUS
<1>1. CASE ServerActs \/ UploadAnswered
  BY <1>1, ServerActsKeep
<1>2. CASE SocketEvents
  BY <1>2, SocketOpensKeeps, SocketClosesKeeps, ServerSeesCloseKeeps, ReceiveRoomsKeeps,
     ReceiveRoomMetaKeeps, ReceiveOtherKeeps, ReceiveEndKeeps DEF SocketEvents
<1>3. CASE Reconnect
  BY <1>3, ReconnectKeeps
<1>4. CASE Unmount
  BY <1>4, UnmountKeeps
<1>5. CASE RoomClicks \/ CallClicks
  BY <1>5, RoomClickKeeps, CallClickKeeps, TabStepKeeps
<1>6. CASE PromptAnswers
  <2>1. PICK p \in asking : \/ Denied(p)
                            \/ \E s \in Captures : MicGranted(p, s) \/ ShareGranted(p, s)
    BY <1>6 DEF PromptAnswers
  <2> QED
    BY <2>1, OtherTabStepKeeps, MicGrantedKeeps, ShareGrantedKeeps, TabStepKeeps
<1>7. CASE JoiningRoomEnds \/ JoiningVoiceEnds \/ HandleLogout
  BY <1>7, OtherTabStepKeeps, TabStepKeeps
<1>8. CASE UNCHANGED vars
  BY <1>8, StutterKeeps
<1> QED
  BY <1>1, <1>2, <1>3, <1>4, <1>5, <1>6, <1>7, <1>8 DEF Next

LEMMA AlwaysIInv == Spec => []IInv
  BY InitIInv, StepIInv, PTL DEF Spec

\* Every variable of the tab keeps its type, and no room is listed twice,
\* whatever list, history or notice about a room arrives in whichever order.
THEOREM TypeCorrectness == Spec => []TypeOK
<1>1. IInv => TypeOK
  BY DEF IInv, Types
<1> QED
  BY <1>1, AlwaysIInv, PTL

\* After the effect's cleanup there is neither a timer nor a connection that
\* will be made.
THEOREM GoneIsGone == Spec => []NoZombieReconnect
<1>1. IInv => NoZombieReconnect
  BY DEF IInv, LinkInv
<1> QED
  BY <1>1, AlwaysIInv, PTL

\* The refs hold every stream that records, unless prompts overlapped.
THEOREM MediaAreHeld == Spec => []CapturesAreReferenced
<1>1. IInv => CapturesAreReferenced
  BY DEF IInv, MediaInv
<1> QED
  BY <1>1, AlwaysIInv, PTL

\* With nothing on its way, joinedRoomsRef names rooms that the hub has the
\* connection in, or that it could not enrol the account in.
THEOREM JoinedRoomsAreRight == Spec => []JoinedRoomsAreMine
<1>1. IInv => JoinedRoomsAreMine
  BY DEF IInv, JoinInv, JoinedRoomsAreMine, Quiet
<1> QED
  BY <1>1, AlwaysIInv, PTL

\* With nothing on its way, roomMeta has the owner and users of each room that
\* the connection is in.
THEOREM MetaIsRight == Spec => []MetaIsCurrent
<1>1. ASSUME IInv
      PROVE  MetaIsCurrent
  BY <1>1 DEF IInv, MetaInv, MetaIsCurrent, Quiet, Current
<1> QED
  BY <1>1, AlwaysIInv, PTL

\* With nothing on its way, what the account is owed of a room's messages and a
\* new connection would be sent is shown, however many connections broke.
THEOREM AllIsShown == Spec => []NothingMissed
<1>1. ASSUME IInv
      PROVE  NothingMissed
  BY <1>1 DEF IInv, DueInv, NothingMissed, Quiet
<1> QED
  BY <1>1, AlwaysIInv, PTL

----------------------------------------------------------------------------
(* The end of a call is announced. *)

LEMMA CallGoesOn ==
    ASSUME Next, voice, ~voice'
    PROVE  \/ SocketCloses \/ Unmount \/ HandleLeaveVoice \/ HandleLeaveRoom
           \/ \E r \in Rooms : HandleJoinSelectedRoom(r)
<1>1. CASE ServerActs \/ Reconnect \/ UploadAnswered
  BY <1>1 DEF ServerActs, Reconnect, UploadAnswered, client, call
<1>2. CASE SocketEvents
  BY <1>2 DEF SocketEvents, SocketOpens, ServerSeesClose, ReceiveRooms, ReceiveRoomMeta,
     ReceiveHistory, ReceiveScreenState, ReceiveShare, ReceiveEnd, ReceiveNotice,
     ReceiveRoomMessage, Receive, client, call
<1>3. CASE RoomClicks
  BY <1>3 DEF RoomClicks, HandleCreateRoom, HandleSelectRoom, HandleSelectDirectFriend,
     HandleCloseRoom, HandleAddFriendToRoom, HandleSendRoomMessage, HandleUploadAttachment,
     ActBySending, client, call
<1>4. CASE CallClicks
  BY <1>4 DEF CallClicks, HandleJoinVoice, HandleToggleMic, HandleStartShare, HandleStopShare,
     TrackEnds, call
<1>5. CASE PromptAnswers
  BY <1>5 DEF PromptAnswers, Denied, MicGranted, ShareGranted, EnterCall, call
<1>6. CASE JoiningRoomEnds \/ JoiningVoiceEnds \/ HandleLogout
  BY <1>6 DEF JoiningRoomEnds, JoiningVoiceEnds, HandleLogout, call
<1> QED
  BY <1>1, <1>2, <1>3, <1>4, <1>5, <1>6 DEF Next

LEMMA LeaveSignalsEnd ==
    ASSUME NEW r \in Rooms, voice
    PROVE  /\ LeaveSignals(r) \in Seq(Requests)
           /\ \E k \in DOMAIN LeaveSignals(r) : LeaveSignals(r)[k] = Msg("voice_leave", r)
<1> DEFINE stop == IF screenStream # None THEN <<Msg("screen_share_stop", r)>> ELSE <<>>
           leave == <<Msg("voice_leave", r)>>
<1>1. LeaveSignals(r) = stop \o leave
  BY NameAssumption DEF LeaveSignals
<1>2. "screen_share_stop" \in Orders /\ "voice_leave" \in Orders
  BY DEF Orders
<1>3. stop \in Seq(Requests)
  BY <1>2, MsgType
<1>4. leave \in Seq(Requests)
  BY <1>2, MsgType
<1>5. Len(leave) = 1 /\ leave[1] = Msg("voice_leave", r)
  OBVIOUS
<1> HIDE DEF stop, leave
<1>6. Len(stop) + 1 \in DOMAIN (stop \o leave) /\ (stop \o leave)[Len(stop) + 1] = leave[1]
  BY <1>3, <1>4, <1>5
<1> QED
  BY <1>1, <1>3, <1>4, <1>5, <1>6

\* What is sent is at the end of the outbox.
LEMMA SentLast ==
    ASSUME BoxTypes, NEW ms \in Seq(Requests), Send(ms), socket = "open",
           NEW m, \E k \in DOMAIN ms : ms[k] = m
    PROVE  \E i \in DOMAIN outbox' : i > Len(outbox) /\ outbox'[i] = m
  BY SentIs

LEMMA EndOfCallIsAnnounced ==
    ASSUME IInv, Next, voice, ~voice', activeRoom = voiceRoom, socket = "open", socket' # "none"
    PROVE  \E i \in DOMAIN outbox' : i > Len(outbox) /\ outbox'[i] = Msg("voice_leave", voiceRoom)
<1> USE DEF IInv, Types
<1> DEFINE bye == Msg("voice_leave", voiceRoom)
           signals == LeaveSignals(voiceRoom)
<1>1. voiceRoom \in Rooms /\ voiceRoom # None
  BY DEF TypeOK, MediaInv
<1>2. signals \in Seq(Requests) /\ \E k \in DOMAIN signals : signals[k] = bye
  BY <1>1, LeaveSignalsEnd
<1>3. ASSUME NEW after \in Seq(Requests)
      PROVE  /\ signals \o after \in Seq(Requests)
             /\ \E k \in DOMAIN (signals \o after) : (signals \o after)[k] = bye
  <2> HIDE DEF signals, bye
  <2>1. PICK k \in DOMAIN signals : signals[k] = bye
    BY <1>2
  <2>2. k \in DOMAIN (signals \o after) /\ (signals \o after)[k] = bye
    BY <1>2, <2>1
  <2>3. signals \o after \in Seq(Requests)
    BY <1>2
  <2> QED
    BY <2>2, <2>3
<1>4. "leave_room" \in Orders /\ "join_room" \in Orders /\ "voice_leave" \in Orders
  BY DEF Orders
<1>5. CASE SocketCloses
  BY <1>5 DEF SocketCloses
<1>6. CASE Unmount
  <2>1. Send(signals)
    BY <1>6 DEF Unmount
  <2> QED
    BY <1>2, <2>1, SentLast
<1>7. CASE HandleLeaveVoice
  <2>1. Send(<<bye>>)
    BY <1>1, <1>7 DEF HandleLeaveVoice, TargetRoom
  <2>2. <<bye>> \in Seq(Requests) /\ DOMAIN <<bye>> = {1} /\ <<bye>>[1] = bye
    BY <1>1, <1>4, MsgType
  <2> QED
    BY <2>1, <2>2, SentLast
<1>8. CASE HandleLeaveRoom
  <2> DEFINE after == <<Msg("leave_room", voiceRoom)>>
  <2>1. Send(signals \o after)
    BY <1>8 DEF HandleLeaveRoom
  <2>2. after \in Seq(Requests)
    BY <1>1, <1>4, MsgType
  <2> HIDE DEF after, signals, bye
  <2>3. \E i \in DOMAIN outbox' : i > Len(outbox) /\ outbox'[i] = bye
    BY <1>3, <2>1, <2>2, SentLast
  <2> QED
    BY <2>3 DEF bye
<1>9. CASE \E r \in Rooms : HandleJoinSelectedRoom(r)
  <2>1. PICK r \in Rooms : HandleJoinSelectedRoom(r)
    BY <1>9
  <2> DEFINE leave == <<Msg("leave_room", voiceRoom)>>
             asks == IF r \in joined THEN <<>> ELSE <<Msg("join_room", r)>>
  <2>2. Send((signals \o leave) \o asks)
    BY <1>1, <2>1 DEF HandleJoinSelectedRoom
  <2>3. leave \in Seq(Requests) /\ asks \in Seq(Requests)
    BY <1>1, <1>4, MsgType
  <2> HIDE DEF leave, asks, signals, bye
  <2>4. (signals \o leave) \o asks = signals \o (leave \o asks)
    BY <1>2, <2>3
  <2>5. leave \o asks \in Seq(Requests)
    BY <2>3
  <2>6. \E i \in DOMAIN outbox' : i > Len(outbox) /\ outbox'[i] = bye
    BY <1>3, <2>2, <2>4, <2>5, SentLast
  <2> QED
    BY <2>6 DEF bye
<1> QED
  BY <1>5, <1>6, <1>7, <1>8, <1>9, CallGoesOn

\* Whichever way a call ends while its room is in view and the socket is open,
\* voice_leave is sent, but for the socket's own end.
THEOREM EndsAreAnnounced == Spec => LeaveIsAnnounced
<1>1. ASSUME IInv, [Next]_vars
      PROVE  [voice /\ ~voice' /\ activeRoom = voiceRoom /\ socket = "open" /\ socket' # "none"
                => \E i \in DOMAIN outbox' : /\ i > Len(outbox)
                                             /\ outbox'[i] = Msg("voice_leave", voiceRoom)]_vars
  BY <1>1, EndOfCallIsAnnounced
<1> QED
  BY <1>1, AlwaysIInv, PTL DEF Spec, LeaveIsAnnounced

=============================================================================
