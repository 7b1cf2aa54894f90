----------------------------- MODULE HubRooms -----------------------------
(***************************************************************************)
(* Rooms: what a connection does to them when it rehydrates and when its   *)
(* ReadPump calls HandleMessage, and what HTTP handlers publish to them.   *)
(***************************************************************************)
EXTENDS HubCore

----------------------------------------------------------------------------
(* Rehydration of a new connection: rehydrateClientState, RehydrateJoin.   *)

\* ListActiveChatRoomsByUserID: rooms with a row that the account is in.  On
\* an error nothing is sent at all; otherwise the list of rooms comes last.
ListRooms(c) ==
    /\ At(c, "listRooms")
    /\ LET mine == {r \in RoomIDs :
                      dbOwner[r] # NoOne /\ NameOf[c] \in dbMembers[r]}
           rows == {[room |-> r, owner |-> dbOwner[r]] : r \in mine}
       IN  \/ Then(c, Rehydrate(rows) \o Send({c}, FALSE))
           \/ Then(c, <<>>)
    /\ UNCHANGED <<data, pumps, control>>

\* sendRoomSnapshot of one of the rows: RehydrateJoin, then room meta and
\* screen state and, unless reading it fails, the history.  The rows were read
\* before: the room may be closed, or left, by now.  The owner's name is
\* looked up first; without it RoomOwners stays as it is.
RehydrateJoin(c, row) ==
    /\ Section(c, "rehydrate")
    /\ row \in Head(todo[c]).rows
    /\ open' = open \cup {row.room}
    /\ rooms' = [rooms EXCEPT ![row.room] = @ \cup {c}]
    /\ \/ roomOwners' = [roomOwners EXCEPT ![row.room] = row.owner]
       \/ UNCHANGED roomOwners
    /\ stale' = IF dbOwner[row.room] = row.owner
                     /\ NameOf[c] \in dbMembers[row.room]
                THEN stale ELSE stale \cup {row.room}
    /\ LET news == IF c \in rooms[row.room] THEN <<>>
                   ELSE BroadcastRoomMeta(row.room)
           snapshot == SendRoomMetaToClient(row.room)
                       \o SendScreenStateToClient(row.room)
           rest == Rehydrate(Head(todo[c]).rows \ {row})
       IN  \E history \in {<<>>, Send({c}, FALSE)} :
             Then(c, news \o snapshot \o history \o rest)
    /\ UNCHANGED <<registry, roomScreen, database, pumps, presence, control>>

----------------------------------------------------------------------------
(* HandleMessage, one action per handler: its first section under h.mu.    *)

\* ReadPump of c has read a message of this type.
Request(c, type) ==
    /\ ~crashed
    /\ type \in Requests
    /\ issued < MaxRequests
    /\ issued' = issued + 1
    /\ phase[c] = "live"
    /\ todo[c] = <<>>

Reply(c, jobs) == todo' = [todo EXCEPT ![c] = jobs]

HasUser(r, u) == \E d \in rooms[r] : NameOf[d] = u

\* A bug: an error of AddChatRoomMember is ignored.
AddsMemberOrNot(r, u) ==
    dbMembers' \in {dbMembers, [dbMembers EXCEPT ![r] = @ \cup {u}]}

\* AddChatRoomMember succeeds: an upsert that clears left_at.  Whether a row
\* for the room has to exist depends on the server's foreign_keys setting.
AddsMember(r, u) == dbMembers' = [dbMembers EXCEPT ![r] = @ \cup {u}]

\* createRoom.  Either insert may fail; the second failing leaves the row
\* that the first one made.
CreateRoom(c, r) ==
    /\ Request(c, "create_room")
    /\ Unlocked
    /\ \/ /\ r \in open
          /\ Reply(c, SendSystem(c))
          /\ UNCHANGED <<open, rooms, roomOwners, database>>
       \/ /\ r \notin open
          /\ Reply(c, SendSystem(c))
          /\ \/ UNCHANGED dbOwner
             \/ /\ dbOwner[r] = NoOne
                /\ dbOwner' = [dbOwner EXCEPT ![r] = NameOf[c]]
          /\ roomOwners' = [roomOwners EXCEPT ![r] = NoOne]
          /\ UNCHANGED <<open, rooms, dbMembers>>
       \/ /\ r \notin open
          /\ dbOwner[r] = NoOne
          /\ dbOwner' = [dbOwner EXCEPT ![r] = NameOf[c]]
          /\ dbMembers' = [dbMembers EXCEPT ![r] = @ \cup {NameOf[c]}]
          /\ open' = open \cup {r}
          /\ rooms' = [rooms EXCEPT ![r] = {c}]
          /\ roomOwners' = [roomOwners EXCEPT ![r] = NameOf[c]]
          /\ Reply(c, SendSystem(c) \o BroadcastRoomMeta(r))
    /\ UNCHANGED <<registry, roomScreen, stale, pumps, presence, mu, crashed>>

\* joinRoom.  The room is made before anything can fail, without an owner.
JoinRoom(c, r) ==
    /\ Request(c, "join_room")
    /\ Unlocked
    /\ open' = open \cup {r}
    /\ \/ /\ HasUser(r, NameOf[c])
          /\ UNCHANGED <<rooms, dbMembers>>
          /\ Reply(c, SendSystem(c) \o BroadcastRoomMeta(r))
       \/ /\ ~HasUser(r, NameOf[c])
          /\ AddsMember(r, NameOf[c])
          /\ rooms' = [rooms EXCEPT ![r] = @ \cup {c}]
          /\ Reply(c, SendSystem(c) \o BroadcastRoomMeta(r))
       \/ /\ ~HasUser(r, NameOf[c])
          /\ UNCHANGED <<rooms, dbMembers>>
          /\ Reply(c, SendSystem(c))
    /\ UNCHANGED <<registry, roomOwners, roomScreen, stale, dbOwner, pumps,
                   presence, mu, crashed>>

\* addUserToRoom takes whichever connection of u the map iteration yields.
MayAdd(c, r, u) ==
    /\ r \in open
    /\ c \in rooms[r]
    /\ <<NameOf[c], u>> \in Friends
    /\ NameOf[c] # u
    /\ ~HasUser(r, u)

AddUserToRoom(c, r, u) ==
    /\ Request(c, "add_to_room")
    /\ Unlocked
    /\ \/ \E d \in users[u] :
            /\ MayAdd(c, r, u)
            /\ AddsMember(r, u)
            /\ rooms' = [rooms EXCEPT ![r] = @ \cup {d}]
            /\ Reply(c, SendSystem(c) \o SendSystem(d)
                          \o SocialEvent(NameOf[c], u) \o BroadcastRoomMeta(r))
       \/ /\ UNCHANGED <<rooms, dbMembers>>  \* a check or the insert fails
          /\ Reply(c, SendSystem(c))
    /\ UNCHANGED <<registry, open, roomOwners, roomScreen, stale, dbOwner,
                   pumps, presence, mu, crashed>>

\* A bug: closing forgets the members and the sharers, not the owner.
ForgetMembers(r) ==
    /\ open' = open \ {r}
    /\ rooms' = [rooms EXCEPT ![r] = {}]
    /\ roomScreen' = [roomScreen EXCEPT ![r] = {}]
    /\ UNCHANGED roomOwners

\* The three deletes of closeRoom.
ForgetRoom(r) ==
    /\ open' = open \ {r}
    /\ rooms' = [rooms EXCEPT ![r] = {}]
    /\ roomOwners' = [roomOwners EXCEPT ![r] = NoOne]
    /\ roomScreen' = [roomScreen EXCEPT ![r] = {}]

\* A bug: closing broadcasts the room's meta before the deferred unlock.
MetaThenUnlock(r) == BroadcastRoomMeta(r) \o UnlockJob

\* "room closed" to every member, then the deferred unlock.
NoticeThenUnlock(r) == Send(rooms[r], TRUE) \o UnlockJob

\* "room does not exist" or "only owner can close room".
RefuseThenUnlock(c) == SendSystem(c) \o UnlockJob

\* closeRoom.  The unlock is deferred, so its messages go out with h.mu held.
\* When the row cannot be deleted the room is put back, its sharers are not.
CloseRoom(c, r) ==
    /\ Request(c, "close_room")
    /\ Unlocked
    /\ mu' = c
    /\ \/ /\ roomOwners[r] # NameOf[c]
          /\ Reply(c, RefuseThenUnlock(c))
          /\ UNCHANGED <<open, rooms, roomOwners, roomScreen, database>>
       \/ /\ roomOwners[r] = NameOf[c]
          /\ ForgetRoom(r)
          /\ Reply(c, SendSystem(c) \o Restore(r, rooms[r], NameOf[c])
                        \o UnlockJob)
          /\ UNCHANGED database
       \/ /\ roomOwners[r] = NameOf[c]
          /\ ForgetRoom(r)
          /\ dbOwner[r] = NameOf[c]
          /\ dbOwner' = [dbOwner EXCEPT ![r] = NoOne]
          /\ \/ dbMembers' = [dbMembers EXCEPT ![r] = {}]  \* cascade
             \/ UNCHANGED dbMembers  \* foreign keys are off
          /\ Reply(c, NoticeThenUnlock(r))
    /\ UNCHANGED <<registry, stale, pumps, presence, crashed>>

RestoreRoom(c) ==
    /\ At(c, "restore")
    /\ LET job == Head(todo[c])
       IN  /\ open' = open \cup {job.room}
           /\ rooms' = [rooms EXCEPT ![job.room] = job.to]
           /\ roomOwners' = [roomOwners EXCEPT ![job.room] = job.user]
    /\ Then(c, <<>>)
    /\ UNCHANGED <<registry, roomScreen, stale, database, pumps, presence,
                   control>>

Unlock(c) ==
    /\ At(c, "unlock")
    /\ mu' = NoOne
    /\ Then(c, <<>>)
    /\ UNCHANGED <<data, pumps, crashed, issued>>

\* leaveRoom takes out every connection of the account, whether or not the
\* sender is a member, and ignores an error of MarkChatRoomMemberLeft.
LeaveRoom(c, r) ==
    /\ Request(c, "leave_room")
    /\ Unlocked
    /\ r \in open
    /\ LET left == {d \in rooms[r] : NameOf[d] # NameOf[c]}
       IN  /\ rooms' = [rooms EXCEPT ![r] = left]
           /\ open' = IF left = {} THEN open \ {r} ELSE open
           /\ roomOwners' =
                [roomOwners EXCEPT ![r] = IF left = {} THEN NoOne ELSE @]
           /\ roomScreen' = [roomScreen EXCEPT ![r] =
                IF left = {} THEN {} ELSE @ \ {NameOf[c]}]
           /\ Reply(c, (IF left = {} THEN <<>> ELSE BroadcastRoomMeta(r)
                                                    \o BroadcastScreenState(r))
                       \o SendSystem(c))
    /\ \/ dbMembers' = [dbMembers EXCEPT ![r] = @ \ {NameOf[c]}]
       \/ UNCHANGED dbMembers
    /\ UNCHANGED <<registry, stale, dbOwner, pumps, presence, mu, crashed>>

\* A request that does nothing to the hub before it sends.
Relay(c, type, jobs) ==
    /\ Request(c, type)
    /\ Reply(c, jobs)
    /\ UNCHANGED <<data, pumps, mu, crashed>>

\* sendToRoom, which does not ask whether the sender is in the room.
RoomMessage(c, r) == Relay(c, "room_message", SendToRoom(r))

DirectMessage(c, u) == Relay(c, "direct_message", SendDirect(u))

\* forwardRealtimeRoomSignal for WebRTC: any one connection of the target
\* that is in the room, or a system message.
ForwardSignal(c) ==
    /\ Section(c, "signalTo")
    /\ LET job == Head(todo[c])
           targets == {d \in rooms[job.room] : NameOf[d] = job.user}
       IN  \/ \E d \in targets : Then(c, Send({d}, TRUE))
           \/ targets = {} /\ Then(c, SendSystem(c))
    /\ UNCHANGED <<data, pumps, control>>

\* updateScreenShareState.
UpdateScreenShareState(c) ==
    /\ Section(c, "share")
    /\ LET job == Head(todo[c])
           now == IF job.on THEN roomScreen[job.room] \cup {NameOf[c]}
                  ELSE roomScreen[job.room] \ {NameOf[c]}
       IN  roomScreen' = IF job.room \in open
                         THEN [roomScreen EXCEPT ![job.room] = now]
                         ELSE roomScreen
    /\ Then(c, <<>>)
    /\ UNCHANGED <<registry, open, rooms, roomOwners, stale, database, pumps,
                   presence, control>>

\* forwardRealtimeRoomSignal checks membership, unlocks, and only then acts
\* on the room: by sendToRoom (voice_state stands for all the types that only
\* do that), by signalling one member, or by changing who shares a screen.
Realtime(c, r, type, jobs) ==
    /\ Unlocked
    /\ Relay(c, type, IF c \in rooms[r] THEN jobs ELSE SendSystem(c))

VoiceState(c, r) ==
    Realtime(c, r, "voice_state", SendToRoom(r))

WebRTCSignal(c, r, u) == Realtime(c, r, "webrtc_offer", SignalTo(r, u))

ScreenShare(c, r, on) ==
    Realtime(c, r, IF on THEN "screen_share_start" ELSE "screen_share_stop",
             SendToRoom(r) \o Share(r, on) \o BroadcastScreenState(r))

----------------------------------------------------------------------------
(* HTTP handlers: uploads call PublishRoomMessage, the friends handlers     *)
(* call PublishSocialEvent with two usernames.                              *)

Publication(jobs) ==
    /\ ~crashed
    /\ issued < MaxRequests
    /\ issued' = issued + 1
    /\ todo[Http] = <<>>
    /\ todo' = [todo EXCEPT ![Http] = jobs]
    /\ UNCHANGED <<data, pumps, mu, crashed>>

PublishRoomMessage(r) ==
    /\ "attachment" \in Requests
    /\ Publication(SendToRoom(r))

PublishSocialEvent(u, v) ==
    /\ "social_event" \in Requests
    /\ u # v
    /\ Publication(SocialEvent(u, v))

=============================================================================
