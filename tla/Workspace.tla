----------------------------- MODULE Workspace -----------------------------
(***************************************************************************)
(* One browser tab: the hook useWorkspaceController of                     *)
(* frontend/src/components/chat, with the guards of the buttons that call  *)
(* its handlers, over the server of ChatServer.                            *)
(*                                                                         *)
(* A step is one event of the browser's event loop: a click, a message or  *)
(* a change of the socket, a timer, the answer to a permission prompt.     *)
(* What a handler does up to its first await is one step and what it does  *)
(* afterwards is another.  A state variable and the ref that mirrors it    *)
(* are one variable here: the effects that copy them run before the next   *)
(* event.  Peer connections are the subject of VoicePeers, what they send  *)
(* that of StreamQuality.                                                  *)
(***************************************************************************)
EXTENDS ChatServer

CONSTANTS
    Captures,  \* the media streams that the browser may hand out, 1..n
    Agendas    \* bound: what a user comes to do, and how often at most

ASSUME CaptureAssumption == Captures \subseteq Nat /\ None \notin Captures

VARIABLES
    mounted,      \* the workspace is on screen
    status,       \* connecting, online, reconnecting, offline
    timer,        \* reconnectTimeoutRef is set
    rooms,        \* the list of rooms
    activeRoom,   \* None: no room is in view
    direct,       \* a conversation with a friend is in view
    joined,       \* joinedRoomsRef
    joiningRoom,
    meta,         \* roomMeta (None: no entry)
    sharers,      \* screenSharersByRoom
    shown,        \* room messages in messages
    voice,        \* voiceConnected
    voiceRoom,    \* voiceRoomId
    joiningVoice,
    micMuted,
    localStream,  \* localStreamRef, a capture
    heard,        \* its track is enabled
    screenStream, \* screenStreamRef, a capture
    sharing,      \* screenSharing, cameraSharing: none, screen, camera
    live,         \* captures whose tracks have not been stopped
    asking,       \* permission prompts that were not answered yet
    overlapped,   \* history: media were stopped or asked for during a prompt
    uploading,
    leaving,      \* handleLogout awaits logoutUser
    agenda        \* what the user may still do, and how often

link == <<mounted, status, timer, socket, breaks>>
view == <<rooms, activeRoom, direct, joined, joiningRoom>>
news == <<meta, sharers, shown>>
call == <<voice, voiceRoom, joiningVoice, micMuted>>
media == <<localStream, heard, screenStream, sharing, live>>
prompts == <<asking, overlapped>>
tasks == <<uploading, leaving>>
channels == <<inbox, outbox>>
client == <<view, news, call, media, prompts, tasks>>
vars == <<server, channels, link, client, agenda, others>>

NoEntry == [owner |-> None, users |-> {}]

Prompts == [kind : {"mic", "screen", "camera"}, room : Rooms]

Init ==
    /\ ServerInit
    /\ mounted = TRUE
    /\ socket = "connecting"
    /\ status = "connecting"
    /\ timer = FALSE
    /\ rooms = <<>>
    /\ activeRoom = None
    /\ direct = FALSE
    /\ joined = {}
    /\ joiningRoom = FALSE
    /\ meta = [r \in Rooms |-> NoEntry]
    /\ sharers = [r \in Rooms |-> {}]
    /\ shown = {}
    /\ voice = FALSE
    /\ voiceRoom = None
    /\ joiningVoice = FALSE
    /\ micMuted = FALSE
    /\ localStream = None
    /\ heard = FALSE
    /\ screenStream = None
    /\ sharing = "none"
    /\ live = {}
    /\ asking = {}
    /\ overlapped = FALSE
    /\ uploading = FALSE
    /\ leaving = FALSE
    /\ agenda \in Agendas

----------------------------------------------------------------------------
(* Sending, and the helpers that several handlers call. *)

Msg(type, r) == [type |-> type, room |-> r]

\* send drops what it is given unless the socket is open.
Send(ms) == outbox' = IF socket = "open" THEN outbox \o ms ELSE outbox

\* A bug: the refs are reset before they are looked at.
LeaveSignalsLate(r) ==
    IF r = None \/ screenStream = None THEN <<>>
    ELSE <<Msg("screen_share_stop", r)>>

\* sendRealtimeLeaveSignals, which looks at the refs as they are now.
LeaveSignals(r) ==
    IF r = None THEN <<>>
    ELSE (IF screenStream # None THEN <<Msg("screen_share_stop", r)>> ELSE <<>>)
         \o (IF voice THEN <<Msg("voice_leave", r)>> ELSE <<>>)

\* A bug: a shared screen is let go of, not stopped.
StopAllButScreen == live' = live \ {localStream}

\* Every track of both streams is stopped.
StopTracks == live' = live \ {localStream, screenStream}

\* cleanupVoiceConnections, and voiceConnected with it: every caller resets
\* that too, or goes away.
Cleanup ==
    /\ StopTracks
    /\ screenStream' = None
    /\ localStream' = None
    /\ heard' = FALSE
    /\ sharing' = "none"
    /\ joiningVoice' = FALSE
    /\ voiceRoom' = None
    /\ voice' = FALSE
    /\ overlapped' = (overlapped \/ asking # {})
    /\ UNCHANGED <<micMuted, asking>>

\* A bug: the list is not searched.
ListedAgain(r) == Append(rooms, r)

\* A room that is not in the list is added at its end.
Listed(r) == IF \E i \in DOMAIN rooms : rooms[i] = r THEN rooms ELSE Append(rooms, r)

\* The list without room r, which is in it once or not at all.
Unlisted(r) ==
    LET at == {i \in DOMAIN rooms : rooms[i] = r}
    IN  IF at = {} THEN rooms
        ELSE LET i == CHOOSE i \in at : TRUE
             IN  SubSeq(rooms, 1, i - 1) \o SubSeq(rooms, i + 1, Len(rooms))

\* The room that voice and sharing are about: voiceRoomRef or else the active.
TargetRoom == IF voiceRoom # None THEN voiceRoom ELSE activeRoom

----------------------------------------------------------------------------
(* The effect that keeps the socket. *)

\* ws.onopen; the server rehydrates the connection it has accepted.
SocketOpens ==
    /\ mounted
    /\ socket = "connecting"
    /\ socket' = "open"
    /\ status' = "online"
    /\ timer' = FALSE
    /\ Rehydrate
    /\ UNCHANGED <<outbox, mounted, breaks, client, agenda, others>>

\* A bug: only a connection that was online is made again.
ReconnectIfOnline ==
    /\ status' = "reconnecting"
    /\ timer' = (status = "online")

\* scheduleReconnect; how long the timer takes is left out.
ScheduleReconnect ==
    /\ status' = "reconnecting"
    /\ timer' = TRUE

\* ws.onclose of an open or a connecting socket.
SocketCloses ==
    /\ mounted
    /\ socket \in {"connecting", "open"}
    /\ breaks < MaxBreaks
    /\ breaks' = breaks + 1
    /\ socket' = "none"
    /\ inbox' = <<>>
    /\ outbox' = <<>>
    /\ Unregister
    /\ joined' = {}
    /\ Cleanup
    /\ sharers' = [r \in Rooms |-> {}]
    /\ ScheduleReconnect
    /\ UNCHANGED <<mounted, rooms, activeRoom, direct, joiningRoom, meta,
                   shown, tasks, agenda, others>>

\* The timer runs out: connectWebSocket.
Reconnect ==
    /\ timer
    /\ mounted
    /\ timer' = FALSE
    /\ socket' = "connecting"
    /\ UNCHANGED <<server, channels, mounted, status, breaks, client, agenda, others>>

\* A bug: going away leaves the timer running.
ForgetTimer == UNCHANGED timer

ClearReconnectTimer == timer' = FALSE

\* The workspace goes away: the effect's cleanup.  What was sent before
\* close() still arrives.
Unmount ==
    /\ mounted
    /\ leaving
    /\ leaving' = FALSE
    /\ mounted' = FALSE
    /\ ClearReconnectTimer
    /\ Send(LeaveSignals(activeRoom))
    /\ Cleanup
    /\ socket' = IF socket = "open" THEN "closing" ELSE "none"
    /\ inbox' = <<>>
    /\ status' = "offline"
    /\ UNCHANGED <<server, breaks, view, news, uploading, agenda, others>>

\* The server has read what came before the close.
ServerSeesClose ==
    /\ socket = "closing"
    /\ outbox = <<>>
    /\ socket' = "none"
    /\ Unregister
    /\ UNCHANGED <<channels, mounted, status, timer, breaks, client, agenda, others>>

----------------------------------------------------------------------------
(* ws.onmessage, one action per branch. *)

Receive(type) ==
    /\ mounted
    /\ inbox # <<>>
    /\ Head(inbox).type = type
    /\ inbox' = Tail(inbox)
    /\ UNCHANGED <<server, outbox, link, call, media, prompts, tasks, agenda, others>>

\* The active room stays as it is, whether or not the list has it.
ReceiveRooms ==
    /\ Receive("rooms")
    /\ LET list == Head(inbox).rooms
           kept == {list[i] : i \in DOMAIN list}
       IN  /\ rooms' = list
           /\ joined' = kept
           /\ meta' = [r \in Rooms |-> IF r \in kept THEN meta[r] ELSE NoEntry]
           /\ sharers' = [r \in Rooms |-> IF r \in kept THEN sharers[r] ELSE {}]
    /\ UNCHANGED <<activeRoom, direct, joiningRoom, shown>>

\* A bug: the first meta of a room is taken for the last.
KeepMeta(m) ==
    meta' = [meta EXCEPT ![m.room] =
                 IF @ = NoEntry THEN [owner |-> m.owner, users |-> m.users] ELSE @]

StoreMeta(m) == meta' = [meta EXCEPT ![m.room] = [owner |-> m.owner, users |-> m.users]]

ReceiveRoomMeta ==
    /\ Receive("room_meta")
    /\ StoreMeta(Head(inbox))
    /\ UNCHANGED <<view, sharers, shown>>

\* A bug: the history of a room that is listed already is skipped.
HistoryIfNew(m) == shown' = IF Listed(m.room) = rooms THEN shown ELSE shown \cup m.ids

\* The messages are appended, whether or not they are shown already.
AppendHistory(m) == shown' = shown \cup m.ids

ReceiveHistory ==
    /\ Receive("history")
    /\ rooms' = Listed(Head(inbox).room)
    /\ AppendHistory(Head(inbox))
    /\ UNCHANGED <<activeRoom, direct, joined, joiningRoom, meta, sharers>>

ReceiveScreenState ==
    /\ Receive("screen_share_state")
    /\ sharers' = [sharers EXCEPT ![Head(inbox).room] = Head(inbox).users]
    /\ UNCHANGED <<view, meta, shown>>

\* screen_share_start and screen_share_stop.
ReceiveShare ==
    /\ Receive("share")
    /\ LET m == Head(inbox)
       IN  sharers' = [sharers EXCEPT ![m.room] =
                         IF m.on THEN @ \cup {m.from} ELSE @ \ {m.from}]
    /\ UNCHANGED <<view, meta, shown>>

Ends == {"room closed", "left room"}

\* A bug: a room that was left may not be joined again.
RememberJoined(r) == UNCHANGED joined

ForgetJoined(r) == joined' = joined \ {r}

\* A room is over; if it was in view, the first that remains takes its place.
ReceiveEnd ==
    /\ Receive("system")
    /\ Head(inbox).content \in Ends
    /\ LET r == Head(inbox).room
           next == Unlisted(r)
       IN  /\ rooms' = next
           /\ activeRoom' = IF activeRoom # r THEN activeRoom
                            ELSE IF next = <<>> THEN None ELSE Head(next)
           /\ ForgetJoined(r)
           /\ meta' = [meta EXCEPT ![r] = NoEntry]
    /\ UNCHANGED <<direct, joiningRoom, sharers, shown>>

\* Anything else about a room puts the room in the list, unless it says that
\* there is no such room.
ReceiveNotice ==
    /\ Receive("system")
    /\ Head(inbox).content \notin Ends
    /\ rooms' = IF Head(inbox).content = "room does not exist" THEN rooms
                ELSE Listed(Head(inbox).room)
    /\ UNCHANGED <<activeRoom, direct, joined, joiningRoom, news>>

ReceiveRoomMessage ==
    /\ Receive("room_message")
    /\ rooms' = Listed(Head(inbox).room)
    /\ shown' = shown \cup {Head(inbox).id}
    /\ UNCHANGED <<activeRoom, direct, joined, joiningRoom, meta, sharers>>

----------------------------------------------------------------------------
(* Rooms and messages: what the user does. *)

\* The user does something that is on the agenda.
Act(what) ==
    /\ mounted
    /\ what \in DOMAIN agenda
    /\ agenda[what] > 0
    /\ agenda' = [agenda EXCEPT ![what] = @ - 1]
    /\ UNCHANGED <<server, inbox, link, others>>

\* ... which sends this and changes nothing else.
ActBySending(what, ms) ==
    /\ Act(what)
    /\ Send(ms)
    /\ UNCHANGED client

IsListed(r) == \E i \in DOMAIN rooms : rooms[i] = r

IsActiveRoomOwner == activeRoom # None /\ meta[activeRoom].owner = Me

HandleCreateRoom(r) ==
    /\ status = "online"
    /\ ActBySending("create", <<Msg("create_room", r)>>)

HandleSelectRoom(r) ==
    /\ IsListed(r)
    /\ direct
    /\ Act("direct")
    /\ direct' = FALSE
    /\ UNCHANGED <<outbox, rooms, activeRoom, joined, joiningRoom, news, call,
                   media, prompts, tasks>>

\* The room in view is left, with the call if there is one, for room r.
HandleJoinSelectedRoom(r) ==
    /\ Act("join")
    /\ status = "online"
    /\ IsListed(r)
    /\ r # activeRoom
    /\ ~joiningRoom
    /\ joiningRoom' = TRUE
    /\ Send((IF activeRoom = None THEN <<>>
             ELSE LeaveSignals(activeRoom) \o <<Msg("leave_room", activeRoom)>>)
            \o (IF r \in joined THEN <<>> ELSE <<Msg("join_room", r)>>))
    /\ IF activeRoom = None THEN UNCHANGED <<call, media, prompts>> ELSE Cleanup
    /\ direct' = FALSE
    /\ activeRoom' = r
    /\ joined' = joined \cup {r}
    /\ UNCHANGED <<rooms, news, tasks>>

\* The 250 ms are over.
JoiningRoomEnds ==
    /\ joiningRoom
    /\ joiningRoom' = FALSE
    /\ UNCHANGED <<server, channels, link, rooms, activeRoom, direct, joined,
                   news, call, media, prompts, tasks, agenda, others>>

HandleSelectDirectFriend ==
    /\ Act("direct")
    /\ activeRoom' = None
    /\ direct' = TRUE
    /\ UNCHANGED <<outbox, rooms, joined, joiningRoom, news, call, media,
                   prompts, tasks>>

HandleCloseRoom ==
    /\ status = "online"
    /\ IsActiveRoomOwner
    /\ ActBySending("close", <<Msg("close_room", activeRoom)>>)

HandleAddFriendToRoom ==
    /\ status = "online"
    /\ activeRoom # None
    /\ ActBySending("invite", <<Msg("add_to_room", activeRoom)>>)

\* The Enter key sends in any status.
HandleSendRoomMessage ==
    /\ direct \/ activeRoom # None
    /\ ActBySending("send", IF direct THEN <<[type |-> "direct_message"]>>
                            ELSE <<Msg("room_message", activeRoom)>>)

\* The call ends on screen and for the others, yet media keep going.
HandleLeaveRoom ==
    /\ Act("leave")
    /\ status = "online"
    /\ activeRoom # None
    /\ ~IsActiveRoomOwner
    /\ Send(LeaveSignals(activeRoom) \o <<Msg("leave_room", activeRoom)>>)
    /\ voice' = FALSE
    /\ UNCHANGED <<view, news, voiceRoom, joiningVoice, micMuted, media,
                   prompts, tasks>>

\* handleUploadAttachment up to its fetch.
HandleUploadAttachment ==
    /\ Act("upload")
    /\ status = "online"
    /\ activeRoom # None
    /\ ~uploading
    /\ uploading' = TRUE
    /\ UNCHANGED <<outbox, view, news, call, media, prompts, leaving>>

\* The answer: the server published the file to the room, or refused.
UploadAnswered ==
    /\ uploading
    /\ uploading' = FALSE
    /\ \/ \E r \in meIn : Post(r)
       \/ UNCHANGED <<server, inbox>>
    /\ UNCHANGED <<outbox, link, view, news, call, media, prompts, leaving, agenda, others>>

----------------------------------------------------------------------------
(* The call: microphone, screen and camera. *)

\* The buttons of the call need a connection and a room in view.
CallButton == status = "online" /\ activeRoom # None

Ask(kind, r) ==
    /\ asking' = asking \cup {[kind |-> kind, room |-> r]}
    /\ overlapped' = (overlapped \/ asking # {})

\* What follows the first await of handleToggleVoice: the call is on.
EnterCall(r) ==
    /\ voice' = TRUE
    /\ voiceRoom' = r
    /\ Send(<<Msg("voice_join", r)>>)

\* A microphone that is still open is used again.
HandleJoinVoice ==
    /\ Act("voice")
    /\ CallButton
    /\ ~voice
    /\ ~joiningVoice
    /\ joiningVoice' = TRUE
    /\ \/ /\ localStream = None
          /\ Ask("mic", activeRoom)
          /\ UNCHANGED <<outbox, voice, voiceRoom>>
       \/ /\ localStream # None
          /\ EnterCall(activeRoom)
          /\ UNCHANGED prompts
    /\ UNCHANGED <<view, news, micMuted, media, tasks>>

HandleLeaveVoice ==
    /\ Act("voice")
    /\ CallButton
    /\ voice
    /\ ~joiningVoice
    /\ Send(<<Msg("voice_leave", TargetRoom)>>)
    /\ Cleanup
    /\ UNCHANGED <<view, news, tasks>>

\* The browser hands out a stream that it has not handed out yet.
Granted(p, s) ==
    /\ p \in asking
    /\ asking' = asking \ {p}
    /\ s \in Captures
    /\ s \notin live
    /\ \A t \in Captures : t < s => t \in live
    /\ UNCHANGED <<server, inbox, link, view, agenda, others, tasks, overlapped>>

\* The microphone is granted, to whatever the tab shows by now.
MicGranted(p, s) ==
    /\ Granted(p, s)
    /\ p.kind = "mic"
    /\ live' = live \cup {s}
    /\ localStream' = s
    /\ heard' = TRUE
    /\ EnterCall(p.room)
    /\ UNCHANGED <<news, joiningVoice, micMuted, screenStream, sharing>>

\* The calls to the others were made, or given up: the finally clause.
JoiningVoiceEnds ==
    /\ joiningVoice
    /\ \A p \in asking : p.kind # "mic"
    /\ joiningVoice' = FALSE
    /\ UNCHANGED <<server, channels, link, view, news, voice, voiceRoom,
                   micMuted, media, prompts, tasks, agenda, others>>

\* The user says no: only handleToggleVoice has something to undo.
Denied(p) ==
    /\ p \in asking
    /\ asking' = asking \ {p}
    /\ joiningVoice' = (joiningVoice /\ p.kind # "mic")
    /\ UNCHANGED <<server, channels, link, view, news, voice, voiceRoom,
                   micMuted, media, overlapped, tasks, agenda, others>>

\* stopScreenShare.
StopScreenShare ==
    /\ live' = live \ {screenStream}
    /\ screenStream' = None
    /\ sharing' = "none"
    /\ Send(<<Msg("screen_share_stop", TargetRoom)>>)
    /\ sharers' = [sharers EXCEPT ![TargetRoom] = @ \ {Me}]

\* handleToggleScreenShare and handleToggleCameraShare.
HandleStartShare(kind) ==
    /\ Act("share")
    /\ CallButton
    /\ voice
    /\ sharing = "none"
    /\ Ask(kind, TargetRoom)
    /\ UNCHANGED <<outbox, view, news, call, media, tasks>>

\* What was started may be stopped: that need not be on the agenda.
HandleStopShare ==
    /\ mounted
    /\ CallButton
    /\ voice
    /\ sharing # "none"
    /\ screenStream # None
    /\ StopScreenShare
    /\ UNCHANGED <<server, inbox, link, view, meta, shown, call, localStream,
                   heard, prompts, tasks, agenda, others>>

\* The rest of startVideoShare, with the awaits that only peers need.
ShareGranted(p, s) ==
    /\ Granted(p, s)
    /\ p.kind # "mic"
    /\ live' = live \cup {s}
    /\ screenStream' = s
    /\ sharing' = p.kind
    /\ Send(<<Msg("screen_share_start", p.room)>>)
    /\ sharers' = [sharers EXCEPT ![p.room] = @ \cup {Me}]
    /\ UNCHANGED <<meta, shown, call, localStream, heard>>

\* The browser's own button ends a shared track, whose "ended" event is
\* handled by stopScreenShare.
TrackEnds(s) ==
    /\ mounted
    /\ s \in live
    /\ s # localStream
    /\ \/ /\ screenStream # None
          /\ TargetRoom # None
          /\ live' = live \ {s, screenStream}
          /\ screenStream' = None
          /\ sharing' = "none"
          /\ Send(<<Msg("screen_share_stop", TargetRoom)>>)
          /\ sharers' = [sharers EXCEPT ![TargetRoom] = @ \ {Me}]
       \/ /\ screenStream = None \/ TargetRoom = None
          /\ live' = live \ {s}
          /\ UNCHANGED <<screenStream, sharing, outbox, sharers>>
    /\ UNCHANGED <<server, inbox, link, view, meta, shown, call, localStream,
                   heard, prompts, tasks, agenda, others>>

\* handleToggleMic.
HandleToggleMic ==
    /\ Act("mic")
    /\ CallButton
    /\ voice
    /\ micMuted' = ~micMuted
    /\ heard' = (localStream # None /\ micMuted)
    /\ Send(<<Msg("voice_state", TargetRoom)>>)
    /\ UNCHANGED <<view, news, voice, voiceRoom, joiningVoice, localStream,
                   screenStream, sharing, live, prompts, tasks>>

\* handleLogout up to its await; Unmount is what its finally clause leads to.
HandleLogout ==
    /\ Act("logout")
    /\ ~leaving
    /\ Send(LeaveSignals(activeRoom))
    /\ leaving' = TRUE
    /\ UNCHANGED <<view, news, call, media, prompts, uploading>>

----------------------------------------------------------------------------
ServerActs ==
    \/ HandleMessage /\ UNCHANGED <<mounted, status, timer, client, agenda>>
    \/ OtherActs /\ UNCHANGED <<mounted, status, timer, client, agenda>>

SocketEvents ==
    \/ SocketOpens \/ SocketCloses \/ ServerSeesClose
    \/ ReceiveRooms \/ ReceiveRoomMeta \/ ReceiveHistory \/ ReceiveScreenState
    \/ ReceiveShare \/ ReceiveEnd \/ ReceiveNotice \/ ReceiveRoomMessage

RoomClicks ==
    \/ \E r \in Rooms : HandleCreateRoom(r) \/ HandleSelectRoom(r) \/ HandleJoinSelectedRoom(r)
    \/ HandleSelectDirectFriend \/ HandleCloseRoom \/ HandleAddFriendToRoom
    \/ HandleSendRoomMessage \/ HandleLeaveRoom \/ HandleUploadAttachment

CallClicks ==
    \/ HandleJoinVoice \/ HandleLeaveVoice \/ HandleToggleMic
    \/ \E kind \in {"screen", "camera"} : HandleStartShare(kind)
    \/ HandleStopShare
    \/ \E s \in Captures : TrackEnds(s)

PromptAnswers ==
    \E p \in asking : \/ Denied(p)
                      \/ \E s \in Captures : MicGranted(p, s) \/ ShareGranted(p, s)

Next ==
    \/ ServerActs \/ SocketEvents \/ Reconnect
    \/ RoomClicks \/ CallClicks \/ PromptAnswers
    \/ JoiningRoomEnds \/ JoiningVoiceEnds \/ UploadAnswered
    \/ HandleLogout \/ Unmount

\* Timers run out and a connection that is attempted is made or refused; that
\* the network is down for ever is left out.
Fairness == WF_vars(Reconnect) /\ WF_vars(SocketOpens)

Spec == Init /\ [][Next]_vars /\ Fairness

----------------------------------------------------------------------------
(* Properties. *)

\* The type invariant.  No room is listed twice: the list's keys are the rooms.
TypeOK ==
    /\ rooms \in Seq(Rooms)
    /\ \A i, j \in DOMAIN rooms : rooms[i] = rooms[j] => i = j
    /\ activeRoom \in Rooms \cup {None}
    /\ joined \subseteq Rooms
    /\ meta \in [Rooms -> [owner : Users \cup {None}, users : SUBSET Users]]
    /\ sharers \in [Rooms -> SUBSET Users]
    /\ shown \subseteq 1..posted
    /\ {voice, heard, joiningVoice, joiningRoom, micMuted, mounted, timer} \subseteq BOOLEAN
    /\ voiceRoom \in Rooms \cup {None}
    /\ localStream \in Captures \cup {None}
    /\ screenStream \in Captures \cup {None}
    /\ sharing \in {"none", "screen", "camera"}
    /\ live \subseteq Captures
    /\ asking \subseteq Prompts
    /\ status \in {"connecting", "online", "reconnecting", "offline"}
    /\ socket \in {"none", "connecting", "open", "closing"}

\* Both ends have dealt with everything the other has sent.
Quiet == mounted /\ socket = "open" /\ inbox = <<>> /\ outbox = <<>>

\* A workspace that has gone away does not connect again: neither a timer that
\* was set before nor the close event of its socket, which comes after.
NoZombieReconnect == ~mounted => ~timer /\ socket \in {"closing", "none"}

\* Whatever was posted in a room since the account is in it is shown in the
\* end, also what was posted or on its way while the connection was down, as
\* long as the history that a new connection gets reaches back to it.  What is
\* posted in a room without a row is not meant: a closed room can be joined,
\* but is not found again by a new connection.
NothingMissed ==
    Quiet => \A r \in Rooms : Recent(r) \cap due[r] \subseteq shown

\* The rooms that the tab will not ask to join, because it takes itself to be
\* in them, are rooms that its connection is in, whatever the user and Other
\* do meanwhile; a room that the server could not enrol the account in is the
\* exception.
JoinedRoomsAreMine == Quiet => joined \subseteq meIn \cup refused

\* The owner and the users shown of a room are those there are.
MetaIsCurrent ==
    Quiet => \A r \in meIn : meta[r] = [owner |-> owner[r], users |-> Members(r)]

\* A microphone, screen or camera that records is one that the tab still
\* holds, so that leaving the call stops it.  The exception is a stream that
\* was granted after the media were stopped, or after another prompt was open.
CapturesAreReferenced == overlapped \/ live \subseteq {localStream, screenStream}

\* Ending the call tells the others in the room, by whichever button, as long
\* as the room in view is the room of the call.
LeaveIsAnnounced ==
    [][voice /\ ~voice' /\ activeRoom = voiceRoom /\ socket = "open" /\ socket' # "none"
         => \E i \in DOMAIN outbox' : /\ i > Len(outbox)
                                      /\ outbox'[i] = Msg("voice_leave", voiceRoom)
      ]_vars

\* Every lost connection is made again, unless the workspace goes away.
ComesBackOnline == status = "reconnecting" ~> status = "online" \/ ~mounted

\* While the button of the microphone offers to unmute it, it is not heard
\* ("Unmute Mic", WorkspaceChatPanel.tsx:242).
MutedMeansSilent == micMuted => ~heard

=============================================================================
