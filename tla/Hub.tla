-------------------------------- MODULE Hub --------------------------------
(***************************************************************************)
(* The whole hub: its next-state relation, the fairness of the goroutines  *)
(* and its properties.                                                     *)
(***************************************************************************)
EXTENDS HubRooms

----------------------------------------------------------------------------
RunStep ==
    \/ \E c \in Conns :
         EnterClient(c) \/ IgnoreUnregister(c) \/ RemoveClient(c) \/ RunPanics(c)
    \/ \E r \in RoomIDs : RefreshRoom(r)
    \/ BroadcastPresence

SendStep(g) ==
    \E c \in Conns : \/ SendBuffered(g, c)
                     \/ SendDropped(g, c)
                     \/ SendEvicts(g, c)
                     \/ SendPanics(g, c)

\* A goroutine goes on with what it has to do.
Proceed(g) == SendStep(g) \/ CopyRecipients(g)

ProceedConn(c) ==
    \/ ListRooms(c)
    \/ \E row \in Rows : RehydrateJoin(c, row)
    \/ ForwardSignal(c)
    \/ UpdateScreenShareState(c)
    \/ RestoreRoom(c)
    \/ Unlock(c)
    \/ StartPumps(c)

HandleMessage(c) ==
    \/ \E r \in RoomIDs :
         \/ CreateRoom(c, r)
         \/ JoinRoom(c, r)
         \/ \E u \in Usernames : AddUserToRoom(c, r, u)
         \/ CloseRoom(c, r)
         \/ LeaveRoom(c, r)
         \/ RoomMessage(c, r)
         \/ VoiceState(c, r)
         \/ \E u \in Usernames : WebRTCSignal(c, r, u)
         \/ \E on \in BOOLEAN : ScreenShare(c, r, on)
    \/ \E u \in Usernames : DirectMessage(c, u)

Pumps(c) ==
    \/ Connect(c)
    \/ Drain(c)
    \/ WriterSeesClose(c)
    \/ WriteFails(c)
    \/ ReadFails(c)
    \/ RunTakesUnregister(c)
    \/ PanicEndsProcess(c)

HttpHandlers ==
    \/ \E r \in RoomIDs : PublishRoomMessage(r)
    \/ \E u, v \in Usernames : PublishSocialEvent(u, v)

Next ==
    \/ RunStep
    \/ \E g \in Goroutines : Proceed(g)
    \/ \E c \in Conns : ProceedConn(c) \/ HandleMessage(c) \/ Pumps(c)
    \/ HttpHandlers
    \/ Restart

\* The Go scheduler runs every goroutine that can run.  Run's select chooses
\* at random among the cases that are ready, so a goroutine that waits at
\* h.Unregister is taken if Run is at its select often enough.  A
\* reader fails once its socket is closed; peers otherwise come, send and go
\* as they please.
Fairness ==
    /\ WF_vars(RunStep)
    /\ \A g \in Goroutines : WF_vars(Proceed(g))
    /\ \A c \in Conns :
         /\ WF_vars(ProceedConn(c))
         /\ WF_vars(Drain(c))
         /\ WF_vars(WriterSeesClose(c))
         /\ WF_vars(ReadFails(c) /\ c \notin writing)
         /\ SF_vars(RunTakesUnregister(c))
         /\ SF_vars(PanicEndsProcess(c))

Spec == Init /\ [][Next]_vars /\ Fairness

----------------------------------------------------------------------------
(* Properties. *)

\* The type invariant: in particular a Send channel never holds more than its
\* capacity and only goroutines of connections hold h.mu across steps.
TypeOK ==
    /\ clients \subseteq Conns
    /\ users \in [Usernames -> SUBSET Conns]
    /\ closed \subseteq Conns
    /\ evicted \subseteq Conns
    /\ open \subseteq RoomIDs
    /\ rooms \in [RoomIDs -> SUBSET Conns]
    /\ roomOwners \in [RoomIDs -> Usernames \cup {NoOne}]
    /\ roomScreen \in [RoomIDs -> SUBSET Usernames]
    /\ stale \subseteq RoomIDs
    /\ dbOwner \in [RoomIDs -> Usernames \cup {NoOne}]
    /\ dbMembers \in [RoomIDs -> SUBSET Usernames]
    /\ phase \in [Conns -> Phases]
    /\ writing \subseteq Conns
    /\ buffered \in [Conns -> 0..SendCap]
    /\ presenceEvents \in Seq([user : Usernames, online : BOOLEAN])
    /\ announced \in [Usernames -> BOOLEAN]
    /\ overflowed \in BOOLEAN
    /\ todo \in [Goroutines -> Seq(Jobs)]
    /\ mu \in Conns \cup {NoOne}
    /\ crashed \in BOOLEAN
    /\ issued \in 0..MaxRequests

\* The index of connections by username (h.Users, which IsUserOnline,
\* sendDirect and addUserToRoom read) agrees with h.Clients, and no client in
\* either has a closed channel: Run never closes a channel twice.
RegistryConsistent ==
    /\ \A u \in Usernames : users[u] = {c \in clients : NameOf[c] = u}
    /\ clients \cap closed = {}

\* A room that h.Rooms does not have leaves nothing behind in RoomOwners or
\* RoomScreen for the next room of that id to inherit, in whichever of the
\* five places it is deleted.
DeletedRoomsLeaveNothing ==
    \A r \in RoomIDs \ open :
        rooms[r] = {} /\ roomOwners[r] = NoOne /\ roomScreen[r] = {}

\* What has last been queued about a user, or else broadcast.
LatestPresence(u) ==
    LET about == {i \in DOMAIN presenceEvents : presenceEvents[i].user = u}
    IN  IF about = {} THEN announced[u]
        ELSE \E i \in about : /\ presenceEvents[i].online
                              /\ \A j \in about : j <= i

\* Unless the presence channel overflowed, whoever hears all its events ends
\* up with the right answer: the latest event says whether the user has a
\* connection, however registrations and removals of several connections of
\* one user interleave.
PresenceConverges ==
    ~overflowed => \A u \in Usernames : LatestPresence(u) = (users[u] # {})

\* Run has yet to enter c in h.Clients.
Entering(c) == todo[Run] = Register(c)

\* A connection whose goroutine ended on its own is in no room from its
\* removal on.  Only one evicted while its goroutine ran can be a member
\* without being registered: that goroutine can still join a room.
MembersAreConnected ==
    \A r \in RoomIDs : \A c \in rooms[r] :
        c \in clients \/ c \in evicted \/ Entering(c)

\* The rows know every member in memory and the owner in memory is the one
\* in chat_rooms, so that what closeRoom allows can be deleted and what is
\* shown now is rehydrated later.  The exception is a room that a connection
\* rehydrated from rows that had changed since it listed them.
DatabaseKnowsRooms ==
    \A r \in RoomIDs \ stale :
        /\ {NameOf[c] : c \in rooms[r]} \subseteq dbMembers[r]
        /\ roomOwners[r] \in {NoOne, dbOwner[r]}

\* A registered connection has a goroutine that will unregister it, or Run is
\* about to; the exception is one whose rehydration panicked, which net/http
\* recovered before the pumps were started.
NoClientAbandoned ==
    \A c \in clients :
        \/ phase[c] \notin {"new", "gone"}
        \/ todo[Run] = Unregister(c)

\* h.mu is not reentrant: closeRoom, which defers its unlock, does nothing
\* that takes h.mu before it has unlocked (the note above createRoom).
HolderNeverLocks ==
    \A c \in Conns : mu = c =>
        \E n \in DOMAIN todo[c] :
            /\ todo[c][n].op = "unlock"
            /\ \A i \in 1..(n - 1) : todo[c][i].op \in {"send", "restore"}

\* Once ReadPump waits at h.Unregister the connection leaves h.Clients.
ExitUnregisters ==
    \A c \in Conns : phase[c] = "exiting" ~> c \notin clients \/ crashed

\* An evicted connection winds up: WritePump sees the closed channel and
\* closes the socket, ReadPump fails and returns.
EvictionEndsGoroutines ==
    \A c \in Conns : c \in closed ~> phase[c] \in {"gone", "leaked"} \/ crashed

\* closeRoom always releases h.mu.
LockReleased == mu # NoOne ~> mu = NoOne \/ crashed

\* No goroutine sends on a channel that Run has closed, which would end the
\* process for every user.
NeverPanics == ~crashed /\ \A c \in Conns : phase[c] # "panicking"

=============================================================================
