-------------------------- MODULE HubMembersProofs --------------------------
(***************************************************************************)
(* Proofs that closeRoom, which sends and repairs with h.mu held, reaches  *)
(* its deferred unlock before anything that takes h.mu; and, from that,    *)
(* that every registered connection will be unregistered, that the members *)
(* of rooms are connected, and that the database knows the rooms.          *)
(***************************************************************************)
EXTENDS HubProofs

\* A list of jobs that ends with the unlock and does not take h.mu before it.
Guarded(s) ==
    /\ s # <<>>
    /\ s[Len(s)].op = "unlock"
    /\ \A i \in 1..(Len(s) - 1) : s[i].op \in {"send", "restore"}

\* The goroutine that holds h.mu is a ReadPump on its way to the unlock.
HolderInv == \A c \in Conns : mu = c => phase[c] = "live" /\ Guarded(todo[c])

----------------------------------------------------------------------------
(* Lists of jobs. *)

LEMMA EmptyIsShort ==
    ASSUME NEW s \in Seq(Jobs)
    PROVE  Len(s) \in Nat /\ (s = <<>> <=> Len(s) = 0)
  OBVIOUS

\* A list longer than one job has a first one before the last.
LEMMA FirstBeforeLast ==
    ASSUME NEW n \in Nat, n # 0, n # 1
    PROVE  1 \in 1..(n - 1) /\ n - 1 \in 1..(n - 1) /\ (n - 1) + 1 = n
  OBVIOUS

\* What is left after a job that was not the unlock.
LEMMA GuardedTail ==
    ASSUME NEW s \in Seq(Jobs), Guarded(s), Head(s).op # "unlock"
    PROVE  Tail(s) \in Seq(Jobs) /\ Guarded(Tail(s))
<1>1. s # <<>> /\ Len(s) \in Nat /\ Len(s) > 1
  BY DEF Guarded
<1>2. /\ Tail(s) \in Seq(Jobs) /\ Len(Tail(s)) = Len(s) - 1
      /\ \A i \in 1..(Len(s) - 1) : Tail(s)[i] = s[i + 1]
  BY <1>1
<1>3. Tail(s) # <<>> /\ Tail(s)[Len(Tail(s))].op = "unlock"
  <2>1. s[Len(s)].op = "unlock"
    BY DEF Guarded
  <2>2. Len(s) - 1 \in 1..(Len(s) - 1) /\ (Len(s) - 1) + 1 = Len(s)
    BY <1>1
  <2>3. Tail(s) # <<>>
    <3>1. Len(Tail(s)) # 0
      BY <1>1, <1>2
    <3> QED
      BY <1>2, <3>1, EmptyIsShort
  <2> QED
    BY <1>2, <2>1, <2>2, <2>3
<1>4. ASSUME NEW i \in 1..(Len(Tail(s)) - 1)
      PROVE  Tail(s)[i].op \in {"send", "restore"}
  <2>1. i \in 1..(Len(s) - 1) /\ i + 1 \in 1..(Len(s) - 1)
    BY <1>1, <1>2
  <2> QED
    BY <1>2, <2>1 DEF Guarded
<1> QED
  BY <1>2, <1>3, <1>4 DEF Guarded

\* One more message to send first, or one more room to put back.
LEMMA GuardedBefore ==
    ASSUME NEW s \in Seq(Jobs), Guarded(s), NEW j \in Jobs, j.op \in {"send", "restore"}
    PROVE  <<j>> \o s \in Seq(Jobs) /\ Guarded(<<j>> \o s)
<1> DEFINE t == <<j>> \o s
<1>1. s # <<>> /\ Len(s) \in Nat /\ Len(s) > 0
  BY DEF Guarded
<1>2. /\ t \in Seq(Jobs) /\ Len(t) = Len(s) + 1 /\ t[1] = j
      /\ \A i \in 1..Len(s) : t[i + 1] = s[i]
  OBVIOUS
<1> HIDE DEF t
<1>3. t # <<>> /\ t[Len(t)].op = "unlock"
  BY <1>1, <1>2 DEF Guarded
<1>4. ASSUME NEW i \in 1..(Len(t) - 1) PROVE t[i].op \in {"send", "restore"}
  <2>1. CASE i = 1
    BY <1>2, <2>1
  <2>2. CASE i # 1
    <3>1. i - 1 \in 1..(Len(s) - 1) /\ i - 1 \in 1..Len(s) /\ (i - 1) + 1 = i
      BY <1>1, <1>2, <2>2
    <3> QED
      BY <1>2, <3>1 DEF Guarded
  <2> QED
    BY <2>1, <2>2
<1> QED
  BY <1>2, <1>3, <1>4 DEF Guarded, t

LEMMA GuardedSend ==
    ASSUME NEW s \in Seq(Jobs), Guarded(s), NEW S \in SUBSET Conns, NEW e \in BOOLEAN
    PROVE  Send(S, e) \o s \in Seq(Jobs) /\ Guarded(Send(S, e) \o s)
<1> DEFINE j == [op |-> "send", to |-> S, evict |-> e]
<1>1. CASE S = {}
  BY <1>1 DEF Send
<1>2. CASE S # {}
  <2>1. j \in [op : {"send"}, to : SUBSET Conns, evict : BOOLEAN]
    OBVIOUS
  <2>2. j \in Jobs /\ j.op = "send"
    BY <2>1 DEF Jobs
  <2>3. Send(S, e) = <<j>>
    BY <1>2 DEF Send
  <2> HIDE DEF j
  <2> QED
    BY <2>2, <2>3, GuardedBefore
<1> QED
  BY <1>1, <1>2

LEMMA GuardedUnlock == UnlockJob \in Seq(Jobs) /\ Guarded(UnlockJob)
<1>1. UnlockJob \in Seq(Jobs)
  BY UnlockType, LaterAreJobs DEF UnlockJob, Jobs
<1>2. UnlockJob # <<>> /\ Len(UnlockJob) = 1 /\ UnlockJob[1].op = "unlock"
  BY DEF UnlockJob
<1> QED
  BY <1>1, <1>2 DEF Guarded

\* Both refusals and the failed deletion; the notice.
LEMMA GuardedClosings ==
    ASSUME NEW c \in Conns, NEW r \in RoomIDs, NEW S \in SUBSET Conns,
           NEW u \in Usernames
    PROVE  /\ Guarded(RefuseThenUnlock(c))
           /\ Guarded(SendSystem(c) \o Restore(r, S, u) \o UnlockJob)
           /\ Guarded(Send(S, TRUE) \o UnlockJob)
<1> DEFINE j == [op |-> "restore", room |-> r, to |-> S, user |-> u]
           rest == <<j>> \o UnlockJob
<1>1. Guarded(RefuseThenUnlock(c))
  BY GuardedUnlock, GuardedSend DEF RefuseThenUnlock, SendSystem
<1>2. Guarded(Send(S, TRUE) \o UnlockJob)
  BY GuardedUnlock, GuardedSend
<1>3. j \in Jobs /\ j.op = "restore"
  <2>1. j \in [op : {"restore"}, room : RoomIDs, to : SUBSET Conns,
               user : Usernames]
    OBVIOUS
  <2> QED
    BY <2>1 DEF Jobs
<1>4. rest \in Seq(Jobs) /\ Guarded(rest)
  <2> HIDE DEF j
  <2> QED
    BY <1>3, GuardedUnlock, GuardedBefore
<1>5. SendSystem(c) \in Seq(Jobs) /\ Restore(r, S, u) \in Seq(Jobs)
      /\ UnlockJob \in Seq(Jobs)
  <2>1. Seq(Later) \subseteq Seq(Jobs)
    BY LaterAreJobs
  <2>2. SendSystem(c) \in Seq(Later)
    BY SendType DEF SendSystem
  <2>3. Restore(r, S, u) \in Seq(Later) /\ UnlockJob \in Seq(Later)
    BY RestoreType, UnlockType
  <2> QED
    BY <2>1, <2>2, <2>3
<1>6. SendSystem(c) \o Restore(r, S, u) \o UnlockJob = SendSystem(c) \o rest
  <2>1. Restore(r, S, u) \o UnlockJob = rest
    BY DEF Restore
  <2>2. (SendSystem(c) \o Restore(r, S, u)) \o UnlockJob
          = SendSystem(c) \o (Restore(r, S, u) \o UnlockJob)
    BY <1>5
  <2> QED
    BY <2>1, <2>2
<1>7. Guarded(SendSystem(c) \o rest)
  <2> HIDE DEF rest
  <2> QED
    BY <1>4, GuardedSend DEF SendSystem
<1> QED
  BY <1>1, <1>2, <1>6, <1>7

----------------------------------------------------------------------------
(* Steps. *)

\* The job that the holder of h.mu does next is neither a section nor an end.
LEMMA GuardedHead ==
    ASSUME NEW s \in Seq(Jobs), Guarded(s)
    PROVE  /\ s # <<>> /\ Head(s).op \in {"send", "restore", "unlock"}
           /\ Head(s).op = "unlock" => Tail(s) = <<>>
<1>1. s # <<>> /\ Head(s) = s[1] /\ Len(s) \in Nat /\ Len(s) > 0
  BY DEF Guarded
<1>2. CASE Len(s) = 1
  <2>1. Head(s).op = "unlock"
    BY <1>1, <1>2 DEF Guarded
  <2>2. Tail(s) = <<>>
    <3>1. Tail(s) \in Seq(Jobs) /\ Len(Tail(s)) = 0
      BY <1>1, <1>2
    <3> QED
      BY <3>1, EmptyIsShort
  <2> QED
    BY <1>1, <2>1, <2>2
<1>3. CASE Len(s) # 1
  <2>1. 1 \in 1..(Len(s) - 1)
    BY <1>1, <1>3, FirstBeforeLast
  <2>2. Head(s).op \in {"send", "restore"}
    BY <1>1, <2>1 DEF Guarded
  <2> QED
    BY <1>1, <2>2, Zenon
<1> QED
  BY <1>2, <1>3

\* While a connection holds h.mu it goes on with its list of jobs, one by one,
\* and nobody else gives it any.
LEMMA HolderMoves ==
    ASSUME IInv, Next, NEW c \in Conns,
           mu = c, phase[c] = "live", Guarded(todo[c]), mu' = c
    PROVE  /\ phase'[c] = phase[c]
           /\ \/ todo'[c] = todo[c]
              \/ Head(todo[c]).op = "restore" /\ todo'[c] = Tail(todo[c])
              \/ /\ Head(todo[c]).op = "send"
                 /\ \E S \in SUBSET Conns, e \in BOOLEAN :
                      todo'[c] = Send(S, e) \o Tail(todo[c])
<1> DEFINE Goal ==
             /\ phase'[c] = phase[c]
             /\ \/ todo'[c] = todo[c]
                \/ Head(todo[c]).op = "restore" /\ todo'[c] = Tail(todo[c])
                \/ /\ Head(todo[c]).op = "send"
                   /\ \E S \in SUBSET Conns, e \in BOOLEAN :
                        todo'[c] = Send(S, e) \o Tail(todo[c])
           Frame == phase'[c] = phase[c] /\ todo'[c] = todo[c]
<1> USE DistinctAssumption
<1>types. /\ todo \in [Goroutines -> Seq(Jobs)] /\ todo[c] \in Seq(Jobs)
          /\ Run \in Goroutines /\ Http \in Goroutines
          /\ Conns \subseteq Goroutines
          /\ phase \in [Conns -> Phases]
          /\ c # Run /\ c # Http /\ ~Unlocked
          /\ mu' # NoOne
  BY DEF IInv, TypeOK, Goroutines, Unlocked
<1>head. todo[c] # <<>> /\ Head(todo[c]).op \in {"send", "restore", "unlock"}
  BY <1>types, GuardedHead
<1>frame. ASSUME Frame PROVE Goal
  BY <1>frame
<1>1. CASE RunStep
  <2>1. ASSUME NEW d \in Conns, EnterClient(d) \/ IgnoreUnregister(d) \/ RemoveClient(d)
        PROVE  FALSE
    BY <2>1, <1>types DEF EnterClient, IgnoreUnregister, RemoveClient, Section
  <2>2. ASSUME NEW d \in Conns, RunPanics(d)
        PROVE  FALSE
    BY <2>2, <1>types DEF RunPanics, Crash
  <2>3. ASSUME NEW r \in RoomIDs, RefreshRoom(r)
        PROVE  Frame
    BY <2>3, <1>types DEF RefreshRoom, Then, pumps
  <2>4. ASSUME BroadcastPresence
        PROVE  FALSE
    BY <2>4, <1>types DEF BroadcastPresence
  <2> QED
    BY <1>1, <2>1, <2>2, <2>3, <2>4, <1>frame DEF RunStep
<1>2. ASSUME NEW g \in Goroutines, Proceed(g)
      PROVE  Goal
  <2>1. ASSUME CopyRecipients(g)
        PROVE  FALSE
    BY <2>1, <1>types DEF CopyRecipients
  <2>2. ASSUME NEW d \in Conns, SendPanics(g, d)
        PROVE  Goal
    <3>1. g # c
      BY <2>2, <1>types DEF SendPanics
    <3>2. Frame
      BY <2>2, <3>1, <1>types DEF SendPanics
    <3> QED
      BY <3>2
  <2>3. ASSUME NEW d \in Conns, SendBuffered(g, d) \/ SendDropped(g, d) \/ SendEvicts(g, d)
        PROVE  Goal
    <3>1. SendsTo(g, d) /\ phase' = phase
      BY <2>3 DEF SendBuffered, SendDropped, SendEvicts, pumps
    <3>2. /\ todo[g] \in Seq(Jobs) /\ todo[g] # <<>> /\ Head(todo[g]).op = "send"
          /\ Head(todo[g]) \in Jobs
      BY <3>1, <1>types DEF SendsTo, At
    <3>3. Head(todo[g]).to \ {d} \in SUBSET Conns /\ Head(todo[g]).evict \in BOOLEAN
      BY <3>2, JobFields
    <3>5. /\ todo'[g] = Sent(g, d) \o Tail(todo[g])
          /\ g # c => todo'[c] = todo[c]
      <4>1. CASE SendBuffered(g, d) \/ SendDropped(g, d)
        BY <4>1, <1>types DEF SendBuffered, SendDropped, Then
      <4>2. CASE SendEvicts(g, d)
        BY <4>2, <1>types DEF SendEvicts
      <4> QED
        BY <2>3, <4>1, <4>2
    <3>6. CASE g = c
      <4>1. todo'[c] = Send(Head(todo[c]).to \ {d}, Head(todo[c]).evict)
                         \o Tail(todo[c])
        BY <3>5, <3>6 DEF Sent
      <4> QED
        BY <3>1, <3>2, <3>3, <3>6, <4>1
    <3>7. CASE g # c
      BY <3>1, <3>5, <3>7
    <3> QED
      BY <3>6, <3>7
  <2> QED
    BY <1>2, <2>1, <2>2, <2>3 DEF Proceed, SendStep
<1>3. ASSUME NEW d \in Conns, ProceedConn(d)
      PROVE  Goal
  <2>1. ASSUME (\E row \in Rows : RehydrateJoin(d, row)) \/ ForwardSignal(d)
                 \/ UpdateScreenShareState(d)
        PROVE  FALSE
    BY <2>1, <1>types DEF RehydrateJoin, ForwardSignal, UpdateScreenShareState, Section
  <2>2. ASSUME ListRooms(d)
        PROVE  Frame
    <3>1. d # c /\ phase' = phase
      BY <2>2, <1>head DEF ListRooms, At, pumps
    <3>2. \E jobs : Then(d, jobs)
      BY <2>2 DEF ListRooms
    <3> QED
      BY <3>1, <3>2, <1>types DEF Then
  <2>3. ASSUME RestoreRoom(d)
        PROVE  Goal
    <3>1. /\ phase' = phase /\ Then(d, <<>>)
          /\ todo[d] # <<>> /\ Head(todo[d]).op = "restore"
      BY <2>3 DEF RestoreRoom, At, pumps
    <3>2. CASE d = c
      <4>1. todo'[c] = <<>> \o Tail(todo[c])
        BY <3>1, <3>2, <1>types DEF Then
      <4>2. todo'[c] = Tail(todo[c])
        BY <4>1, <1>types, <1>head
      <4> QED
        BY <3>1, <3>2, <4>2
    <3>3. CASE d # c
      BY <3>1, <3>3, <1>types DEF Then
    <3> QED
      BY <3>2, <3>3
  <2>4. ASSUME Unlock(d)
        PROVE  FALSE
    BY <2>4, <1>types DEF Unlock
  <2>5. ASSUME StartPumps(d)
        PROVE  Frame
    BY <2>5, <1>types DEF StartPumps
  <2> QED
    BY <1>3, <2>1, <2>2, <2>3, <2>4, <2>5, <1>frame DEF ProceedConn
<1>4. ASSUME NEW d \in Conns, HandleMessage(d)
      PROVE  Frame
  <2>1. /\ d # c /\ phase' = phase
        /\ \E jobs : todo' = [todo EXCEPT ![d] = jobs]
    <3>1. ASSUME NEW r \in RoomIDs, NEW u \in Usernames,
                 \/ CreateRoom(d, r) \/ JoinRoom(d, r) \/ AddUserToRoom(d, r, u)
                 \/ CloseRoom(d, r) \/ LeaveRoom(d, r) \/ WebRTCSignal(d, r, u)
          PROVE  FALSE
      BY <3>1, <1>types DEF CreateRoom, JoinRoom, AddUserToRoom, CloseRoom,
                            LeaveRoom, WebRTCSignal, Realtime
    <3>2. ASSUME NEW r \in RoomIDs, NEW on \in BOOLEAN,
                 VoiceState(d, r) \/ ScreenShare(d, r, on)
          PROVE  FALSE
      BY <3>2, <1>types DEF VoiceState, ScreenShare, Realtime
    <3>3. ASSUME NEW r \in RoomIDs, RoomMessage(d, r)
          PROVE  \E type, jobs : Relay(d, type, jobs)
      BY <3>3 DEF RoomMessage
    <3>4. ASSUME NEW u \in Usernames, DirectMessage(d, u)
          PROVE  \E type, jobs : Relay(d, type, jobs)
      BY <3>4 DEF DirectMessage
    <3>5. NameOf[c] \in Usernames
      BY NameAssumption
    <3>6. \E type, jobs : Relay(d, type, jobs)
      BY <1>4, <3>1, <3>2, <3>3, <3>4, <3>5 DEF HandleMessage, CreateRoom
    <3> QED
      BY <3>6, <1>head DEF Relay, Request, Reply, pumps
  <2> QED
    BY <2>1, <1>types
<1>5. ASSUME NEW d \in Conns, Pumps(d)
      PROVE  Frame
  <2>1. CASE Connect(d)
    BY <2>1, <1>types DEF Connect
  <2>2. CASE Drain(d) \/ WriterSeesClose(d) \/ WriteFails(d)
    BY <2>2 DEF Drain, WriterSeesClose, WriteFails
  <2>3. CASE ReadFails(d)
    BY <2>3, <1>types, <1>head DEF ReadFails
  <2>4. CASE RunTakesUnregister(d)
    BY <2>4, <1>types DEF RunTakesUnregister
  <2>5. CASE PanicEndsProcess(d)
    BY <2>5, <1>types DEF PanicEndsProcess, Crash
  <2> QED
    BY <1>5, <2>1, <2>2, <2>3, <2>4, <2>5 DEF Pumps
<1>6. CASE HttpHandlers
  <2>1. \E jobs : Publication(jobs)
    BY <1>6 DEF HttpHandlers, PublishRoomMessage, PublishSocialEvent
  <2> QED
    BY <2>1, <1>types DEF Publication, pumps
<1>7. CASE Restart
  BY <1>7 DEF Restart, pumps
<1> QED
  BY <1>1, <1>2, <1>3, <1>4, <1>5, <1>6, <1>7, <1>frame DEF Next

\* A connection that holds h.mu and still does after a step is on its way.
LEMMA HolderKept ==
    ASSUME IInv, Next, NEW c \in Conns,
           mu = c, phase[c] = "live", Guarded(todo[c]), mu' = c
    PROVE  phase'[c] = "live" /\ Guarded(todo'[c])
<1>1. todo[c] \in Seq(Jobs)
  BY DEF IInv, TypeOK, Goroutines
<1>2. CASE todo'[c] = todo[c]
  BY <1>2, HolderMoves
<1>3. CASE todo'[c] = Tail(todo[c]) /\ Head(todo[c]).op = "restore"
  BY <1>1, <1>3, HolderMoves, GuardedTail
<1>4. ASSUME NEW S \in SUBSET Conns, NEW e \in BOOLEAN,
             todo'[c] = Send(S, e) \o Tail(todo[c]), Head(todo[c]).op = "send"
      PROVE  Guarded(todo'[c])
  <2>1. Tail(todo[c]) \in Seq(Jobs) /\ Guarded(Tail(todo[c]))
    BY <1>1, <1>4, GuardedTail
  <2> QED
    BY <1>4, <2>1, GuardedSend
<1> QED
  BY <1>2, <1>3, <1>4, HolderMoves

\* Only closeRoom keeps h.mu.
LEMMA OnlyCloseRoomLocks ==
    ASSUME IInv, Next, NEW c \in Conns, mu # c, mu' = c
    PROVE  \E r \in RoomIDs : CloseRoom(c, r)
<1>types. c # NoOne
  BY DistinctAssumption
<1> SUFFICES ASSUME \A r \in RoomIDs : ~CloseRoom(c, r)
             PROVE  mu' = mu \/ mu' = NoOne \/ mu' # c
  BY <1>types
<1>1. CASE RunStep
  BY <1>1 DEF RunStep, EnterClient, IgnoreUnregister, RemoveClient, RunPanics,
              Crash, RefreshRoom, BroadcastPresence, control
<1>2. ASSUME NEW g \in Goroutines, Proceed(g)
      PROVE  mu' = mu \/ mu' = NoOne
  BY <1>2 DEF Proceed, SendStep, SendBuffered, SendDropped, SendEvicts,
              SendPanics, CopyRecipients, control
<1>3. ASSUME NEW d \in Conns, ProceedConn(d)
      PROVE  mu' = mu \/ mu' = NoOne
  BY <1>3 DEF ProceedConn, ListRooms, RehydrateJoin, ForwardSignal,
              UpdateScreenShareState, RestoreRoom, Unlock, StartPumps, control
<1>4. ASSUME NEW d \in Conns, HandleMessage(d)
      PROVE  mu' = mu \/ mu' # c
  <2>1. CASE \E r \in RoomIDs : CloseRoom(d, r)
    BY <2>1 DEF CloseRoom
  <2>2. CASE \A r \in RoomIDs : ~CloseRoom(d, r)
    BY <1>4, <2>2 DEF HandleMessage, CreateRoom, JoinRoom, AddUserToRoom,
                      LeaveRoom, RoomMessage, VoiceState, WebRTCSignal,
                      ScreenShare, DirectMessage, Realtime, Relay
  <2> QED
    BY <2>1, <2>2
<1>5. ASSUME NEW d \in Conns, Pumps(d)
      PROVE  mu' = mu \/ mu' = NoOne
  BY <1>5 DEF Pumps, Connect, Drain, WriterSeesClose, WriteFails, ReadFails,
              RunTakesUnregister, PanicEndsProcess, Crash, control
<1>6. CASE HttpHandlers
  BY <1>6 DEF HttpHandlers, PublishRoomMessage, PublishSocialEvent, Publication
<1>7. CASE Restart
  BY <1>7 DEF Restart
<1> QED
  BY <1>1, <1>2, <1>3, <1>4, <1>5, <1>6, <1>7 DEF Next

\* closeRoom has its messages and its unlock to do.
LEMMA HolderStarts ==
    ASSUME IInv, Next, NEW c \in Conns, mu # c, mu' = c
    PROVE  phase'[c] = "live" /\ Guarded(todo'[c])
<1> USE DistinctAssumption
<1>types. /\ todo \in [Goroutines -> Seq(Jobs)]
          /\ rooms \in [RoomIDs -> SUBSET Conns]
          /\ Conns \subseteq Goroutines /\ c # NoOne
          /\ NameOf[c] \in Usernames
  BY NameAssumption DEF IInv, TypeOK, Goroutines
<1>1. \E r \in RoomIDs : CloseRoom(c, r)
  BY OnlyCloseRoomLocks
<1>2. PICK r \in RoomIDs : CloseRoom(c, r)
  BY <1>1
<1>3. phase'[c] = "live"
  BY <1>2 DEF CloseRoom, Request, pumps
<1>4. \/ Reply(c, RefuseThenUnlock(c))
      \/ Reply(c, SendSystem(c) \o Restore(r, rooms[r], NameOf[c]) \o UnlockJob)
      \/ Reply(c, NoticeThenUnlock(r))
  BY <1>2 DEF CloseRoom
<1>5. /\ Guarded(RefuseThenUnlock(c))
      /\ Guarded(SendSystem(c) \o Restore(r, rooms[r], NameOf[c]) \o UnlockJob)
      /\ Guarded(NoticeThenUnlock(r))
  BY <1>types, GuardedClosings DEF NoticeThenUnlock
<1> QED
  BY <1>types, <1>3, <1>4, <1>5 DEF Reply

LEMMA InitHolder == Init => HolderInv
  BY DistinctAssumption DEF Init, NewHub, HolderInv

LEMMA StepHolder == IInv /\ HolderInv /\ [Next]_vars => HolderInv'
<1> SUFFICES ASSUME IInv, HolderInv, [Next]_vars, NEW c \in Conns, mu' = c
             PROVE  phase'[c] = "live" /\ Guarded(todo'[c])
  BY DEF HolderInv, Guarded
<1>1. CASE Next /\ mu = c
  BY <1>1, HolderKept DEF HolderInv
<1>2. CASE Next /\ mu # c
  BY <1>2, HolderStarts
<1>3. CASE UNCHANGED vars
  BY <1>3 DEF HolderInv, Guarded, vars, control, pumps
<1> QED
  BY <1>1, <1>2, <1>3

\* closeRoom comes to its deferred unlock before anything that takes h.mu, so
\* that the hub never waits on itself.
THEOREM HolderUnlocksFirst == Spec => []HolderNeverLocks
<1>1. HolderInv => HolderNeverLocks
  BY DEF HolderInv, HolderNeverLocks, Guarded
<1> QED
  BY <1>1, InitIInv, StepIInv, InitHolder, StepHolder, PTL DEF Spec


----------------------------------------------------------------------------
(* Connections and rooms. *)

\* A connection whose goroutine can still do something to a room.
Running(c) == phase[c] \in {"rehydrating", "live"}

\* The hub knows d, or is about to, or has thrown it out.
Covered(d) == d \in clients \/ d \in evicted \/ Entering(d)

\* Only a connection that is covered does anything, and Run does not enter one
\* whose goroutine has returned.
LifeInv ==
    /\ \A c \in Conns : /\ Running(c) => Covered(c)
                        /\ todo[c] # <<>> => Running(c)
                        /\ Entering(c) => phase[c] # "gone"
    /\ NoClientAbandoned

\* Jobs that closeRoom alone has to do are left out.
Plain == {j \in Later : j.op \notin {"restore", "unlock"}}

\* What restore j puts back into memory is still true.
PutBack(j) ==
    /\ \A d \in j.to : Covered(d)
    /\ j.room \notin stale => /\ \A d \in j.to : NameOf[d] \in dbMembers[j.room]
                              /\ j.user = dbOwner[j.room]

Kept == {j \in Jobs : j.op = "restore" => PutBack(j)}

\* Only the connection that holds h.mu has a room to put back.
RestoresInv ==
    \A c \in Conns : /\ mu # c => todo[c] \in Seq(Plain)
                     /\ mu = c => todo[c] \in Seq(Kept)

----------------------------------------------------------------------------
(* Lives of connections. *)

\* Run takes nobody from a channel until it has dealt with the last one.
LEMMA RunStaysBusy ==
    ASSUME IInv, Next, todo[Run] # <<>>,
           Head(todo[Run]).op \in {"register", "unregister"}
    PROVE  \/ todo'[Run] = todo[Run]
           \/ Crash
           \/ \E c \in Conns :
                /\ EnterClient(c) \/ IgnoreUnregister(c) \/ RemoveClient(c)
                /\ Head(todo[Run]).conn = c
<1> DEFINE Frame == todo'[Run] = todo[Run]
           Goal == \/ Frame
                   \/ Crash
                   \/ \E c \in Conns :
                        /\ EnterClient(c) \/ IgnoreUnregister(c) \/ RemoveClient(c)
                        /\ Head(todo[Run]).conn = c
<1> USE DistinctAssumption
<1>types. /\ todo \in [Goroutines -> Seq(Jobs)] /\ Run \in Goroutines
          /\ Run \notin Conns /\ Run # Http
  BY DEF IInv, TypeOK, Goroutines
<1>1. CASE RunStep
  <2>1. ASSUME NEW d \in Conns, EnterClient(d) \/ IgnoreUnregister(d) \/ RemoveClient(d)
        PROVE  Goal
    <3>1. Head(todo[Run]).conn = d
      BY <2>1 DEF EnterClient, IgnoreUnregister, RemoveClient
    <3> QED
      BY <2>1, <3>1
  <2>2. ASSUME NEW d \in Conns, RunPanics(d)
        PROVE  Goal
    BY <2>2 DEF RunPanics
  <2>3. ASSUME NEW r \in RoomIDs, RefreshRoom(r)
        PROVE  FALSE
    BY <2>3 DEF RefreshRoom, At
  <2>4. ASSUME BroadcastPresence
        PROVE  FALSE
    BY <2>4 DEF BroadcastPresence
  <2> QED
    BY <1>1, <2>1, <2>2, <2>3, <2>4 DEF RunStep
<1>2. ASSUME NEW g \in Goroutines, Proceed(g)
      PROVE  Frame
  <2>1. ASSUME CopyRecipients(g)
        PROVE  Frame
    <3>1. g # Run
      BY <2>1 DEF CopyRecipients
    <3>2. \E jobs : Then(g, jobs)
      BY <2>1 DEF CopyRecipients
    <3> QED
      BY <3>1, <3>2, <1>types DEF Then
  <2>2. ASSUME NEW d \in Conns, SendPanics(g, d)
        PROVE  Frame
    BY <2>2, <1>types DEF SendPanics
  <2>3. ASSUME NEW d \in Conns, SendBuffered(g, d) \/ SendDropped(g, d)
        PROVE  Frame
    <3>1. g # Run
      BY <2>3 DEF SendBuffered, SendDropped, SendsTo, At
    <3> QED
      BY <2>3, <3>1, <1>types DEF SendBuffered, SendDropped, Then
  <2>4. ASSUME NEW d \in Conns, SendEvicts(g, d)
        PROVE  FALSE
    BY <2>4 DEF SendEvicts
  <2> QED
    BY <1>2, <2>1, <2>2, <2>3, <2>4 DEF Proceed, SendStep
<1>3. ASSUME NEW d \in Conns, ProceedConn(d)
      PROVE  Frame
  <2>1. todo' = todo \/ \E jobs : Then(d, jobs)
    BY <1>3 DEF ProceedConn, ListRooms, RehydrateJoin, ForwardSignal,
                UpdateScreenShareState, RestoreRoom, Unlock, StartPumps
  <2> QED
    BY <2>1, <1>types DEF Then
<1>4. ASSUME NEW d \in Conns, HandleMessage(d)
      PROVE  Frame
  <2>1. \E jobs : Reply(d, jobs)
    BY <1>4 DEF HandleMessage, CreateRoom, JoinRoom, AddUserToRoom, CloseRoom,
                LeaveRoom, RoomMessage, VoiceState, WebRTCSignal, ScreenShare,
                DirectMessage, Realtime, Relay
  <2> QED
    BY <2>1, <1>types DEF Reply
<1>5. ASSUME NEW d \in Conns, Pumps(d)
      PROVE  Frame \/ Crash
  BY <1>5 DEF Pumps, Connect, Drain, WriterSeesClose, WriteFails, ReadFails,
              RunTakesUnregister, PanicEndsProcess
<1>6. CASE HttpHandlers
  <2>1. \E jobs : Publication(jobs)
    BY <1>6 DEF HttpHandlers, PublishRoomMessage, PublishSocialEvent
  <2> QED
    BY <2>1, <1>types DEF Publication
<1>7. CASE Restart
  BY <1>7 DEF Restart
<1> QED
  BY <1>1, <1>2, <1>3, <1>4, <1>5, <1>6, <1>7 DEF Next

\* A step of a connection's life, if it takes one.
LEMMA PhaseMoves ==
    ASSUME IInv, LifeInv, Next, NEW c \in Conns
    PROVE  \/ phase'[c] = phase[c]
           \/ Connect(c)
           \/ phase[c] = "rehydrating" /\ phase'[c] = "live"
           \/ ReadFails(c)
           \/ RunTakesUnregister(c)
           \/ /\ todo'[c] = <<>>
              /\ phase[c] # "new"
              /\ phase'[c] \in {"leaked", "panicking"}
           \/ Crash
<1> USE DistinctAssumption
<1>types. /\ phase \in [Conns -> Phases] /\ todo \in [Goroutines -> Seq(Jobs)]
          /\ Conns \subseteq Goroutines
  BY DEF IInv, TypeOK, Goroutines
<1>1. CASE RunStep
  BY <1>1 DEF RunStep, EnterClient, IgnoreUnregister, RemoveClient, RunPanics,
              RefreshRoom, BroadcastPresence, pumps
<1>2. ASSUME NEW g \in Goroutines, Proceed(g)
      PROVE  \/ phase'[c] = phase[c]
             \/ todo'[c] = <<>> /\ phase[c] # "new" /\ phase'[c] \in {"leaked", "panicking"}
  <2>1. ASSUME NEW d \in Conns, SendPanics(g, d), g = c
        PROVE  todo'[c] = <<>> /\ phase[c] # "new" /\ phase'[c] \in {"leaked", "panicking"}
    <3>1. todo[c] # <<>>
      BY <2>1 DEF SendPanics, SendsTo, At
    <3>2. phase[c] # "new"
      BY <3>1 DEF LifeInv, Running
    <3> QED
      BY <2>1, <3>2, <1>types DEF SendPanics
  <2>2. ASSUME NEW d \in Conns, SendPanics(g, d), g # c
        PROVE  phase'[c] = phase[c]
    BY <2>2 DEF SendPanics
  <2>3. ASSUME \/ CopyRecipients(g)
               \/ \E d \in Conns :
                    SendBuffered(g, d) \/ SendDropped(g, d) \/ SendEvicts(g, d)
        PROVE  phase'[c] = phase[c]
    BY <2>3 DEF CopyRecipients, SendBuffered, SendDropped, SendEvicts, pumps
  <2> QED
    BY <1>2, <2>1, <2>2, <2>3 DEF Proceed, SendStep
<1>3. ASSUME NEW d \in Conns, ProceedConn(d)
      PROVE  \/ phase'[c] = phase[c]
             \/ phase[c] = "rehydrating" /\ phase'[c] = "live"
  <2>1. CASE StartPumps(d)
    BY <2>1, <1>types DEF StartPumps
  <2>2. CASE ~StartPumps(d)
    BY <1>3, <2>2 DEF ProceedConn, ListRooms, RehydrateJoin, ForwardSignal,
                      UpdateScreenShareState, RestoreRoom, Unlock, pumps
  <2> QED
    BY <2>1, <2>2
<1>4. ASSUME NEW d \in Conns, HandleMessage(d)
      PROVE  phase' = phase
  BY <1>4 DEF HandleMessage, CreateRoom, JoinRoom, AddUserToRoom, CloseRoom,
              LeaveRoom, RoomMessage, VoiceState, WebRTCSignal, ScreenShare,
              DirectMessage, Realtime, Relay, pumps
<1>5. ASSUME NEW d \in Conns, Pumps(d)
      PROVE  \/ phase'[c] = phase[c]
             \/ Connect(c) \/ ReadFails(c) \/ RunTakesUnregister(c) \/ Crash
  <2>1. CASE d = c
    BY <1>5, <2>1 DEF Pumps, Drain, WriterSeesClose, WriteFails, PanicEndsProcess
  <2>2. CASE d # c
    BY <1>5, <2>2, <1>types
       DEF Pumps, Connect, Drain, WriterSeesClose, WriteFails, ReadFails,
           RunTakesUnregister, PanicEndsProcess
  <2> QED
    BY <2>1, <2>2
<1>6. CASE HttpHandlers \/ Restart
  BY <1>6 DEF HttpHandlers, PublishRoomMessage, PublishSocialEvent, Publication,
              Restart, pumps
<1> QED
  BY <1>1, <1>2, <1>3, <1>4, <1>5, <1>6 DEF Next

\* A connection with nothing to do gets something to do when it connects or
\* reads a message.
LEMMA WorkStarts ==
    ASSUME IInv, Next, NEW c \in Conns, todo[c] = <<>>, todo'[c] # <<>>
    PROVE  Connect(c) \/ (phase[c] = "live" /\ phase'[c] = "live")
<1> DEFINE Frame == todo'[c] = todo[c]
<1> USE DistinctAssumption
<1>types. /\ todo \in [Goroutines -> Seq(Jobs)] /\ Conns \subseteq Goroutines
          /\ Run \in Goroutines /\ c # Run /\ c # Http
  BY DEF IInv, TypeOK, Goroutines
<1>crash. ~Crash
  BY <1>types DEF Crash
<1>1. CASE RunStep
  <2>1. \/ \E jobs : Then(Run, jobs)
        \/ \E jobs : todo' = [todo EXCEPT ![Run] = jobs]
    BY <1>1, <1>crash DEF RunStep, EnterClient, IgnoreUnregister, RemoveClient,
                          RunPanics, RefreshRoom, BroadcastPresence
  <2> QED
    BY <2>1, <1>types DEF Then
<1>2. ASSUME NEW g \in Goroutines, Proceed(g)
      PROVE  Frame
  <2>1. todo[g] # <<>>
    BY <1>2 DEF Proceed, SendStep, CopyRecipients, SendBuffered, SendDropped,
                SendEvicts, SendPanics, SendsTo, At
  <2>2. \/ \E jobs : Then(g, jobs)
        \/ todo' = [todo EXCEPT ![g] = <<>>]
        \/ \E jobs : todo' = [todo EXCEPT ![g] = jobs \o Tail(@), ![Run] = todo'[Run]]
    <3>1. ASSUME NEW d \in Conns, SendEvicts(g, d)
          PROVE  \E jobs : todo' = [todo EXCEPT ![g] = jobs \o Tail(@), ![Run] = todo'[Run]]
      <4>1. todo' = [todo EXCEPT ![g] = Sent(g, d) \o Tail(@), ![Run] = Unregister(d)]
        BY <3>1 DEF SendEvicts
      <4>2. todo'[Run] = Unregister(d)
        BY <4>1, <1>types
      <4> QED
        BY <4>1, <4>2
    <3> QED
      BY <1>2, <3>1 DEF Proceed, SendStep, CopyRecipients, SendBuffered,
                        SendDropped, SendPanics
  <2>3. g # c
    BY <2>1
  <2> QED
    BY <2>2, <2>3, <1>types DEF Then
<1>3. ASSUME NEW d \in Conns, ProceedConn(d)
      PROVE  Frame
  <2>1. \/ todo' = todo
        \/ todo[d] # <<>> /\ \E jobs : Then(d, jobs)
    BY <1>3 DEF ProceedConn, ListRooms, RehydrateJoin, ForwardSignal,
                UpdateScreenShareState, RestoreRoom, Unlock, StartPumps,
                Section, At
  <2> QED
    BY <2>1, <1>types DEF Then
<1>4. ASSUME NEW d \in Conns, HandleMessage(d)
      PROVE  Frame \/ (phase[c] = "live" /\ phase' = phase)
  <2>1. phase[d] = "live" /\ phase' = phase /\ \E jobs : Reply(d, jobs)
    BY <1>4 DEF HandleMessage, CreateRoom, JoinRoom, AddUserToRoom, CloseRoom,
                LeaveRoom, RoomMessage, VoiceState, WebRTCSignal, ScreenShare,
                DirectMessage, Realtime, Relay, Request, pumps
  <2> QED
    BY <2>1, <1>types DEF Reply
<1>5. ASSUME NEW d \in Conns, Pumps(d)
      PROVE  Frame \/ Connect(c)
  <2>1. CASE Connect(d)
    BY <2>1, <1>types DEF Connect
  <2>2. CASE ~Connect(d)
    BY <1>5, <2>2, <1>types, <1>crash
       DEF Pumps, Drain, WriterSeesClose, WriteFails, ReadFails,
           RunTakesUnregister, PanicEndsProcess
  <2> QED
    BY <2>1, <2>2
<1>6. CASE HttpHandlers
  <2>1. \E jobs : Publication(jobs)
    BY <1>6 DEF HttpHandlers, PublishRoomMessage, PublishSocialEvent
  <2> QED
    BY <2>1, <1>types DEF Publication
<1>7. CASE Restart
  BY <1>7 DEF Restart
<1> QED
  BY <1>1, <1>2, <1>3, <1>4, <1>5, <1>6, <1>7 DEF Next

\* Run gets a connection to enter from that connection only.
LEMMA EnteringStarts ==
    ASSUME IInv, Next, NEW c \in Conns, todo'[Run] = Register(c), ~Entering(c)
    PROVE  Connect(c)
<1> DEFINE Same == todo'[Run] = todo[Run]
           Goal == Connect(c) \/ Same
<1> USE DistinctAssumption
<1>types. /\ todo \in [Goroutines -> Seq(Jobs)] /\ Conns \subseteq Goroutines
          /\ Run \in Goroutines /\ Run \notin Conns /\ Run # Http
          /\ EntersOnce /\ clients \in SUBSET Conns
  BY DEF IInv, TypeOK, Goroutines
<1>differ. ~Same
  BY DEF Entering
<1>later. todo'[Run] \notin Seq(Later)
  <2>1. Register(c) \notin Seq(Later)
    <3> SUFFICES ASSUME Register(c) \in Seq(Later) PROVE FALSE
      OBVIOUS
    <3>1. Register(c)[1] \in Later
      BY DEF Register
    <3> QED
      BY <3>1 DEF Register, Later
  <2> QED
    BY <2>1
<1>then. ASSUME NEW jobs \in Seq(Later), todo[Run] # <<>>, Then(Run, jobs)
         PROVE  FALSE
  BY <1>then, <1>types, <1>later, ThenType
<1>none. <<>> \in Seq(Later)
  OBVIOUS
<1>crash. ~Crash
  BY <1>types, <1>later, <1>none DEF Crash
<1>1. CASE RunStep
  <2>1. ASSUME NEW d \in Conns, EnterClient(d) \/ IgnoreUnregister(d)
        PROVE  FALSE
    BY <2>1, <1>then, <1>none DEF EnterClient, IgnoreUnregister, Section, At
  <2>2. ASSUME NEW d \in Conns, RemoveClient(d)
        PROVE  FALSE
    <3>1. open \ SweptRooms(d) \in SUBSET RoomIDs
      BY DEF IInv, TypeOK
    <3>2. Refresh(open \ SweptRooms(d)) \in Seq(Later)
      BY <3>1, RefreshType
    <3> QED
      BY <2>2, <3>2, <1>then DEF RemoveClient, Section, At
  <2>3. ASSUME NEW r \in RoomIDs, RefreshRoom(r)
        PROVE  FALSE
    <3>1. /\ todo[Run] # <<>> /\ Head(todo[Run]).op = "refresh"
          /\ Then(Run, BroadcastRoomMeta(r) \o BroadcastScreenState(r)
                         \o Refresh(Head(todo[Run]).rooms \ {r}))
      BY <2>3 DEF RefreshRoom, At
    <3>2. todo[Run] \in Seq(Jobs)
      BY <1>types
    <3>3. Head(todo[Run]) \in Jobs
      BY <3>1, <3>2
    <3>4. Head(todo[Run]).rooms \in SUBSET RoomIDs
      BY <3>1, <3>3, JobFields
    <3>5. Refresh(Head(todo[Run]).rooms \ {r}) \in Seq(Later)
      BY <3>4, RefreshType
    <3>6. BroadcastRoomMeta(r) \o BroadcastScreenState(r)
            \o Refresh(Head(todo[Run]).rooms \ {r}) \in Seq(Later)
      BY <3>5, ToMembersType, ConcatType
    <3> QED
      BY <3>1, <3>6, <1>then
  <2>4. ASSUME BroadcastPresence
        PROVE  FALSE
    <3>1. todo'[Run] = Send(clients, TRUE)
      BY <2>4, <1>types DEF BroadcastPresence
    <3> QED
      BY <3>1, <1>types, <1>later, SendType
  <2> QED
    BY <1>1, <1>crash, <2>1, <2>2, <2>3, <2>4 DEF RunStep, RunPanics
<1>2. ASSUME NEW g \in Goroutines, Proceed(g)
      PROVE  Same
  <2>1. ASSUME NEW d \in Conns, SendEvicts(g, d)
        PROVE  FALSE
    <3>1. todo'[Run] = Unregister(d)
      BY <2>1, <1>types DEF SendEvicts
    <3> QED
      BY <3>1, <1>later, UnregisterType
  <2>2. ASSUME NEW d \in Conns, SendPanics(g, d)
        PROVE  Same
    BY <2>2, <1>types DEF SendPanics
  <2>3. ASSUME NEW d \in Conns, SendBuffered(g, d) \/ SendDropped(g, d)
        PROVE  Same
    <3>1. Then(g, Sent(g, d)) /\ todo[g] # <<>> /\ Head(todo[g]).op = "send"
      BY <2>3 DEF SendBuffered, SendDropped, SendsTo, At
    <3>2. Head(todo[g]) \in Jobs
      <4>1. todo[g] \in Seq(Jobs)
        BY <1>types
      <4> QED
        BY <3>1, <4>1
    <3>3. Sent(g, d) \in Seq(Later)
      <4>1. Head(todo[g]).to \ {d} \in SUBSET Conns /\ Head(todo[g]).evict \in BOOLEAN
        BY <3>1, <3>2, JobFields
      <4> QED
        BY <4>1, SendType DEF Sent
    <3> QED
      BY <3>1, <3>3, <1>then, <1>types DEF Then
  <2>4. ASSUME CopyRecipients(g)
        PROVE  Same
    <3>1. PICK jobs : Then(g, jobs) /\ todo[g] # <<>> /\
                      (g = Run => jobs \in Seq(Later))
      <4>1. Head(todo[g]) \in Jobs /\ todo[g] # <<>>
        <5>1. todo[g] \in Seq(Jobs) /\ todo[g] # <<>>
          BY <2>4, <1>types DEF CopyRecipients
        <5> QED
          BY <5>1
      <4>2. /\ Head(todo[g]).op = "toMembers" => rooms[Head(todo[g]).room] \in SUBSET Conns
            /\ Head(todo[g]).op = "direct" => users[Head(todo[g]).user] \in SUBSET Conns
        BY <4>1, JobFields DEF IInv, TypeOK
      <4>3. /\ Head(todo[g]).op = "toMembers" =>
                 Send(rooms[Head(todo[g]).room], TRUE) \in Seq(Later)
            /\ Head(todo[g]).op = "direct" =>
                 Send(users[Head(todo[g]).user], TRUE) \in Seq(Later)
        BY <4>2, SendType
      <4>4. CASE g = Run
        <5>1. \/ /\ Head(todo[g]).op = "toMembers"
                 /\ Then(g, Send(rooms[Head(todo[g]).room], TRUE))
              \/ /\ Head(todo[g]).op = "direct"
                 /\ Then(g, Send(users[Head(todo[g]).user], TRUE))
          BY <2>4, <4>4, <1>types DEF CopyRecipients
        <5> QED
          BY <4>1, <4>3, <5>1
      <4>5. CASE g # Run
        <5>1. \E jobs : Then(g, jobs)
          BY <2>4 DEF CopyRecipients
        <5> QED
          BY <4>1, <4>5, <5>1
      <4> QED
        BY <4>4, <4>5
    <3> QED
      BY <3>1, <1>then, <1>types DEF Then
  <2> QED
    BY <1>2, <2>1, <2>2, <2>3, <2>4 DEF Proceed, SendStep
<1>3. ASSUME NEW d \in Conns, ProceedConn(d)
      PROVE  Same
  <2>1. todo' = todo \/ \E jobs : Then(d, jobs)
    BY <1>3 DEF ProceedConn, ListRooms, RehydrateJoin, ForwardSignal,
                UpdateScreenShareState, RestoreRoom, Unlock, StartPumps
  <2> QED
    BY <2>1, <1>types DEF Then
<1>4. ASSUME NEW d \in Conns, HandleMessage(d)
      PROVE  Same
  <2>1. \E jobs : Reply(d, jobs)
    BY <1>4 DEF HandleMessage, CreateRoom, JoinRoom, AddUserToRoom, CloseRoom,
                LeaveRoom, RoomMessage, VoiceState, WebRTCSignal, ScreenShare,
                DirectMessage, Realtime, Relay
  <2> QED
    BY <2>1, <1>types DEF Reply
<1>5. ASSUME NEW d \in Conns, Pumps(d)
      PROVE  Goal
  <2>1. CASE Connect(d)
    <3>1. todo'[Run] = Register(d)
      BY <2>1, <1>types DEF Connect
    <3>2. c = d
      <4>1. Register(c)[1].conn = c /\ Register(d)[1].conn = d
        BY DEF Register
      <4> QED
        BY <3>1, <4>1
    <3> QED
      BY <2>1, <3>2
  <2>2. CASE RunTakesUnregister(d)
    <3>1. todo'[Run] = Unregister(d)
      BY <2>2, <1>types DEF RunTakesUnregister
    <3> QED
      BY <3>1, <1>later, UnregisterType
  <2>3. CASE ~Connect(d) /\ ~RunTakesUnregister(d)
    BY <1>5, <2>3, <1>crash DEF Pumps, Drain, WriterSeesClose, WriteFails,
                                ReadFails, PanicEndsProcess
  <2> QED
    BY <2>1, <2>2, <2>3
<1>6. CASE HttpHandlers
  <2>1. \E jobs : Publication(jobs)
    BY <1>6 DEF HttpHandlers, PublishRoomMessage, PublishSocialEvent
  <2> QED
    BY <2>1, <1>types, <1>differ DEF Publication
<1>7. CASE Restart
  BY <1>7, <1>differ DEF Restart
<1> QED
  BY <1>1, <1>2, <1>3, <1>4, <1>5, <1>6, <1>7, <1>differ DEF Next

\* Nobody stops being covered but by the process ending, or by Run removing a
\* connection whose goroutine has ended already.
LEMMA CoveredKept ==
    ASSUME IInv, Next, NEW d \in Conns, Covered(d)
    PROVE  \/ Covered(d)'
           \/ RemoveClient(d) /\ ~Running(d)
           \/ Crash
<1> SUFFICES ASSUME ~Crash
             PROVE  Covered(d)' \/ (RemoveClient(d) /\ ~Running(d))
  OBVIOUS
<1>1. CASE d \in clients \cup evicted
  <2>1. CASE UNCHANGED registry
    BY <1>1, <2>1 DEF registry, Covered
  <2>2. ASSUME NEW c \in Conns, EnterClient(c)
        PROVE  Covered(d)'
    BY <1>1, <2>2 DEF EnterClient, Covered
  <2>3. ASSUME NEW c \in Conns, RemoveClient(c), c # d
        PROVE  Covered(d)'
    <3>1. clients' = clients \ {c} /\ evicted \subseteq evicted'
      BY <2>3 DEF RemoveClient
    <3> QED
      BY <1>1, <2>3, <3>1 DEF Covered
  <2>4. ASSUME RemoveClient(d)
        PROVE  Covered(d)' \/ ~Running(d)
    <3>1. Running(d) => d \in evicted'
      BY <2>4 DEF RemoveClient, Running
    <3> QED
      BY <3>1 DEF Covered
  <2> QED
    BY <2>1, <2>2, <2>3, <2>4, RegistryChanges
<1>2. CASE Entering(d)
  <2>1. /\ todo[Run] = Register(d) /\ todo[Run] # <<>>
        /\ Head(todo[Run]).op = "register" /\ Head(todo[Run]).conn = d
    BY <1>2 DEF Entering, Register
  <2>2. CASE todo'[Run] = todo[Run]
    BY <2>1, <2>2 DEF Covered, Entering
  <2>3. ASSUME NEW c \in Conns, EnterClient(c), Head(todo[Run]).conn = c
        PROVE  Covered(d)'
    BY <2>1, <2>3 DEF EnterClient, Covered
  <2>4. ASSUME NEW c \in Conns, IgnoreUnregister(c) \/ RemoveClient(c)
        PROVE  FALSE
    BY <2>1, <2>4 DEF IgnoreUnregister, RemoveClient, Section, At
  <2> QED
    BY <2>1, <2>2, <2>3, <2>4, RunStaysBusy
<1> QED
  BY <1>1, <1>2 DEF Covered

LEMMA LifeStep ==
    ASSUME IInv, LifeInv, Next
    PROVE  LifeInv'
<1> USE DistinctAssumption
<1>types. /\ phase \in [Conns -> Phases] /\ todo \in [Goroutines -> Seq(Jobs)]
          /\ Run \in Goroutines /\ Conns \subseteq Goroutines
          /\ \A c \in Conns : c # Run
  BY DEF IInv, TypeOK, Goroutines
<1>busy. \A c \in Conns : /\ Register(c) # <<>> /\ Register(c)[1].op = "register"
                          /\ Unregister(c) # <<>> /\ Head(Unregister(c)).op = "unregister"
                          /\ Head(Unregister(c)).conn = c
  BY DEF Register, Unregister
<1>crash. ASSUME Crash
          PROVE  LifeInv'
  <2>1. /\ clients' = {} /\ todo' = [g \in Goroutines |-> <<>>]
        /\ phase' = [c \in Conns |-> IF phase[c] = "new" THEN "new" ELSE "gone"]
    BY <1>crash DEF Crash
  <2>2. \A c \in Conns : phase'[c] \in {"new", "gone"} /\ todo'[c] = <<>>
    BY <2>1, <1>types
  <2>3. \A c \in Conns : todo'[Run] # Register(c)
    BY <2>1, <1>types, <1>busy
  <2> QED
    BY <2>1, <2>2, <2>3 DEF LifeInv, Running, Entering, NoClientAbandoned
<1>next. clients' \subseteq Conns
  BY TypeStep DEF TypeOK
<1> SUFFICES ASSUME ~Crash
             PROVE  LifeInv'
  BY <1>crash
<1> SUFFICES ASSUME NEW c \in Conns
             PROVE  /\ Running(c)' => Covered(c)'
                    /\ todo'[c] # <<>> => Running(c)'
                    /\ Entering(c)' => phase'[c] # "gone"
                    /\ c \in clients' => \/ phase'[c] \notin {"new", "gone"}
                                         \/ todo'[Run] = Unregister(c)
  BY <1>next DEF LifeInv, NoClientAbandoned, Running, Covered, Entering
<1>connect. ASSUME Connect(c)
            PROVE  todo'[Run] = Register(c) /\ phase'[c] = "rehydrating"
  BY <1>connect, <1>types DEF Connect
<1>takes. ASSUME RunTakesUnregister(c)
          PROVE  todo[Run] = <<>> /\ todo'[Run] = Unregister(c) /\ ~Running(c)
                 /\ phase'[c] = "gone" /\ todo'[c] = todo[c]
  BY <1>takes, <1>types DEF RunTakesUnregister, Running
<1>fails. ASSUME ReadFails(c)
          PROVE  todo[c] = <<>> /\ todo'[c] = <<>> /\ phase'[c] = "exiting"
  BY <1>fails, <1>types DEF ReadFails
<1>1. ASSUME Running(c)'
      PROVE  Covered(c)'
  <2>1. Connect(c) \/ Running(c)
    BY <1>1, <1>takes, <1>fails, PhaseMoves DEF Running
  <2>2. CASE Connect(c)
    BY <2>2, <1>connect DEF Covered, Entering
  <2>3. CASE Running(c)
    BY <2>3, CoveredKept DEF LifeInv
  <2> QED
    BY <2>1, <2>2, <2>3
<1>2. ASSUME todo'[c] # <<>>
      PROVE  Running(c)'
  <2>1. CASE todo[c] = <<>>
    BY <1>2, <2>1, <1>connect, WorkStarts DEF Running
  <2>2. CASE todo[c] # <<>>
    <3>1. Running(c)
      BY <2>2 DEF LifeInv
    <3> QED
      BY <1>2, <2>2, <3>1, <1>connect, <1>takes, <1>fails, PhaseMoves DEF Running
  <2> QED
    BY <2>1, <2>2
<1>3. ASSUME Entering(c)'
      PROVE  phase'[c] # "gone"
  <2>1. CASE Entering(c)
    <3>1. phase[c] # "gone" /\ todo[Run] # <<>>
      BY <2>1, <1>busy DEF LifeInv, Entering
    <3> QED
      BY <3>1, <1>connect, <1>takes, <1>fails, PhaseMoves
  <2>2. CASE ~Entering(c)
    BY <1>3, <2>2, <1>connect, EnteringStarts DEF Entering
  <2> QED
    BY <2>1, <2>2
<1>4. ASSUME c \in clients'
      PROVE  phase'[c] \notin {"new", "gone"} \/ todo'[Run] = Unregister(c)
  <2>1. CASE EnterClient(c)
    <3>1. Entering(c) /\ phase' = phase
      <4>1. todo[Run] # <<>> /\ Head(todo[Run]).op = "register"
            /\ Head(todo[Run]).conn = c /\ phase' = phase
        BY <2>1 DEF EnterClient, Section, At, pumps
      <4>2. \E d \in Conns : todo[Run] = Register(d)
        <5>1. todo[Run] \notin Seq(Later)
          <6>1. todo[Run] \in Seq(Later) => Head(todo[Run]) \in Later
            BY <4>1
          <6> QED
            BY <4>1, <6>1 DEF Later
        <5> QED
          BY <5>1, <1>types DEF IInv, EntersOnce
      <4> QED
        BY <4>1, <4>2 DEF Register, Entering
    <3>2. phase[c] # "new" /\ phase[c] # "gone"
      BY <2>1, <3>1, EntersFresh DEF LifeInv
    <3> QED
      BY <3>1, <3>2
  <2>2. CASE ~EnterClient(c)
    <3>1. c \in clients /\ ~RemoveClient(c)
      BY <1>4, <2>2, RegistryChanges DEF registry, EnterClient, RemoveClient
    <3>2. CASE phase[c] \notin {"new", "gone"}
      BY <3>2, <1>connect, <1>takes, <1>fails, PhaseMoves
    <3>3. CASE todo[Run] = Unregister(c)
      <4>1. todo[Run] # <<>> /\ Head(todo[Run]).op = "unregister"
            /\ Head(todo[Run]).conn = c
        BY <3>3, <1>busy
      <4>2. ASSUME NEW d \in Conns, Head(todo[Run]).conn = d,
                   EnterClient(d) \/ IgnoreUnregister(d) \/ RemoveClient(d)
            PROVE  FALSE
        BY <2>2, <3>1, <4>1, <4>2 DEF IgnoreUnregister
      <4> QED
        BY <3>3, <4>1, <4>2, RunStaysBusy
    <3> QED
      BY <3>1, <3>2, <3>3 DEF LifeInv, NoClientAbandoned
  <2> QED
    BY <2>1, <2>2
<1> QED
  BY <1>1, <1>2, <1>3, <1>4

----------------------------------------------------------------------------
(* Rooms to put back. *)

\* What a connection is given to do is plain.
LEMMA SendPlain ==
    ASSUME NEW S \in SUBSET Conns, NEW e \in BOOLEAN
    PROVE  Send(S, e) \in Seq(Plain)
<1> DEFINE j == [op |-> "send", to |-> S, evict |-> e]
<1>1. j \in [op : {"send"}, to : SUBSET Conns, evict : BOOLEAN]
  OBVIOUS
<1>2. j \in Plain
  BY <1>1 DEF Plain, Later, Jobs
<1>3. Send(S, e) = <<>> \/ Send(S, e) = <<j>>
  BY DEF Send
<1> HIDE DEF j
<1>4. <<>> \in Seq(Plain) /\ <<j>> \in Seq(Plain)
  BY <1>2
<1> QED
  BY <1>3, <1>4, Zenon

LEMMA RoomJobsPlain ==
    ASSUME NEW r \in RoomIDs, NEW u \in Usernames, NEW on \in BOOLEAN
    PROVE  /\ SendToRoom(r) \in Seq(Plain)
           /\ BroadcastRoomMeta(r) \in Seq(Plain)
           /\ BroadcastScreenState(r) \in Seq(Plain)
           /\ SendRoomMetaToClient(r) \in Seq(Plain)
           /\ SendScreenStateToClient(r) \in Seq(Plain)
           /\ SignalTo(r, u) \in Seq(Plain)
           /\ Share(r, on) \in Seq(Plain)
<1>1. [op |-> "toMembers", room |-> r] \in Plain
  BY DEF Plain, Later, Jobs
<1>2. /\ [op |-> "toSelf", room |-> r, evict |-> TRUE] \in Plain
      /\ [op |-> "toSelf", room |-> r, evict |-> FALSE] \in Plain
  BY DEF Plain, Later, Jobs
<1>3. [op |-> "signalTo", room |-> r, user |-> u] \in Plain
  BY DEF Plain, Later, Jobs
<1>4. [op |-> "share", room |-> r, on |-> on] \in Plain
  BY DEF Plain, Later, Jobs
<1> QED
  BY <1>1, <1>2, <1>3, <1>4
     DEF SendToRoom, BroadcastRoomMeta, BroadcastScreenState, ToMembers,
         SendRoomMetaToClient, SendScreenStateToClient, ToSelf, SignalTo, Share

LEMMA DirectPlain ==
    ASSUME NEW u \in Usernames
    PROVE  SendDirect(u) \in Seq(Plain)
<1>1. [op |-> "direct", user |-> u] \in Plain
  BY DEF Plain, Later, Jobs
<1> QED
  BY <1>1 DEF SendDirect

LEMMA ListRoomsPlain == ListRoomsJob \in Seq(Plain)
<1>1. [op |-> "listRooms"] \in Plain
  BY DEF Plain, Later, Jobs
<1> QED
  BY <1>1 DEF ListRoomsJob

LEMMA RehydratePlain ==
    ASSUME NEW rows \in SUBSET Rows
    PROVE  Rehydrate(rows) \in Seq(Plain)
<1> DEFINE j == [op |-> "rehydrate", rows |-> rows]
<1>1. j \in [op : {"rehydrate"}, rows : SUBSET Rows]
  OBVIOUS
<1>2. j \in Plain
  BY <1>1 DEF Plain, Later, Jobs
<1>3. Rehydrate(rows) = <<>> \/ Rehydrate(rows) = <<j>>
  BY DEF Rehydrate
<1> HIDE DEF j
<1>4. <<>> \in Seq(Plain) /\ <<j>> \in Seq(Plain)
  BY <1>2
<1> QED
  BY <1>3, <1>4, Zenon

LEMMA ConcatIn ==
    ASSUME NEW E, NEW s \in Seq(E), NEW t \in Seq(E)
    PROVE  s \o t \in Seq(E)
  OBVIOUS

LEMMA ConcatPlain ==
    ASSUME NEW s \in Seq(Plain), NEW t \in Seq(Plain)
    PROVE  s \o t \in Seq(Plain)
  BY ConcatIn

\* Whoever lets go of h.mu has nothing left to do.
LEMMA ReleasedIsIdle ==
    ASSUME IInv, HolderInv, RestoresInv, Next, NEW c \in Conns, mu = c, mu' # c
    PROVE  todo'[c] = <<>>
<1> USE DistinctAssumption
<1>types. /\ todo \in [Goroutines -> Seq(Jobs)] /\ Conns \subseteq Goroutines
          /\ ~Unlocked /\ mu' # mu
  BY DEF IInv, TypeOK, Goroutines, Unlocked
<1>crash. ASSUME Crash
          PROVE  todo'[c] = <<>>
  BY <1>crash, <1>types DEF Crash
<1>1. CASE RunStep
  BY <1>1, <1>crash, <1>types
     DEF RunStep, EnterClient, IgnoreUnregister, RemoveClient, RunPanics,
         RefreshRoom, BroadcastPresence, control
<1>2. ASSUME NEW g \in Goroutines, Proceed(g)
      PROVE  todo'[c] = <<>>
  <2>1. PICK d \in Conns : SendPanics(g, d)
    BY <1>2, <1>types DEF Proceed, SendStep, SendBuffered, SendDropped,
                          SendEvicts, CopyRecipients, control
  <2>2. g = c
    BY <2>1, <1>types DEF SendPanics
  <2> QED
    BY <2>1, <2>2, <1>types DEF SendPanics
<1>3. ASSUME NEW d \in Conns, ProceedConn(d)
      PROVE  todo'[c] = <<>>
  <2>1. Unlock(d)
    BY <1>3, <1>types DEF ProceedConn, ListRooms, RehydrateJoin, ForwardSignal,
                          UpdateScreenShareState, RestoreRoom, StartPumps, control
  <2>2. todo[d] # <<>> /\ Head(todo[d]).op = "unlock" /\ Then(d, <<>>)
    BY <2>1 DEF Unlock, At
  <2>3. d = c
    <3> SUFFICES ASSUME d # c PROVE FALSE
      OBVIOUS
    <3>1. todo[d] \in Seq(Plain)
      BY DEF RestoresInv
    <3>2. Head(todo[d]) \in Plain
      BY <2>2, <3>1
    <3> QED
      BY <2>2, <3>2 DEF Plain
  <2>4. todo[c] \in Seq(Jobs) /\ Guarded(todo[c])
    BY <1>types DEF HolderInv
  <2>5. Tail(todo[c]) = <<>>
    BY <2>2, <2>3, <2>4, GuardedHead
  <2>6. todo'[c] = <<>> \o <<>>
    BY <2>2, <2>3, <2>5, <1>types DEF Then
  <2> QED
    BY <2>6
<1>4. ASSUME NEW d \in Conns, HandleMessage(d)
      PROVE  FALSE
  BY <1>4, <1>types
     DEF HandleMessage, CreateRoom, JoinRoom, AddUserToRoom, CloseRoom,
         LeaveRoom, RoomMessage, VoiceState, WebRTCSignal, ScreenShare,
         DirectMessage, Realtime, Relay
<1>5. ASSUME NEW d \in Conns, Pumps(d)
      PROVE  todo'[c] = <<>>
  BY <1>5, <1>crash, <1>types
     DEF Pumps, Connect, Drain, WriterSeesClose, WriteFails, ReadFails,
         RunTakesUnregister, PanicEndsProcess, control
<1>6. CASE HttpHandlers \/ Restart
  BY <1>6, <1>types DEF HttpHandlers, PublishRoomMessage, PublishSocialEvent,
                        Publication, Restart
<1> QED
  BY <1>1, <1>2, <1>3, <1>4, <1>5, <1>6 DEF Next

\* A connection that does not hold h.mu has plain jobs only, and is given no
\* other ones unless closeRoom takes h.mu.
LEMMA PlainStays ==
    ASSUME IInv, RestoresInv, Next, NEW c \in Conns, mu # c, mu' # c
    PROVE  todo'[c] \in Seq(Plain)
<1> DEFINE Goal == todo'[c] \in Seq(Plain)
<1> USE DistinctAssumption
<1>types. /\ todo \in [Goroutines -> Seq(Jobs)] /\ Conns \subseteq Goroutines
          /\ Run \in Goroutines /\ c # Run /\ c # Http /\ c \in Goroutines
          /\ todo[c] \in Seq(Plain) /\ NameOf[c] \in Usernames
          /\ rooms \in [RoomIDs -> SUBSET Conns] /\ users \in [Usernames -> SUBSET Conns]
  BY NameAssumption DEF IInv, TypeOK, Goroutines, RestoresInv
<1>none. <<>> \in Seq(Plain)
  OBVIOUS
<1>same. ASSUME todo'[c] = todo[c]
         PROVE  Goal
  BY <1>same, <1>types
<1>rest. ASSUME todo[c] # <<>>
         PROVE  Tail(todo[c]) \in Seq(Plain) /\ Head(todo[c]) \in Plain
  BY <1>rest, <1>types
<1>then. ASSUME NEW jobs \in Seq(Plain), todo[c] # <<>>, Then(c, jobs)
         PROVE  Goal
  <2>1. todo'[c] = jobs \o Tail(todo[c])
    BY <1>then, <1>types DEF Then
  <2> QED
    BY <1>then, <1>rest, <2>1, ConcatPlain
<1>given. ASSUME NEW jobs \in Seq(Plain), Reply(c, jobs)
          PROVE  Goal
  BY <1>given, <1>types DEF Reply
<1>other. ASSUME NEW g, g # c,
                 \/ \E jobs : Then(g, jobs)
                 \/ \E jobs : todo' = [todo EXCEPT ![g] = jobs]
          PROVE  Goal
  <2>1. todo'[c] = todo[c]
    BY <1>other, <1>types DEF Then
  <2> QED
    BY <2>1, <1>same
<1>crash. ASSUME Crash
          PROVE  Goal
  BY <1>crash, <1>types, <1>none DEF Crash
<1>self. ASSUME NEW e \in BOOLEAN
         PROVE  Send({c}, e) \in Seq(Plain)
  BY SendPlain
<1>system. SendSystem(c) \in Seq(Plain)
  BY <1>self DEF SendSystem
<1>1. CASE RunStep
  <2>1. \/ \E jobs : Then(Run, jobs)
        \/ \E jobs : todo' = [todo EXCEPT ![Run] = jobs]
        \/ Crash
    BY <1>1 DEF RunStep, EnterClient, IgnoreUnregister, RemoveClient,
                RunPanics, RefreshRoom, BroadcastPresence
  <2> QED
    BY <2>1, <1>types, <1>other, <1>crash
<1>2. ASSUME NEW g \in Goroutines, Proceed(g)
      PROVE  Goal
  <2>1. ASSUME CopyRecipients(g), g = c
        PROVE  Goal
    <3>1. todo[c] # <<>>
      BY <2>1 DEF CopyRecipients
    <3>2. Head(todo[c]) \in Jobs
      BY <3>1, <1>rest DEF Plain, Later
    <3>3. /\ Head(todo[c]).op = "toMembers" =>
               Send(rooms[Head(todo[c]).room], TRUE) \in Seq(Plain)
          /\ Head(todo[c]).op = "direct" =>
               Send(users[Head(todo[c]).user], TRUE) \in Seq(Plain)
          /\ Head(todo[c]).op = "toSelf" =>
               (IF rooms[Head(todo[c]).room] = {} THEN <<>>
                ELSE Send({c}, Head(todo[c]).evict)) \in Seq(Plain)
      <4>1. /\ Head(todo[c]).op = "toMembers" =>
                 rooms[Head(todo[c]).room] \in SUBSET Conns
            /\ Head(todo[c]).op = "direct" =>
                 users[Head(todo[c]).user] \in SUBSET Conns
            /\ Head(todo[c]).op = "toSelf" => Head(todo[c]).evict \in BOOLEAN
        BY <3>2, <1>types, JobFields
      <4> QED
        BY <4>1, <1>self, <1>none, SendPlain
    <3>4. \/ /\ Head(todo[c]).op = "toMembers"
             /\ Then(c, Send(rooms[Head(todo[c]).room], TRUE))
          \/ /\ Head(todo[c]).op = "direct"
             /\ Then(c, Send(users[Head(todo[c]).user], TRUE))
          \/ /\ Head(todo[c]).op = "toSelf"
             /\ Then(c, IF rooms[Head(todo[c]).room] = {} THEN <<>>
                        ELSE Send({c}, Head(todo[c]).evict))
      BY <2>1 DEF CopyRecipients
    <3> QED
      BY <3>1, <3>3, <3>4, <1>then
  <2>2. ASSUME CopyRecipients(g), g # c
        PROVE  Goal
    <3>1. \E jobs : Then(g, jobs)
      BY <2>2 DEF CopyRecipients
    <3> QED
      BY <2>2, <3>1, <1>other
  <2>3. ASSUME NEW d \in Conns, SendPanics(g, d)
        PROVE  Goal
    <3>1. todo' = [todo EXCEPT ![g] = <<>>]
      BY <2>3 DEF SendPanics
    <3> QED
      BY <3>1, <1>types, <1>none
  <2>4. ASSUME NEW d \in Conns,
               SendBuffered(g, d) \/ SendDropped(g, d) \/ SendEvicts(g, d)
        PROVE  Goal
    <3>1. todo[g] # <<>> /\ Head(todo[g]).op = "send"
      BY <2>4 DEF SendBuffered, SendDropped, SendEvicts, SendsTo, At
    <3>2. /\ g = c => todo'[c] = Sent(c, d) \o Tail(todo[c])
          /\ g # c => todo'[c] = todo[c]
      <4>1. CASE SendBuffered(g, d) \/ SendDropped(g, d)
        BY <4>1, <1>types DEF SendBuffered, SendDropped, Then
      <4>2. CASE SendEvicts(g, d)
        BY <4>2, <1>types DEF SendEvicts
      <4> QED
        BY <2>4, <4>1, <4>2
    <3>3. CASE g = c
      <4>1. Head(todo[c]) \in Jobs
        BY <3>1, <3>3, <1>rest DEF Plain, Later
      <4>2. Head(todo[c]).to \ {d} \in SUBSET Conns /\ Head(todo[c]).evict \in BOOLEAN
        BY <3>1, <3>3, <4>1, JobFields
      <4>3. Sent(c, d) \in Seq(Plain)
        BY <4>2, SendPlain DEF Sent
      <4> QED
        BY <3>1, <3>2, <3>3, <4>3, <1>rest, ConcatPlain
    <3> QED
      BY <3>2, <3>3, <1>same
  <2> QED
    BY <1>2, <2>1, <2>2, <2>3, <2>4 DEF Proceed, SendStep
<1>3. ASSUME NEW d \in Conns, ProceedConn(d), d # c
      PROVE  Goal
  <2>1. todo' = todo \/ \E jobs : Then(d, jobs)
    BY <1>3 DEF ProceedConn, ListRooms, RehydrateJoin, ForwardSignal,
                UpdateScreenShareState, RestoreRoom, Unlock, StartPumps
  <2> QED
    BY <1>3, <2>1, <1>same, <1>other
<1>4. CASE ProceedConn(c)
  <2>1. ASSUME ListRooms(c)
        PROVE  Goal
    <3>1. PICK rows \in SUBSET Rows :
            \/ Then(c, Rehydrate(rows) \o Send({c}, FALSE))
            \/ Then(c, <<>>)
      <4> DEFINE mine == {r \in RoomIDs :
                            dbOwner[r] # NoOne /\ NameOf[c] \in dbMembers[r]}
                 rows == {[room |-> r, owner |-> dbOwner[r]] : r \in mine}
      <4>1. \A r \in mine : dbOwner[r] \in Usernames
        BY DEF IInv, TypeOK
      <4>2. rows \in SUBSET Rows
        BY <4>1 DEF Rows
      <4>3. \/ Then(c, Rehydrate(rows) \o Send({c}, FALSE))
            \/ Then(c, <<>>)
        BY <2>1 DEF ListRooms
      <4> HIDE DEF rows
      <4> QED
        BY <4>2, <4>3
    <3>2. Rehydrate(rows) \o Send({c}, FALSE) \in Seq(Plain)
      BY <1>self, RehydratePlain, ConcatPlain
    <3> QED
      BY <2>1, <3>1, <3>2, <1>none, <1>then DEF ListRooms, At
  <2>2. ASSUME NEW row \in Rows, RehydrateJoin(c, row)
        PROVE  Goal
    <3>1. row.room \in RoomIDs
      BY DEF Rows
    <3>2. /\ BroadcastRoomMeta(row.room) \in Seq(Plain)
          /\ SendRoomMetaToClient(row.room) \in Seq(Plain)
          /\ SendScreenStateToClient(row.room) \in Seq(Plain)
      BY <3>1, <1>types, RoomJobsPlain
    <3>3. Rehydrate(Head(todo[c]).rows \ {row}) \in Seq(Plain)
      <4>1. todo[c] # <<>> /\ Head(todo[c]).op = "rehydrate"
        BY <2>2 DEF RehydrateJoin, Section, At
      <4>2. Head(todo[c]) \in Jobs
        BY <4>1, <1>rest DEF Plain, Later
      <4>3. Head(todo[c]).rows \in SUBSET Rows
        BY <4>1, <4>2, JobFields
      <4> QED
        BY <4>3, RehydratePlain
    <3>4. PICK news \in {<<>>, BroadcastRoomMeta(row.room)},
               history \in {<<>>, Send({c}, FALSE)} :
            Then(c, news \o (SendRoomMetaToClient(row.room)
                             \o SendScreenStateToClient(row.room))
                      \o history \o Rehydrate(Head(todo[c]).rows \ {row}))
      BY <2>2 DEF RehydrateJoin
    <3>5. news \in Seq(Plain) /\ history \in Seq(Plain)
      BY <3>2, <1>none, <1>self
    <3>6. SendRoomMetaToClient(row.room) \o SendScreenStateToClient(row.room)
            \in Seq(Plain)
      BY <3>2, ConcatPlain
    <3>7. news \o (SendRoomMetaToClient(row.room)
                   \o SendScreenStateToClient(row.room)) \in Seq(Plain)
      BY <3>5, <3>6, ConcatPlain
    <3>8. news \o (SendRoomMetaToClient(row.room)
                   \o SendScreenStateToClient(row.room)) \o history \in Seq(Plain)
      BY <3>5, <3>7, ConcatPlain
    <3>9. news \o (SendRoomMetaToClient(row.room)
                   \o SendScreenStateToClient(row.room))
            \o history \o Rehydrate(Head(todo[c]).rows \ {row}) \in Seq(Plain)
      BY <3>3, <3>8, ConcatPlain
    <3> QED
      BY <2>2, <3>4, <3>9, <1>then DEF RehydrateJoin, Section, At
  <2>3. ASSUME ForwardSignal(c)
        PROVE  Goal
    <3>1. \/ \E d \in rooms[Head(todo[c]).room] : Then(c, Send({d}, TRUE))
          \/ Then(c, SendSystem(c))
      BY <2>3 DEF ForwardSignal
    <3>2. Head(todo[c]).room \in RoomIDs /\ todo[c] # <<>>
      <4>1. todo[c] # <<>> /\ Head(todo[c]).op = "signalTo"
        BY <2>3 DEF ForwardSignal, Section, At
      <4>2. Head(todo[c]) \in Jobs
        BY <4>1, <1>rest DEF Plain, Later
      <4> QED
        BY <4>1, <4>2, JobFields
    <3>3. \A d \in rooms[Head(todo[c]).room] : Send({d}, TRUE) \in Seq(Plain)
      BY <3>2, <1>types, SendPlain
    <3> QED
      BY <3>1, <3>2, <3>3, <1>system, <1>then
  <2>4. ASSUME UpdateScreenShareState(c) \/ Unlock(c) \/ RestoreRoom(c)
        PROVE  Goal
    <3>1. Then(c, <<>>) /\ todo[c] # <<>>
      BY <2>4 DEF UpdateScreenShareState, Unlock, RestoreRoom, Section, At
    <3> QED
      BY <3>1, <1>none, <1>then
  <2>5. ASSUME StartPumps(c)
        PROVE  Goal
    BY <2>5, <1>same DEF StartPumps
  <2> QED
    BY <1>4, <2>1, <2>2, <2>3, <2>4, <2>5 DEF ProceedConn
<1>5. ASSUME NEW d \in Conns, HandleMessage(d), d # c
      PROVE  Goal
  <2>1. \E jobs : Reply(d, jobs)
    BY <1>5 DEF HandleMessage, CreateRoom, JoinRoom, AddUserToRoom, CloseRoom,
                LeaveRoom, RoomMessage, VoiceState, WebRTCSignal, ScreenShare,
                DirectMessage, Realtime, Relay
  <2> QED
    BY <1>5, <2>1, <1>other DEF Reply
<1>6. CASE HandleMessage(c)
  <2> SUFFICES \E jobs \in Seq(Plain) : Reply(c, jobs)
    BY <1>given
  <2>closed. \A r \in RoomIDs : ~CloseRoom(c, r)
    BY DEF CloseRoom
  <2>1. ASSUME NEW r \in RoomIDs, CreateRoom(c, r) \/ JoinRoom(c, r)
        PROVE  \E jobs \in Seq(Plain) : Reply(c, jobs)
    <3>1. BroadcastRoomMeta(r) \in Seq(Plain)
      BY <1>types, RoomJobsPlain
    <3>2. SendSystem(c) \o BroadcastRoomMeta(r) \in Seq(Plain)
      BY <3>1, <1>system, ConcatPlain
    <3>3. Reply(c, SendSystem(c)) \/ Reply(c, SendSystem(c) \o BroadcastRoomMeta(r))
      BY <2>1 DEF CreateRoom, JoinRoom
    <3> QED
      BY <3>2, <3>3, <1>system
  <2>2. ASSUME NEW r \in RoomIDs, NEW u \in Usernames, AddUserToRoom(c, r, u)
        PROVE  \E jobs \in Seq(Plain) : Reply(c, jobs)
    <3>1. CASE Reply(c, SendSystem(c))
      BY <3>1, <1>system
    <3>2. CASE \E d \in users[u] :
                 Reply(c, SendSystem(c) \o SendSystem(d)
                            \o SocialEvent(NameOf[c], u) \o BroadcastRoomMeta(r))
      <4>1. PICK d \in users[u] :
                 Reply(c, SendSystem(c) \o SendSystem(d)
                            \o SocialEvent(NameOf[c], u) \o BroadcastRoomMeta(r))
        BY <3>2
      <4>2. SendSystem(d) \in Seq(Plain)
        BY <1>types, SendPlain DEF SendSystem
      <4>3. SocialEvent(NameOf[c], u) \in Seq(Plain)
        BY <1>types, DirectPlain, ConcatPlain DEF SocialEvent
      <4>4. BroadcastRoomMeta(r) \in Seq(Plain)
        BY <1>types, RoomJobsPlain
      <4>5. SendSystem(c) \o SendSystem(d) \in Seq(Plain)
        BY <4>2, <1>system, ConcatPlain
      <4>6. SendSystem(c) \o SendSystem(d) \o SocialEvent(NameOf[c], u) \in Seq(Plain)
        BY <4>3, <4>5, ConcatPlain
      <4>7. SendSystem(c) \o SendSystem(d) \o SocialEvent(NameOf[c], u)
              \o BroadcastRoomMeta(r) \in Seq(Plain)
        BY <4>4, <4>6, ConcatPlain
      <4> QED
        BY <4>1, <4>7
    <3> QED
      BY <2>2, <3>1, <3>2 DEF AddUserToRoom
  <2>3. ASSUME NEW r \in RoomIDs, LeaveRoom(c, r)
        PROVE  \E jobs \in Seq(Plain) : Reply(c, jobs)
    <3>1. \/ Reply(c, <<>> \o SendSystem(c))
          \/ Reply(c, (BroadcastRoomMeta(r) \o BroadcastScreenState(r)) \o SendSystem(c))
      BY <2>3 DEF LeaveRoom
    <3>2. BroadcastRoomMeta(r) \o BroadcastScreenState(r) \in Seq(Plain)
      BY <1>types, RoomJobsPlain, ConcatPlain
    <3>3. (BroadcastRoomMeta(r) \o BroadcastScreenState(r)) \o SendSystem(c) \in Seq(Plain)
      BY <3>2, <1>system, ConcatPlain
    <3>4. <<>> \o SendSystem(c) \in Seq(Plain)
      BY <1>none, <1>system, ConcatPlain
    <3> QED
      BY <3>1, <3>3, <3>4
  <2>4. ASSUME NEW r \in RoomIDs, NEW u \in Usernames, NEW on \in BOOLEAN,
               \/ RoomMessage(c, r) \/ VoiceState(c, r)
               \/ WebRTCSignal(c, r, u) \/ ScreenShare(c, r, on)
        PROVE  \E jobs \in Seq(Plain) : Reply(c, jobs)
    <3>1. /\ SendToRoom(r) \in Seq(Plain) /\ SignalTo(r, u) \in Seq(Plain)
          /\ Share(r, on) \in Seq(Plain) /\ BroadcastScreenState(r) \in Seq(Plain)
      BY RoomJobsPlain
    <3>2. SendToRoom(r) \o Share(r, on) \in Seq(Plain)
      BY <3>1, ConcatPlain
    <3>3. SendToRoom(r) \o Share(r, on) \o BroadcastScreenState(r) \in Seq(Plain)
      BY <3>1, <3>2, ConcatPlain
    <3>4. \/ Reply(c, SendToRoom(r)) \/ Reply(c, SignalTo(r, u))
          \/ Reply(c, SendSystem(c))
          \/ Reply(c, SendToRoom(r) \o Share(r, on) \o BroadcastScreenState(r))
      BY <2>4 DEF RoomMessage, VoiceState, WebRTCSignal, ScreenShare, Realtime,
                  Relay
    <3> QED
      BY <3>1, <3>3, <3>4, <1>system
  <2>5. ASSUME NEW u \in Usernames, DirectMessage(c, u)
        PROVE  \E jobs \in Seq(Plain) : Reply(c, jobs)
    BY <2>5, DirectPlain DEF DirectMessage, Relay
  <2>6. ASSUME NEW r \in RoomIDs,
               \/ RoomMessage(c, r) \/ VoiceState(c, r)
               \/ \E u \in Usernames : WebRTCSignal(c, r, u)
               \/ \E on \in BOOLEAN : ScreenShare(c, r, on)
        PROVE  \E jobs \in Seq(Plain) : Reply(c, jobs)
    BY <2>4, <2>6, <1>types
  <2> QED
    BY <1>6, <2>closed, <2>1, <2>2, <2>3, <2>5, <2>6 DEF HandleMessage
<1>7. ASSUME NEW d \in Conns, Pumps(d)
      PROVE  Goal
  <2>1. CASE Connect(d)
    <3>1. todo'[c] = todo[c] \/ todo'[c] = ListRoomsJob
      BY <2>1, <1>types DEF Connect
    <3> QED
      BY <3>1, <1>same, ListRoomsPlain
  <2>2. CASE RunTakesUnregister(d)
    <3>1. todo'[c] = todo[c]
      BY <2>2, <1>types DEF RunTakesUnregister
    <3> QED
      BY <3>1, <1>same
  <2>3. CASE Drain(d) \/ WriterSeesClose(d) \/ WriteFails(d) \/ ReadFails(d)
    BY <2>3, <1>same DEF Drain, WriterSeesClose, WriteFails, ReadFails
  <2>4. CASE PanicEndsProcess(d)
    BY <2>4, <1>crash DEF PanicEndsProcess
  <2> QED
    BY <1>7, <2>1, <2>2, <2>3, <2>4 DEF Pumps
<1>8. CASE HttpHandlers
  <2>1. \E jobs : Publication(jobs)
    BY <1>8 DEF HttpHandlers, PublishRoomMessage, PublishSocialEvent
  <2> QED
    BY <2>1, <1>types, <1>other DEF Publication
<1>9. CASE Restart
  BY <1>9, <1>same DEF Restart
<1> QED
  BY <1>1, <1>2, <1>3, <1>4, <1>5, <1>6, <1>7, <1>8, <1>9 DEF Next

\* While h.mu is held, what was to be put back stays true.
LEMMA KeptStays ==
    ASSUME IInv, Next, NEW c \in Conns, mu = c, mu' = c
    PROVE  Kept \subseteq Kept'
<1> USE DistinctAssumption
<1>types. ~Unlocked /\ mu' # NoOne
  BY DEF Unlocked
<1>crash. ~Crash
  BY <1>types DEF Crash
<1>1. ASSUME NEW d \in Conns, Covered(d)
      PROVE  Covered(d)'
  <2>1. ~RemoveClient(d)
    BY <1>types DEF RemoveClient, Section
  <2> QED
    BY <1>1, <1>crash, <2>1, CoveredKept
<1>2. UNCHANGED <<stale, dbOwner, dbMembers>>
  <2>1. CASE RunStep
    BY <2>1, <1>types, <1>crash
       DEF RunStep, EnterClient, IgnoreUnregister, RemoveClient, RunPanics,
           RefreshRoom, BroadcastPresence, Section, data, roomState, database
  <2>2. ASSUME NEW g \in Goroutines, Proceed(g)
        PROVE  UNCHANGED <<stale, dbOwner, dbMembers>>
    BY <2>2 DEF Proceed, SendStep, SendBuffered, SendDropped, SendEvicts,
                SendPanics, CopyRecipients, data, roomState, database
  <2>3. ASSUME NEW d \in Conns, ProceedConn(d)
        PROVE  UNCHANGED <<stale, dbOwner, dbMembers>>
    BY <2>3, <1>types
       DEF ProceedConn, ListRooms, RehydrateJoin, ForwardSignal,
           UpdateScreenShareState, RestoreRoom, Unlock, StartPumps, Section,
           data, roomState, database
  <2>4. ASSUME NEW d \in Conns, HandleMessage(d)
        PROVE  UNCHANGED <<stale, dbOwner, dbMembers>>
    BY <2>4, <1>types
       DEF HandleMessage, CreateRoom, JoinRoom, AddUserToRoom, CloseRoom,
           LeaveRoom, RoomMessage, VoiceState, WebRTCSignal, ScreenShare,
           DirectMessage, Realtime, Relay, data, roomState, database
  <2>5. ASSUME NEW d \in Conns, Pumps(d)
        PROVE  UNCHANGED <<stale, dbOwner, dbMembers>>
    BY <2>5, <1>crash
       DEF Pumps, Connect, Drain, WriterSeesClose, WriteFails, ReadFails,
           RunTakesUnregister, PanicEndsProcess, data, roomState, database
  <2>6. CASE HttpHandlers \/ Restart
    BY <2>6 DEF HttpHandlers, PublishRoomMessage, PublishSocialEvent,
                Publication, Restart, data, roomState, database
  <2> QED
    BY <2>1, <2>2, <2>3, <2>4, <2>5, <2>6 DEF Next
<1>3. ASSUME NEW j \in Jobs, j.op = "restore", PutBack(j)
      PROVE  PutBack(j)'
  <2>1. j.to \in SUBSET Conns
    BY <1>3, JobFields
  <2>2. \A d \in j.to : Covered(d)'
    BY <1>1, <1>3, <2>1 DEF PutBack
  <2>3. j.room \notin stale' => /\ \A d \in j.to : NameOf[d] \in dbMembers'[j.room]
                                /\ j.user = dbOwner'[j.room]
    BY <1>2, <1>3 DEF PutBack
  <2> QED
    BY <2>2, <2>3 DEF PutBack
<1> QED
  BY <1>3 DEF Kept

LEMMA PlainIsKept == Plain \subseteq Kept /\ Plain \subseteq Kept'
  BY DEF Plain, Later, Kept

\* What closeRoom puts back is what it took away.
LEMMA ClosingIsKept ==
    ASSUME IInv, MembersAreConnected, DatabaseKnowsRooms,
           NEW c \in Conns, NEW r \in RoomIDs, CloseRoom(c, r)
    PROVE  todo'[c] \in Seq(Kept')
<1> USE NameAssumption, DistinctAssumption
<1>types. /\ todo \in [Goroutines -> Seq(Jobs)] /\ Conns \subseteq Goroutines
          /\ Run \in Goroutines /\ c # Run /\ NameOf[c] \in Usernames
          /\ rooms[r] \in SUBSET Conns
          /\ \A u \in Usernames : u # NoOne
  BY DEF IInv, TypeOK, Goroutines
<1>members. PICK ms \in SUBSET Conns : ms = rooms[r]
  BY <1>types
<1> DEFINE j == [op |-> "restore", room |-> r, to |-> ms, user |-> NameOf[c]]
<1>1. /\ UNCHANGED <<clients, evicted, stale>>
      /\ \E jobs : Reply(c, jobs)
  BY DEF CloseRoom, registry
<1>2. todo'[Run] = todo[Run]
  BY <1>1, <1>types DEF Reply
<1>3. \A d \in Conns : Covered(d) => Covered(d)'
  BY <1>1, <1>2 DEF Covered, Entering
<1>plain. /\ SendSystem(c) \in Seq(Kept')
          /\ Send(rooms[r], TRUE) \in Seq(Kept')
  <2>1. Seq(Plain) \subseteq Seq(Kept')
    BY PlainIsKept
  <2> QED
    BY <2>1, <1>types, SendPlain DEF SendSystem
<1>unlock. UnlockJob \in Seq(Kept')
  <2>1. [op |-> "unlock"] \in Kept'
    BY DEF Kept, Jobs
  <2> QED
    BY <2>1 DEF UnlockJob
<1>restore. ASSUME roomOwners[r] = NameOf[c], UNCHANGED database
            PROVE  Restore(r, ms, NameOf[c]) \in Seq(Kept')
  <2>1. j \in Jobs
    <3>1. j \in [op : {"restore"}, room : RoomIDs, to : SUBSET Conns,
                 user : Usernames]
      BY <1>types
    <3> QED
      BY <3>1 DEF Jobs
  <2>2. \A d \in ms : Covered(d)'
    BY <1>3, <1>members DEF MembersAreConnected, Covered
  <2>3. r \notin stale' => /\ \A d \in ms : NameOf[d] \in dbMembers'[r]
                           /\ NameOf[c] = dbOwner'[r]
    BY <1>1, <1>restore, <1>types, <1>members DEF DatabaseKnowsRooms, database
  <2>4. PutBack(j)'
    BY <2>2, <2>3 DEF PutBack
  <2>5. j \in Kept'
    BY <2>1, <2>4 DEF Kept
  <2> QED
    BY <2>5 DEF Restore
<1>4. CASE Reply(c, RefuseThenUnlock(c))
  <2>1. todo'[c] = SendSystem(c) \o UnlockJob
    BY <1>4, <1>types DEF Reply, RefuseThenUnlock
  <2> QED
    BY <2>1, <1>plain, <1>unlock
<1>5. CASE /\ roomOwners[r] = NameOf[c] /\ UNCHANGED database
           /\ Reply(c, SendSystem(c) \o Restore(r, rooms[r], NameOf[c]) \o UnlockJob)
  <2>1. todo'[c] = SendSystem(c) \o Restore(r, ms, NameOf[c]) \o UnlockJob
    BY <1>5, <1>types, <1>members DEF Reply
  <2> QED
    BY <2>1, <1>5, <1>plain, <1>unlock, <1>restore
<1>6. CASE Reply(c, NoticeThenUnlock(r))
  <2>1. todo'[c] = Send(rooms[r], TRUE) \o UnlockJob
    BY <1>6, <1>types DEF Reply, NoticeThenUnlock
  <2>2. Send(rooms[r], TRUE) \o UnlockJob \in Seq(Kept')
    BY <1>plain, <1>unlock, ConcatIn
  <2> QED
    BY <2>1, <2>2
<1>7. \/ Reply(c, RefuseThenUnlock(c))
      \/ /\ roomOwners[r] = NameOf[c] /\ UNCHANGED database
         /\ Reply(c, SendSystem(c) \o Restore(r, rooms[r], NameOf[c]) \o UnlockJob)
      \/ Reply(c, NoticeThenUnlock(r))
  BY DEF CloseRoom
<1> QED
  BY <1>4, <1>5, <1>6, <1>7

LEMMA RestoresStep ==
    ASSUME IInv, HolderInv, RestoresInv, MembersAreConnected,
           DatabaseKnowsRooms, Next
    PROVE  RestoresInv'
<1> SUFFICES ASSUME NEW c \in Conns
             PROVE  /\ mu' # c => todo'[c] \in Seq(Plain)
                    /\ mu' = c => todo'[c] \in Seq(Kept')
  BY DEF RestoresInv
<1>1. CASE mu' # c
  <2>1. <<>> \in Seq(Plain)
    OBVIOUS
  <2> QED
    BY <1>1, <2>1, PlainStays, ReleasedIsIdle
<1>2. CASE mu' = c /\ mu = c
  <2>1. todo[c] \in Seq(Kept') /\ todo[c] \in Seq(Jobs) /\ todo[c] # <<>>
    <3>1. todo[c] \in Seq(Kept)
      BY <1>2 DEF RestoresInv
    <3>2. todo[c] \in Seq(Jobs) /\ Guarded(todo[c])
      BY <1>2 DEF IInv, TypeOK, Goroutines, HolderInv
    <3>3. todo[c] # <<>>
      BY <3>2, GuardedHead
    <3> QED
      BY <3>1, <3>2, <3>3, <1>2, KeptStays
  <2>2. Tail(todo[c]) \in Seq(Kept')
    BY <2>1
  <2>3. ASSUME NEW S \in SUBSET Conns, NEW e \in BOOLEAN
        PROVE  Send(S, e) \o Tail(todo[c]) \in Seq(Kept')
    <3>1. Send(S, e) \in Seq(Plain)
      BY SendPlain
    <3>2. Send(S, e) \in Seq(Kept')
      BY <3>1, PlainIsKept
    <3> QED
      BY <2>2, <3>2
  <2>4. \/ todo'[c] = todo[c]
        \/ todo'[c] = Tail(todo[c])
        \/ \E S \in SUBSET Conns, e \in BOOLEAN :
             todo'[c] = Send(S, e) \o Tail(todo[c])
    BY <1>2, HolderMoves DEF HolderInv
  <2> QED
    BY <1>2, <2>1, <2>2, <2>3, <2>4
<1>3. CASE mu' = c /\ mu # c
  BY <1>3, OnlyCloseRoomLocks, ClosingIsKept
<1> QED
  BY <1>1, <1>2, <1>3

----------------------------------------------------------------------------
(* Members and rows. *)

\* The steps that change who is in a room, or what the database says of it.
LEMMA RoomsMove ==
    ASSUME IInv, Next
    PROVE  \/ UNCHANGED <<rooms, roomOwners, stale, dbOwner, dbMembers>>
           \/ Crash
           \/ \E c \in Conns : RemoveClient(c) \/ RestoreRoom(c)
           \/ \E c \in Conns, row \in Rows : RehydrateJoin(c, row)
           \/ \E c \in Conns, r \in RoomIDs :
                CreateRoom(c, r) \/ JoinRoom(c, r) \/ CloseRoom(c, r) \/ LeaveRoom(c, r)
           \/ \E c \in Conns, r \in RoomIDs, u \in Usernames : AddUserToRoom(c, r, u)
<1> DEFINE Same == UNCHANGED <<rooms, roomOwners, stale, dbOwner, dbMembers>>
           Goal ==
             \/ Same
             \/ Crash
             \/ \E c \in Conns : RemoveClient(c) \/ RestoreRoom(c)
             \/ \E c \in Conns, row \in Rows : RehydrateJoin(c, row)
             \/ \E c \in Conns, r \in RoomIDs :
                  CreateRoom(c, r) \/ JoinRoom(c, r) \/ CloseRoom(c, r) \/ LeaveRoom(c, r)
             \/ \E c \in Conns, r \in RoomIDs, u \in Usernames : AddUserToRoom(c, r, u)
<1>same. ASSUME UNCHANGED data PROVE Same
  BY <1>same DEF data, roomState, database
<1>1. CASE RunStep
  <2>1. ASSUME NEW c \in Conns, EnterClient(c) PROVE Same
    BY <2>1 DEF EnterClient, roomState, database
  <2>2. ASSUME BroadcastPresence PROVE Same
    BY <2>2 DEF BroadcastPresence, roomState, database
  <2>3. ASSUME NEW c \in Conns, IgnoreUnregister(c) PROVE Same
    BY <2>3, <1>same DEF IgnoreUnregister
  <2>4. ASSUME NEW r \in RoomIDs, RefreshRoom(r) PROVE Same
    BY <2>4, <1>same DEF RefreshRoom
  <2> QED
    BY <1>1, <2>1, <2>2, <2>3, <2>4 DEF RunStep, RunPanics
<1>2. ASSUME NEW g \in Goroutines, Proceed(g)
      PROVE  Same
  BY <1>2, <1>same DEF Proceed, SendStep, SendBuffered, SendDropped,
                       SendEvicts, SendPanics, CopyRecipients
<1>3. ASSUME NEW c \in Conns, ProceedConn(c)
      PROVE  Goal
  <2>1. ASSUME UpdateScreenShareState(c) PROVE Same
    BY <2>1 DEF UpdateScreenShareState, database
  <2>2. ASSUME ListRooms(c) \/ ForwardSignal(c) \/ Unlock(c) \/ StartPumps(c)
        PROVE  Same
    BY <2>2, <1>same DEF ListRooms, ForwardSignal, Unlock, StartPumps
  <2> QED
    BY <1>3, <2>1, <2>2 DEF ProceedConn
<1>4. ASSUME NEW c \in Conns, HandleMessage(c)
      PROVE  Goal
  <2>1. ASSUME NEW type, NEW jobs, Relay(c, type, jobs)
        PROVE  Same
    BY <2>1, <1>same DEF Relay
  <2>2. ASSUME NEW r \in RoomIDs,
               \/ RoomMessage(c, r) \/ VoiceState(c, r)
               \/ \E u \in Usernames : WebRTCSignal(c, r, u)
               \/ \E on \in BOOLEAN : ScreenShare(c, r, on)
        PROVE  Same
    BY <2>2, <2>1
       DEF RoomMessage, VoiceState, WebRTCSignal, ScreenShare, Realtime
  <2>3. ASSUME NEW u \in Usernames, DirectMessage(c, u)
        PROVE  Same
    BY <2>3, <2>1 DEF DirectMessage
  <2> QED
    BY <1>4, <2>2, <2>3 DEF HandleMessage
<1>5. ASSUME NEW c \in Conns, Pumps(c)
      PROVE  Goal
  <2>1. ASSUME ~PanicEndsProcess(c) PROVE Same
    BY <1>5, <2>1, <1>same DEF Pumps, Connect, Drain, WriterSeesClose,
                               WriteFails, ReadFails, RunTakesUnregister
  <2> QED
    BY <2>1 DEF PanicEndsProcess
<1>6. CASE HttpHandlers \/ Restart
  BY <1>6, <1>same DEF HttpHandlers, PublishRoomMessage, PublishSocialEvent,
                       Publication, Restart
<1> QED
  BY <1>1, <1>2, <1>3, <1>4, <1>5, <1>6 DEF Next

\* Only a connection that is covered enters a room.
LEMMA MembersStep ==
    ASSUME IInv, LifeInv, HolderInv, RestoresInv, MembersAreConnected, Next
    PROVE  MembersAreConnected'
<1> USE NameAssumption, DistinctAssumption
<1>types. /\ rooms \in [RoomIDs -> SUBSET Conns]
          /\ users \in [Usernames -> SUBSET Conns] /\ clients \subseteq Conns
          /\ todo \in [Goroutines -> Seq(Jobs)]
          /\ Run \in Goroutines /\ Conns \subseteq Goroutines
          /\ \A c \in Conns : c # Run
  BY DEF IInv, TypeOK, Goroutines
<1> SUFFICES ASSUME NEW r \in RoomIDs, NEW d \in rooms'[r]
             PROVE  Covered(d)'
  BY DEF MembersAreConnected, Covered, Entering
<1>conn. d \in Conns
  BY TypeStep DEF TypeOK
<1>crash. ~Crash
  BY DEF Crash
<1>running. ASSUME Running(d)
            PROVE  Covered(d)
  BY <1>running, <1>conn DEF LifeInv
<1>stays. ~RemoveClient(d)
  <2> SUFFICES ASSUME RemoveClient(d) PROVE FALSE
    OBVIOUS
  <2>1. rooms'[r] = rooms[r] \ {d}
    BY DEF RemoveClient, RoomsWithout
  <2> QED
    BY <2>1
<1>kept. ASSUME Covered(d)
         PROVE  Covered(d)'
  BY <1>kept, <1>conn, <1>crash, <1>stays, CoveredKept
<1>before. ASSUME d \in rooms[r]
           PROVE  Covered(d)'
  BY <1>before, <1>kept DEF MembersAreConnected, Covered
<1>1. CASE UNCHANGED rooms
  BY <1>1, <1>before
<1>2. ASSUME NEW c \in Conns, RemoveClient(c)
      PROVE  Covered(d)'
  <2>1. rooms'[r] = rooms[r] \ {c}
    BY <1>2 DEF RemoveClient, RoomsWithout
  <2> QED
    BY <2>1, <1>before
<1>3. ASSUME NEW c \in Conns, RestoreRoom(c)
      PROVE  Covered(d)'
  <2> DEFINE job == Head(todo[c])
  <2>1. /\ todo[c] # <<>> /\ job.op = "restore" /\ Then(c, <<>>)
        /\ rooms' = [rooms EXCEPT ![job.room] = job.to]
        /\ UNCHANGED <<clients, evicted>>
    BY <1>3 DEF RestoreRoom, At, registry
  <2>2. todo'[Run] = todo[Run]
    BY <2>1, <1>types DEF Then
  <2>3. PutBack(job)
    <3>1. mu = c
      <4> SUFFICES ASSUME mu # c PROVE FALSE
        OBVIOUS
      <4>1. todo[c] \in Seq(Plain)
        BY DEF RestoresInv
      <4>2. job \in Plain
        BY <2>1, <4>1
      <4> QED
        BY <2>1, <4>2 DEF Plain
    <3>2. todo[c] \in Seq(Kept)
      BY <3>1 DEF RestoresInv
    <3>3. job \in Kept
      BY <2>1, <3>2
    <3> QED
      BY <2>1, <3>3 DEF Kept
  <2>4. Covered(d)
    <3>1. d \in rooms[r] \/ d \in job.to
      BY <2>1, <1>types
    <3> QED
      BY <2>3, <3>1 DEF MembersAreConnected, Covered, PutBack
  <2> QED
    BY <2>1, <2>2, <2>4 DEF Covered, Entering
<1>4. ASSUME NEW c \in Conns, NEW row \in Rows, RehydrateJoin(c, row)
      PROVE  Covered(d)'
  <2>1. Running(c) /\ (d \in rooms[r] \/ d = c)
    <3>1. rooms' = [rooms EXCEPT ![row.room] = @ \cup {c}] /\ todo[c] # <<>>
      BY <1>4 DEF RehydrateJoin, Section, At
    <3>2. Running(c)
      BY <3>1 DEF LifeInv
    <3> QED
      BY <3>1, <3>2, <1>types
  <2> QED
    BY <2>1, <1>before, <1>running, <1>kept
<1>5. ASSUME NEW c \in Conns, NEW s \in RoomIDs,
             CreateRoom(c, s) \/ JoinRoom(c, s) \/ CloseRoom(c, s) \/ LeaveRoom(c, s)
      PROVE  Covered(d)'
  <2>1. phase[c] = "live"
    BY <1>5 DEF CreateRoom, JoinRoom, CloseRoom, LeaveRoom, Request
  <2>2. \/ rooms' = rooms
        \/ \E S \in SUBSET (rooms[s] \cup {c}) : rooms' = [rooms EXCEPT ![s] = S]
    <3>1. CASE CreateRoom(c, s)
      BY <3>1 DEF CreateRoom
    <3>2. CASE JoinRoom(c, s)
      BY <3>2 DEF JoinRoom
    <3>3. CASE CloseRoom(c, s)
      BY <3>3 DEF CloseRoom, ForgetRoom
    <3>4. CASE LeaveRoom(c, s)
      BY <3>4 DEF LeaveRoom
    <3> QED
      BY <1>5, <3>1, <3>2, <3>3, <3>4
  <2>3. d \in rooms[r] \/ d = c
    BY <2>2, <1>types
  <2> QED
    BY <2>1, <2>3, <1>before, <1>running, <1>kept DEF Running
<1>6. ASSUME NEW c \in Conns, NEW s \in RoomIDs, NEW u \in Usernames,
             AddUserToRoom(c, s, u)
      PROVE  Covered(d)'
  <2>1. d \in rooms[r] \/ d \in users[u]
    <3>1. \/ rooms' = rooms
          \/ \E e \in users[u] : rooms' = [rooms EXCEPT ![s] = @ \cup {e}]
      BY <1>6 DEF AddUserToRoom
    <3> QED
      BY <3>1, <1>types
  <2>2. users[u] \subseteq clients
    BY DEF IInv, RegistryConsistent
  <2> QED
    BY <2>1, <2>2, <1>before, <1>kept DEF Covered
<1> QED
  BY <1>1, <1>2, <1>3, <1>4, <1>5, <1>6, <1>crash, RoomsMove

\* What is in memory of a room is in its rows, unless it was rehydrated from
\* rows that had changed.
Known(r) ==
    /\ \A d \in rooms[r] : NameOf[d] \in dbMembers[r]
    /\ roomOwners[r] \in {NoOne, dbOwner[r]}

LEMMA DatabaseStep ==
    ASSUME IInv, RestoresInv, DatabaseKnowsRooms, Next
    PROVE  DatabaseKnowsRooms'
<1> USE NameAssumption, DistinctAssumption
<1>types. /\ rooms \in [RoomIDs -> SUBSET Conns]
          /\ roomOwners \in [RoomIDs -> Usernames \cup {NoOne}]
          /\ dbOwner \in [RoomIDs -> Usernames \cup {NoOne}]
          /\ dbMembers \in [RoomIDs -> SUBSET Usernames]
          /\ users \in [Usernames -> SUBSET Conns]
          /\ \A c \in Conns : NameOf[c] \in Usernames
  BY DEF IInv, TypeOK
<1>known. \A r \in RoomIDs \ stale : Known(r)
  BY DEF DatabaseKnowsRooms, Known
<1> SUFFICES ASSUME NEW r \in RoomIDs, r \notin stale'
             PROVE  Known(r)'
  BY DEF DatabaseKnowsRooms, Known
<1>1. CASE UNCHANGED <<rooms, roomOwners, stale, dbOwner, dbMembers>>
  BY <1>1, <1>known DEF Known
<1>2. CASE Crash
  BY <1>2 DEF Crash, Known
<1>3. ASSUME NEW c \in Conns, RemoveClient(c)
      PROVE  Known(r)'
  <2>1. /\ rooms'[r] = rooms[r] \ {c}
        /\ roomOwners'[r] \in {NoOne, roomOwners[r]}
        /\ UNCHANGED <<stale, dbOwner, dbMembers>>
    BY <1>3 DEF RemoveClient, RoomsWithout, database
  <2> QED
    BY <2>1, <1>known DEF Known
<1>4. ASSUME NEW c \in Conns, RestoreRoom(c)
      PROVE  Known(r)'
  <2> DEFINE job == Head(todo[c])
  <2>1. /\ todo[c] # <<>> /\ job.op = "restore"
        /\ rooms' = [rooms EXCEPT ![job.room] = job.to]
        /\ roomOwners' = [roomOwners EXCEPT ![job.room] = job.user]
        /\ UNCHANGED <<stale, dbOwner, dbMembers>>
    BY <1>4 DEF RestoreRoom, At, database
  <2>2. PutBack(job)
    <3>1. mu = c
      <4> SUFFICES ASSUME mu # c PROVE FALSE
        OBVIOUS
      <4>1. todo[c] \in Seq(Plain)
        BY DEF RestoresInv
      <4>2. job \in Plain
        BY <2>1, <4>1
      <4> QED
        BY <2>1, <4>2 DEF Plain
    <3>2. todo[c] \in Seq(Kept)
      BY <3>1 DEF RestoresInv
    <3>3. job \in Kept
      BY <2>1, <3>2
    <3> QED
      BY <2>1, <3>3 DEF Kept
  <2> HIDE DEF job
  <2>3. CASE r = job.room
    <3>1. rooms'[r] = job.to /\ roomOwners'[r] = job.user
      BY <2>1, <2>3, <1>types
    <3> QED
      BY <2>1, <2>2, <2>3, <3>1 DEF PutBack, Known
  <2>4. CASE r # job.room
    <3>1. rooms'[r] = rooms[r] /\ roomOwners'[r] = roomOwners[r]
      BY <2>1, <2>4, <1>types
    <3> QED
      BY <2>1, <3>1, <1>known DEF Known
  <2> QED
    BY <2>3, <2>4
<1>5. ASSUME NEW c \in Conns, NEW row \in Rows, RehydrateJoin(c, row)
      PROVE  Known(r)'
  <2>1. /\ rooms' = [rooms EXCEPT ![row.room] = @ \cup {c}]
        /\ \/ roomOwners' = [roomOwners EXCEPT ![row.room] = row.owner]
           \/ UNCHANGED roomOwners
        /\ stale \subseteq stale'
        /\ row.room \notin stale' => /\ dbOwner[row.room] = row.owner
                                     /\ NameOf[c] \in dbMembers[row.room]
        /\ UNCHANGED <<dbOwner, dbMembers>>
    BY <1>5 DEF RehydrateJoin, database
  <2>2. Known(r) /\ row.room \in RoomIDs
    BY <2>1, <1>known DEF Rows
  <2>3. CASE r = row.room
    <3>1. /\ rooms'[r] = rooms[r] \cup {c}
          /\ roomOwners'[r] \in {row.owner, roomOwners[r]}
      BY <2>1, <2>3, <1>types
    <3> QED
      BY <2>1, <2>2, <2>3, <3>1 DEF Known
  <2>4. CASE r # row.room
    <3>1. rooms'[r] = rooms[r] /\ roomOwners'[r] = roomOwners[r]
      BY <2>1, <2>4, <1>types
    <3> QED
      BY <2>1, <2>2, <3>1 DEF Known
  <2> QED
    BY <2>3, <2>4
<1>6. ASSUME NEW c \in Conns, NEW s \in RoomIDs, CreateRoom(c, s)
      PROVE  Known(r)'
  <2>1. /\ UNCHANGED stale
        /\ \/ UNCHANGED <<rooms, roomOwners, dbOwner, dbMembers>>
           \/ /\ dbOwner' = dbOwner \/ dbOwner' = [dbOwner EXCEPT ![s] = NameOf[c]]
              /\ roomOwners' = [roomOwners EXCEPT ![s] = NoOne]
              /\ UNCHANGED <<rooms, dbMembers>>
           \/ /\ dbOwner' = [dbOwner EXCEPT ![s] = NameOf[c]]
              /\ dbMembers' = [dbMembers EXCEPT ![s] = @ \cup {NameOf[c]}]
              /\ rooms' = [rooms EXCEPT ![s] = {c}]
              /\ roomOwners' = [roomOwners EXCEPT ![s] = NameOf[c]]
    BY <1>6 DEF CreateRoom, database
  <2>2. Known(r)
    BY <2>1, <1>known
  <2>3. CASE r = s
    BY <2>1, <2>2, <2>3, <1>types DEF Known
  <2>4. CASE r # s
    BY <2>1, <2>2, <2>4, <1>types DEF Known
  <2> QED
    BY <2>3, <2>4
<1>7. ASSUME NEW c \in Conns, NEW s \in RoomIDs, JoinRoom(c, s)
      PROVE  Known(r)'
  <2>1. /\ UNCHANGED <<stale, roomOwners, dbOwner>>
        /\ \/ UNCHANGED <<rooms, dbMembers>>
           \/ /\ dbMembers' = [dbMembers EXCEPT ![s] = @ \cup {NameOf[c]}]
              /\ rooms' = [rooms EXCEPT ![s] = @ \cup {c}]
    BY <1>7 DEF JoinRoom, AddsMember
  <2> QED
    BY <2>1, <1>known, <1>types DEF Known
<1>8. ASSUME NEW c \in Conns, NEW s \in RoomIDs, NEW u \in Usernames,
             AddUserToRoom(c, s, u)
      PROVE  Known(r)'
  <2>1. /\ UNCHANGED <<stale, roomOwners, dbOwner>>
        /\ \/ UNCHANGED <<rooms, dbMembers>>
           \/ /\ dbMembers' = [dbMembers EXCEPT ![s] = @ \cup {u}]
              /\ \E d \in users[u] : rooms' = [rooms EXCEPT ![s] = @ \cup {d}]
    BY <1>8 DEF AddUserToRoom, AddsMember
  <2>2. \A d \in users[u] : NameOf[d] = u
    BY DEF IInv, RegistryConsistent
  <2> QED
    BY <2>1, <2>2, <1>known, <1>types DEF Known
<1>9. ASSUME NEW c \in Conns, NEW s \in RoomIDs, CloseRoom(c, s)
      PROVE  Known(r)'
  <2>1. /\ UNCHANGED stale
        /\ \/ UNCHANGED <<rooms, roomOwners, dbOwner, dbMembers>>
           \/ /\ rooms' = [rooms EXCEPT ![s] = {}]
              /\ roomOwners' = [roomOwners EXCEPT ![s] = NoOne]
              /\ dbOwner' = dbOwner \/ dbOwner' = [dbOwner EXCEPT ![s] = NoOne]
              /\ dbMembers' = dbMembers \/ dbMembers' = [dbMembers EXCEPT ![s] = {}]
    BY <1>9 DEF CloseRoom, ForgetRoom, database
  <2>2. Known(r)
    BY <2>1, <1>known
  <2>3. CASE r = s
    BY <2>1, <2>2, <2>3, <1>types DEF Known
  <2>4. CASE r # s
    BY <2>1, <2>2, <2>4, <1>types DEF Known
  <2> QED
    BY <2>3, <2>4
<1>10. ASSUME NEW c \in Conns, NEW s \in RoomIDs, LeaveRoom(c, s)
       PROVE  Known(r)'
  <2> DEFINE left == {d \in rooms[s] : NameOf[d] # NameOf[c]}
  <2>1. /\ UNCHANGED <<stale, dbOwner>>
        /\ rooms' = [rooms EXCEPT ![s] = left]
        /\ roomOwners' = [roomOwners EXCEPT ![s] =
                             IF left = {} THEN NoOne ELSE roomOwners[s]]
        /\ \/ UNCHANGED dbMembers
           \/ dbMembers' = [dbMembers EXCEPT ![s] = @ \ {NameOf[c]}]
    BY <1>10 DEF LeaveRoom
  <2>2. Known(r)
    BY <2>1, <1>known
  <2>3. CASE r = s
    <3>1. /\ rooms'[r] = left /\ left \subseteq rooms[r]
          /\ roomOwners'[r] \in {NoOne, roomOwners[r]}
      BY <2>1, <2>3, <1>types
    <3>2. \A d \in left : NameOf[d] \in dbMembers'[r]
      BY <2>1, <2>2, <2>3, <1>types DEF Known
    <3> QED
      BY <2>1, <2>2, <3>1, <3>2 DEF Known
  <2>4. CASE r # s
    BY <2>1, <2>2, <2>4, <1>types DEF Known
  <2> QED
    BY <2>3, <2>4
<1> QED
  BY <1>1, <1>2, <1>3, <1>4, <1>5, <1>6, <1>7, <1>8, <1>9, <1>10, RoomsMove

----------------------------------------------------------------------------
(* The invariant. *)

MembersInv ==
    /\ HolderInv
    /\ LifeInv
    /\ RestoresInv
    /\ MembersAreConnected
    /\ DatabaseKnowsRooms

LEMMA InitMembers == Init => MembersInv
<1> SUFFICES ASSUME Init PROVE MembersInv
  OBVIOUS
<1>1. /\ clients = {} /\ \A c \in Conns : phase[c] = "new"
      /\ \A g \in Goroutines : todo[g] = <<>>
      /\ \A r \in RoomIDs : rooms[r] = {} /\ roomOwners[r] = NoOne
  BY DEF Init, NewHub
<1>2. \A c \in Conns : todo[Run] # Register(c)
  BY <1>1 DEF Goroutines, Register
<1>3. LifeInv
  BY <1>1, <1>2 DEF LifeInv, Running, Entering, NoClientAbandoned, Goroutines
<1>4. RestoresInv
  <2>1. <<>> \in Seq(Plain) /\ <<>> \in Seq(Kept)
    OBVIOUS
  <2>2. \A c \in Conns : todo[c] = <<>>
    BY <1>1 DEF Goroutines
  <2> QED
    BY <2>1, <2>2, Zenon DEF RestoresInv
<1>5. MembersAreConnected /\ DatabaseKnowsRooms
  BY <1>1 DEF MembersAreConnected, DatabaseKnowsRooms
<1> QED
  BY <1>3, <1>4, <1>5, InitHolder DEF MembersInv

LEMMA StepMembers == IInv /\ MembersInv /\ [Next]_vars => MembersInv'
<1> SUFFICES ASSUME IInv, MembersInv, [Next]_vars
             PROVE  MembersInv'
  OBVIOUS
<1>1. CASE Next
  BY <1>1, StepHolder, LifeStep, RestoresStep, MembersStep, DatabaseStep
     DEF MembersInv
<1>2. CASE UNCHANGED vars
  <2>1. HolderInv'
    BY <1>2, StepHolder DEF MembersInv
  <2>2. UNCHANGED <<clients, evicted, rooms, roomOwners, stale, dbOwner,
                    dbMembers, phase, todo, mu>>
    BY <1>2 DEF vars, data, registry, roomState, database, pumps, control
  <2>3. LifeInv' /\ MembersAreConnected' /\ DatabaseKnowsRooms'
    BY <2>2 DEF MembersInv, LifeInv, Running, Covered, Entering,
                NoClientAbandoned, MembersAreConnected, DatabaseKnowsRooms
  <2>4. Kept = Kept'
    BY <2>2 DEF Kept, PutBack, Covered, Entering
  <2>5. RestoresInv'
    BY <2>2, <2>4 DEF MembersInv, RestoresInv
  <2> QED
    BY <2>1, <2>3, <2>5 DEF MembersInv
<1> QED
  BY <1>1, <1>2

LEMMA MembersInvariance == Spec => []MembersInv
<1> QED
  BY InitIInv, StepIInv, InitMembers, StepMembers, PTL DEF Spec

\* Every registered connection is unregistered some day by its goroutine or by
\* Run, unless its rehydration panicked.
THEOREM NobodyAbandoned == Spec => []NoClientAbandoned
<1>1. MembersInv => NoClientAbandoned
  BY DEF MembersInv, LifeInv
<1> QED
  BY <1>1, MembersInvariance, PTL

\* A connection in a room is registered, about to be, or was evicted while its
\* goroutine ran.
THEOREM RoomsHoldConnections == Spec => []MembersAreConnected
<1>1. MembersInv => MembersAreConnected
  BY DEF MembersInv
<1> QED
  BY <1>1, MembersInvariance, PTL

\* What is in memory of a room is in the database too, but for rooms rehydrated
\* from rows that had changed meanwhile.
THEOREM DatabaseCoversMemory == Spec => []DatabaseKnowsRooms
<1>1. MembersInv => DatabaseKnowsRooms
  BY DEF MembersInv
<1> QED
  BY <1>1, MembersInvariance, PTL

=============================================================================
