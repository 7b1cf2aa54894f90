----------------------------- MODULE HubProofs -----------------------------
(***************************************************************************)
(* Proofs about the hub for any number of connections, users and rooms and *)
(* any capacities: its type invariant, the consistency of its registry and *)
(* the cleanness of deleted rooms, from one inductive invariant; and that  *)
(* presence converges.                                                     *)
(***************************************************************************)
EXTENDS Hub, TLAPS

\* Every job but the one that enters a connection in h.Clients.
Later == {j \in Jobs : j.op # "register"}

\* Only Run enters connections, it enters one when it has nothing else to do,
\* and that one has never been registered.
EntersOnce ==
    \A g \in Goroutines :
        \/ todo[g] \in Seq(Later)
        \/ /\ g = Run
           /\ \E c \in Conns : /\ todo[Run] = Register(c)
                               /\ c \notin clients \cup closed
                               /\ phase[c] # "new"

\* A connection that was not made yet is unknown to the hub.
NewUnknown == \A c \in Conns : phase[c] = "new" => c \notin clients \cup closed

\* The inductive invariant.
IInv ==
    /\ TypeOK
    /\ EntersOnce
    /\ NewUnknown
    /\ RegistryConsistent
    /\ DeletedRoomsLeaveNothing

----------------------------------------------------------------------------
(* Jobs. *)

\* Each constructor of jobs gives a sequence of jobs that enter nobody.
LEMMA SendType ==
    ASSUME NEW S \in SUBSET Conns, NEW e \in BOOLEAN
    PROVE  Send(S, e) \in Seq(Later)
<1> DEFINE j == [op |-> "send", to |-> S, evict |-> e]
<1>1. j \in [op : {"send"}, to : SUBSET Conns, evict : BOOLEAN]
  OBVIOUS
<1>2. j \in Jobs /\ j.op # "register"
  BY <1>1 DEF Jobs
<1>3. j \in Later
  BY <1>2 DEF Later
<1> QED
  BY <1>3 DEF Send

LEMMA ToMembersType ==
    ASSUME NEW r \in RoomIDs
    PROVE  /\ SendToRoom(r) \in Seq(Later)
           /\ BroadcastRoomMeta(r) \in Seq(Later)
           /\ BroadcastScreenState(r) \in Seq(Later)
  BY DEF SendToRoom, BroadcastRoomMeta, BroadcastScreenState, ToMembers, Later,
         Jobs

LEMMA ToSelfType ==
    ASSUME NEW r \in RoomIDs
    PROVE  /\ SendRoomMetaToClient(r) \in Seq(Later)
           /\ SendScreenStateToClient(r) \in Seq(Later)
  BY DEF SendRoomMetaToClient, SendScreenStateToClient, ToSelf, Later, Jobs

LEMMA DirectType ==
    ASSUME NEW u \in Usernames
    PROVE  SendDirect(u) \in Seq(Later)
  BY DEF SendDirect, Later, Jobs

LEMMA SignalType ==
    ASSUME NEW r \in RoomIDs, NEW u \in Usernames
    PROVE  SignalTo(r, u) \in Seq(Later)
  BY DEF SignalTo, Later, Jobs

LEMMA ShareType ==
    ASSUME NEW r \in RoomIDs, NEW on \in BOOLEAN
    PROVE  Share(r, on) \in Seq(Later)
  BY DEF Share, Later, Jobs

LEMMA ListRoomsType == ListRoomsJob \in Seq(Later)
  BY DEF ListRoomsJob, Later, Jobs

LEMMA UnlockType == UnlockJob \in Seq(Later)
  BY DEF UnlockJob, Later, Jobs

LEMMA RehydrateType ==
    ASSUME NEW rows \in SUBSET Rows
    PROVE  Rehydrate(rows) \in Seq(Later)
<1> DEFINE j == [op |-> "rehydrate", rows |-> rows]
<1>1. j \in [op : {"rehydrate"}, rows : SUBSET Rows]
  BY Zenon
<1>2. j \in Jobs /\ j.op # "register"
  BY <1>1 DEF Jobs
<1>3. j \in Later
  BY <1>2 DEF Later
<1> QED
  BY <1>3 DEF Rehydrate

LEMMA RestoreType ==
    ASSUME NEW r \in RoomIDs, NEW S \in SUBSET Conns, NEW u \in Usernames
    PROVE  Restore(r, S, u) \in Seq(Later)
<1> DEFINE j == [op |-> "restore", room |-> r, to |-> S, user |-> u]
<1>1. j \in [op : {"restore"}, room : RoomIDs, to : SUBSET Conns,
             user : Usernames]
  BY Zenon
<1>2. j \in Jobs /\ j.op # "register"
  BY <1>1 DEF Jobs
<1>3. j \in Later
  BY <1>2 DEF Later
<1> QED
  BY <1>3 DEF Restore

LEMMA UnregisterType ==
    ASSUME NEW c \in Conns
    PROVE  Unregister(c) \in Seq(Later)
  BY DEF Unregister, Later, Jobs

LEMMA RegisterType ==
    ASSUME NEW c \in Conns
    PROVE  Register(c) \in Seq(Jobs)
  BY DEF Register, Jobs

LEMMA RefreshType ==
    ASSUME NEW R \in SUBSET RoomIDs
    PROVE  Refresh(R) \in Seq(Later)
<1> DEFINE j == [op |-> "refresh", rooms |-> R]
<1>1. j \in [op : {"refresh"}, rooms : SUBSET RoomIDs]
  BY Zenon
<1>2. j \in Jobs /\ j.op # "register"
  BY <1>1 DEF Jobs
<1>3. j \in Later
  BY <1>2 DEF Later
<1> QED
  BY <1>3 DEF Refresh

\* What the jobs of each kind hold.
LEMMA JobFields ==
    ASSUME NEW j \in Jobs
    PROVE  /\ j.op = "send" => j.to \in SUBSET Conns /\ j.evict \in BOOLEAN
           /\ j.op = "toMembers" => j.room \in RoomIDs
           /\ j.op = "toSelf" => j.room \in RoomIDs /\ j.evict \in BOOLEAN
           /\ j.op = "direct" => j.user \in Usernames
           /\ j.op = "signalTo" => j.room \in RoomIDs /\ j.user \in Usernames
           /\ j.op = "share" => j.room \in RoomIDs /\ j.on \in BOOLEAN
           /\ j.op = "rehydrate" => j.rows \in SUBSET Rows
           /\ j.op = "restore" => /\ j.room \in RoomIDs
                                  /\ j.to \in SUBSET Conns
                                  /\ j.user \in Usernames
           /\ j.op \in {"register", "unregister"} => j.conn \in Conns
           /\ j.op = "refresh" => j.rooms \in SUBSET RoomIDs
<1>1. CASE j \in [op : {"send"}, to : SUBSET Conns, evict : BOOLEAN]
  <2>1. j.op = "send" /\ j.to \in SUBSET Conns /\ j.evict \in BOOLEAN
    BY <1>1, Zenon
  <2> QED
    BY <2>1
<1>2. CASE \/ j \in [op : {"toMembers"}, room : RoomIDs]
           \/ j \in [op : {"toSelf"}, room : RoomIDs, evict : BOOLEAN]
           \/ j \in [op : {"share"}, room : RoomIDs, on : BOOLEAN]
  BY <1>2
<1>3. CASE \/ j \in [op : {"direct"}, user : Usernames]
           \/ j \in [op : {"signalTo"}, room : RoomIDs, user : Usernames]
  BY <1>3
<1>4. CASE j \in [op : {"rehydrate"}, rows : SUBSET Rows]
  BY <1>4
<1>5. CASE j \in [op : {"restore"}, room : RoomIDs, to : SUBSET Conns,
                  user : Usernames]
  BY <1>5
<1>6. CASE \/ j \in [op : {"register", "unregister"}, conn : Conns]
           \/ j \in [op : {"listRooms", "unlock"}]
  BY <1>6
<1>7. CASE j \in [op : {"refresh"}, rooms : SUBSET RoomIDs]
  BY <1>7
<1> QED
  BY <1>1, <1>2, <1>3, <1>4, <1>5, <1>6, <1>7 DEF Jobs

LEMMA LaterAreJobs == Later \subseteq Jobs
  BY DEF Later

\* Concatenation and tails of jobs that enter nobody.
LEMMA ConcatType ==
    ASSUME NEW s \in Seq(Later), NEW t \in Seq(Later)
    PROVE  s \o t \in Seq(Later)
  OBVIOUS


\* Doing a job leaves a goroutine with jobs that enter nobody.
LEMMA ThenType ==
    ASSUME todo \in [Goroutines -> Seq(Jobs)], EntersOnce,
           NEW g \in Goroutines, todo[g] # <<>>,
           NEW jobs \in Seq(Later), Then(g, jobs)
    PROVE  /\ todo' = [todo EXCEPT ![g] = todo'[g]]
           /\ todo'[g] \in Seq(Later)
<1>1. Tail(todo[g]) \in Seq(Later)
  <2>1. CASE todo[g] \in Seq(Later)
    BY <2>1
  <2>2. CASE \E c \in Conns : todo[g] = Register(c)
    BY <2>2 DEF Register
  <2> QED
    BY <2>1, <2>2 DEF EntersOnce
<1>2. jobs \o Tail(todo[g]) \in Seq(Later)
  BY <1>1, ConcatType
<1> QED
  BY <1>2 DEF Then

\* Giving new jobs that enter nobody to one goroutine keeps EntersOnce, unless
\* it changes what the hub knows behind the back of Run.
LEMMA EntersOnceKept ==
    ASSUME todo \in [Goroutines -> Seq(Jobs)], EntersOnce,
           NEW g \in Goroutines,
           todo' = [todo EXCEPT ![g] = todo'[g]],
           todo'[g] \in Seq(Later),
           \/ g = Run
           \/ clients' = clients /\ closed' = closed,
           \A c \in Conns : phase[c] # "new" => phase'[c] # "new"
    PROVE  todo' \in [Goroutines -> Seq(Jobs)] /\ EntersOnce'
<1>1. todo'[g] \in Seq(Jobs)
  BY LaterAreJobs
<1>2. todo' \in [Goroutines -> Seq(Jobs)]
  BY <1>1
<1>3. ASSUME NEW h \in Goroutines
      PROVE  \/ todo'[h] \in Seq(Later)
             \/ /\ h = Run
                /\ \E c \in Conns : /\ todo'[Run] = Register(c)
                                    /\ c \notin clients' \cup closed'
                                    /\ phase'[c] # "new"
  <2>1. CASE h = g
    BY <2>1
  <2>2. CASE h # g
    BY <2>2 DEF EntersOnce
  <2> QED
    BY <2>1, <2>2
<1> QED
  BY <1>2, <1>3 DEF EntersOnce, Register

\* Giving jobs to two goroutines.
LEMMA TwoGiven ==
    ASSUME todo \in [Goroutines -> Seq(Jobs)],
           NEW g \in Goroutines, NEW h \in Goroutines, g # h,
           NEW s \in Seq(Jobs), NEW t \in Seq(Jobs),
           todo' = [todo EXCEPT ![g] = s, ![h] = t]
    PROVE  /\ todo' \in [Goroutines -> Seq(Jobs)]
           /\ todo'[g] = s /\ todo'[h] = t
           /\ \A i \in Goroutines \ {g, h} : todo'[i] = todo[i]
<1> DEFINE first == [todo EXCEPT ![g] = s]
<1>1. first \in [Goroutines -> Seq(Jobs)]
  OBVIOUS
<1>2. todo' = [first EXCEPT ![h] = t]
  OBVIOUS
<1> QED
  BY <1>1, <1>2

\* Every step keeps the jobs well typed and lets only Run enter connections,
\* each of them once.
LEMMA TodoStep ==
    ASSUME IInv, Next
    PROVE  todo' \in [Goroutines -> Seq(Jobs)] /\ EntersOnce'
<1> DEFINE Goal == todo' \in [Goroutines -> Seq(Jobs)] /\ EntersOnce'
<1> USE NameAssumption, DistinctAssumption
<1>types. /\ TypeOK /\ EntersOnce /\ NewUnknown
          /\ todo \in [Goroutines -> Seq(Jobs)]
          /\ Run \in Goroutines /\ Http \in Goroutines
          /\ Conns \subseteq Goroutines
          /\ phase \in [Conns -> Phases]
  BY DEF IInv, TypeOK, Goroutines
<1>heads. ASSUME NEW g \in Goroutines, todo[g] # <<>>
          PROVE  Head(todo[g]) \in Jobs
  <2>1. todo[g] \in Seq(Jobs)
    BY <1>types
  <2> QED
    BY <2>1, <1>heads
<1>kept. ASSUME UNCHANGED <<todo, clients, closed>>,
                \A c \in Conns : phase[c] # "new" => phase'[c] # "new"
         PROVE  Goal
  BY <1>types, <1>kept DEF EntersOnce
<1>given. ASSUME NEW g \in Goroutines, NEW jobs \in Seq(Later),
                 todo' = [todo EXCEPT ![g] = jobs],
                 UNCHANGED <<clients, closed>>,
                 \A c \in Conns : phase[c] # "new" => phase'[c] # "new"
          PROVE  Goal
  <2>1. todo' = [todo EXCEPT ![g] = todo'[g]] /\ todo'[g] \in Seq(Later)
    BY <1>types, <1>given
  <2> QED
    BY <1>types, <1>given, <2>1, EntersOnceKept
<1>then. ASSUME NEW g \in Goroutines, todo[g] # <<>>,
                NEW jobs \in Seq(Later), Then(g, jobs),
                g = Run \/ UNCHANGED <<clients, closed>>,
                \A c \in Conns : phase[c] # "new" => phase'[c] # "new"
         PROVE  Goal
  <2>1. todo' = [todo EXCEPT ![g] = todo'[g]] /\ todo'[g] \in Seq(Later)
    BY <1>types, <1>then, ThenType
  <2> QED
    BY <1>types, <1>then, <2>1, EntersOnceKept
<1>none. <<>> \in Seq(Later)
  OBVIOUS
<1>crash. ASSUME Crash
          PROVE  Goal
  <2>1. todo' = [g \in Goroutines |-> <<>>]
    BY <1>crash DEF Crash
  <2> QED
    BY <2>1 DEF EntersOnce
<1>1. ASSUME NEW c \in Conns, Connect(c)
      PROVE  Goal
  <2>1. /\ phase[c] = "new" /\ phase' = [phase EXCEPT ![c] = "rehydrating"]
        /\ todo[Run] = <<>> /\ UNCHANGED <<clients, closed>>
        /\ todo' = [todo EXCEPT ![Run] = Register(c), ![c] = ListRoomsJob]
    BY <1>1 DEF Connect, data, registry
  <2>2. /\ todo'[Run] = Register(c) /\ todo'[c] = ListRoomsJob
        /\ todo' \in [Goroutines -> Seq(Jobs)]
    <3>1. c # Run /\ c \in Goroutines
      BY <1>types
    <3>2. ListRoomsJob \in Seq(Jobs)
      BY ListRoomsType, LaterAreJobs
    <3>3. Register(c) \in Seq(Jobs)
      BY RegisterType
    <3>4. /\ todo \in [Goroutines -> Seq(Jobs)] /\ Run \in Goroutines
          /\ todo' = [todo EXCEPT ![Run] = Register(c), ![c] = ListRoomsJob]
      BY <1>types, <2>1
    <3> HIDE DEF Goal
    <3> QED
      BY ONLY <3>1, <3>2, <3>3, <3>4, TwoGiven
  <2>3. c \notin clients' \cup closed' /\ phase'[c] # "new"
    BY <1>types, <2>1 DEF NewUnknown
  <2>4. ASSUME NEW g \in Goroutines, g # Run
        PROVE  todo'[g] \in Seq(Later)
    <3>1. CASE g = c
      BY <3>1, <2>2, ListRoomsType
    <3>2. CASE g # c
      BY <3>2, <2>4, <2>1, <1>types DEF EntersOnce
    <3> QED
      BY <3>1, <3>2
  <2> QED
    BY <2>2, <2>3, <2>4 DEF EntersOnce
<1>2. ASSUME NEW c \in Conns, StartPumps(c)
      PROVE  Goal
  BY <1>2, <1>types, <1>kept DEF StartPumps, data, registry, Phases
<1>3. ASSUME NEW c \in Conns, ReadFails(c)
      PROVE  Goal
  BY <1>3, <1>types, <1>kept DEF ReadFails, data, registry, Phases
<1>4. ASSUME NEW c \in Conns, Drain(c)
      PROVE  Goal
  BY <1>4, <1>kept DEF Drain, data, registry
<1>5. ASSUME NEW c \in Conns, WriterSeesClose(c)
      PROVE  Goal
  BY <1>5, <1>kept DEF WriterSeesClose, data, registry
<1>6. ASSUME NEW c \in Conns, WriteFails(c)
      PROVE  Goal
  BY <1>6, <1>kept DEF WriteFails, data, registry
<1>7. ASSUME NEW c \in Conns, RunTakesUnregister(c)
      PROVE  Goal
  <2>1. /\ todo' = [todo EXCEPT ![Run] = Unregister(c)]
        /\ UNCHANGED <<clients, closed>>
        /\ phase' = [phase EXCEPT ![c] = "gone"]
    BY <1>7 DEF RunTakesUnregister, data, registry
  <2> QED
    BY <2>1, <1>types, <1>given, UnregisterType
<1>8. ASSUME NEW c \in Conns, PanicEndsProcess(c)
      PROVE  Goal
  BY <1>8, <1>crash DEF PanicEndsProcess
<1>9. ASSUME Restart
      PROVE  Goal
  BY <1>9, <1>kept DEF Restart, data, registry, pumps
<1>10. ASSUME NEW c \in Conns, EnterClient(c)
      PROVE  Goal
  BY <1>10, <1>types, <1>then, <1>none DEF EnterClient, Section, At, pumps
<1>11. ASSUME NEW c \in Conns, IgnoreUnregister(c)
      PROVE  Goal
  BY <1>11, <1>types, <1>then, <1>none
     DEF IgnoreUnregister, Section, At, data, registry, pumps
<1>12. ASSUME NEW c \in Conns, RemoveClient(c)
      PROVE  Goal
  <2>1. /\ todo[Run] # <<>> /\ UNCHANGED phase
        /\ Then(Run, Refresh(open \ SweptRooms(c)))
    BY <1>12 DEF RemoveClient, Section, At, pumps
  <2>2. Refresh(open \ SweptRooms(c)) \in Seq(Later)
    BY <1>types, RefreshType DEF TypeOK
  <2> QED
    BY <2>1, <2>2, <1>types, <1>then
<1>13. ASSUME NEW c \in Conns, RunPanics(c)
      PROVE  Goal
  BY <1>13, <1>crash DEF RunPanics
<1>14. ASSUME NEW r \in RoomIDs, RefreshRoom(r)
      PROVE  Goal
  <2> DEFINE jobs == BroadcastRoomMeta(r) \o BroadcastScreenState(r)
                     \o Refresh(Head(todo[Run]).rooms \ {r})
  <2>1. /\ todo[Run] # <<>> /\ Head(todo[Run]).op = "refresh"
        /\ UNCHANGED <<clients, closed, phase>>
        /\ Then(Run, jobs)
    BY <1>14 DEF RefreshRoom, At, data, registry, pumps
  <2>2. Head(todo[Run]).rooms \ {r} \in SUBSET RoomIDs
    BY <1>types, <1>heads, <2>1, JobFields
  <2>3. jobs \in Seq(Later)
    BY <2>2, RefreshType, ToMembersType, ConcatType
  <2> QED
    BY <2>1, <2>3, <1>types, <1>then
<1>15. ASSUME BroadcastPresence
      PROVE  Goal
  <2>1. /\ todo' = [todo EXCEPT ![Run] = Send(clients, TRUE)]
        /\ UNCHANGED <<clients, closed, phase>>
    BY <1>15 DEF BroadcastPresence, registry, pumps
  <2>2. Send(clients, TRUE) \in Seq(Later)
    BY <1>types, SendType DEF TypeOK
  <2> QED
    BY <2>1, <2>2, <1>types, <1>given
<1>sent. ASSUME NEW g \in Goroutines, NEW c \in Conns, SendsTo(g, c)
         PROVE  todo[g] # <<>> /\ Sent(g, c) \in Seq(Later)
  <2>1. todo[g] # <<>> /\ Head(todo[g]).op = "send"
    BY <1>sent DEF SendsTo, At
  <2>2. /\ Head(todo[g]).to \ {c} \in SUBSET Conns
        /\ Head(todo[g]).evict \in BOOLEAN
    BY <1>heads, <2>1, JobFields
  <2> QED
    BY <2>1, <2>2, SendType DEF Sent
<1>16. ASSUME NEW g \in Goroutines, NEW c \in Conns, SendBuffered(g, c)
      PROVE  Goal
  <2>1. /\ SendsTo(g, c) /\ Then(g, Sent(g, c))
        /\ UNCHANGED <<clients, closed, phase>>
    BY <1>16 DEF SendBuffered, data, registry, pumps
  <2> QED
    BY <2>1, <1>sent, <1>then
<1>17. ASSUME NEW g \in Goroutines, NEW c \in Conns, SendDropped(g, c)
      PROVE  Goal
  <2>1. /\ SendsTo(g, c) /\ Then(g, Sent(g, c))
        /\ UNCHANGED <<clients, closed, phase>>
    BY <1>17 DEF SendDropped, data, registry, pumps
  <2> QED
    BY <2>1, <1>sent, <1>then
<1>18. ASSUME NEW g \in Goroutines, NEW c \in Conns, SendEvicts(g, c)
      PROVE  Goal
  <2>1. /\ SendsTo(g, c) /\ g # Run /\ UNCHANGED <<clients, closed, phase>>
        /\ todo' = [todo EXCEPT ![g] = Sent(g, c) \o Tail(todo[g]),
                                ![Run] = Unregister(c)]
    BY <1>18 DEF SendEvicts, data, registry, pumps
  <2>2. todo[g] \in Seq(Later) /\ todo[g] # <<>>
    BY <1>types, <1>sent, <2>1 DEF EntersOnce
  <2>3. Sent(g, c) \o Tail(todo[g]) \in Seq(Later)
    BY <2>1, <2>2, <1>sent, ConcatType
  <2>4. Unregister(c) \in Seq(Later)
    BY UnregisterType
  <2>5. /\ Sent(g, c) \o Tail(todo[g]) \in Seq(Jobs)
        /\ Unregister(c) \in Seq(Jobs)
    BY <2>3, <2>4, LaterAreJobs
  <2>6. /\ todo' \in [Goroutines -> Seq(Jobs)]
        /\ todo'[g] \in Seq(Later) /\ todo'[Run] \in Seq(Later)
        /\ \A h \in Goroutines \ {g, Run} : todo'[h] = todo[h]
    <3>1. /\ todo \in [Goroutines -> Seq(Jobs)] /\ Run \in Goroutines /\ g # Run
          /\ todo' = [todo EXCEPT ![g] = Sent(g, c) \o Tail(todo[g]),
                                  ![Run] = Unregister(c)]
      BY <1>types, <2>1
    <3> HIDE DEF Goal
    <3>2. /\ todo' \in [Goroutines -> Seq(Jobs)]
          /\ todo'[g] = Sent(g, c) \o Tail(todo[g])
          /\ todo'[Run] = Unregister(c)
          /\ \A h \in Goroutines \ {g, Run} : todo'[h] = todo[h]
      BY ONLY <3>1, <2>5, TwoGiven
    <3> QED
      BY ONLY <3>2, <2>3, <2>4
  <2>7. \A h \in Goroutines : todo'[h] \in Seq(Later)
    BY <2>6, <1>types DEF EntersOnce
  <2> QED
    BY <2>6, <2>7 DEF EntersOnce
<1>19. ASSUME NEW g \in Goroutines, NEW c \in Conns, SendPanics(g, c)
      PROVE  Goal
  BY <1>19, <1>types, <1>given, <1>none
     DEF SendPanics, data, registry, Phases
<1>20. ASSUME NEW g \in Goroutines, CopyRecipients(g)
      PROVE  Goal
  <2> DEFINE job == Head(todo[g])
  <2>1. todo[g] # <<>> /\ UNCHANGED <<clients, closed, phase>>
    BY <1>20 DEF CopyRecipients, data, registry, pumps
  <2>2. job \in Jobs
    BY <2>1, <1>heads
  <2>3. CASE job.op = "toMembers" /\ Then(g, Send(rooms[job.room], TRUE))
    <3>1. Send(rooms[job.room], TRUE) \in Seq(Later)
      BY <2>2, <2>3, <1>types, JobFields, SendType DEF TypeOK
    <3> QED
      BY <2>1, <2>3, <3>1, <1>then
  <2>4. CASE job.op = "direct" /\ Then(g, Send(users[job.user], TRUE))
    <3>1. Send(users[job.user], TRUE) \in Seq(Later)
      BY <2>2, <2>4, <1>types, JobFields, SendType DEF TypeOK
    <3> QED
      BY <2>1, <2>4, <3>1, <1>then
  <2>5. CASE /\ job.op = "toSelf" /\ g \in Conns
             /\ Then(g, IF rooms[job.room] = {} THEN <<>>
                        ELSE Send({g}, job.evict))
    <3>1. (IF rooms[job.room] = {} THEN <<>> ELSE Send({g}, job.evict))
            \in Seq(Later)
      BY <2>2, <2>5, JobFields, SendType
    <3> QED
      BY <2>1, <2>5, <3>1, <1>then
  <2> QED
    BY <1>20, <2>3, <2>4, <2>5 DEF CopyRecipients
<1>self. ASSUME NEW c \in Conns
         PROVE  SendSystem(c) \in Seq(Later) /\ Send({c}, FALSE) \in Seq(Later)
  BY SendType DEF SendSystem
<1>21. ASSUME NEW c \in Conns, ListRooms(c)
      PROVE  Goal
  <2> DEFINE mine == {r \in RoomIDs :
                      dbOwner[r] # NoOne /\ NameOf[c] \in dbMembers[r]}
             rows == {[room |-> r, owner |-> dbOwner[r]] : r \in mine}
  <2>1. /\ todo[c] # <<>> /\ UNCHANGED <<clients, closed, phase>>
        /\ \/ Then(c, Rehydrate(rows) \o Send({c}, FALSE))
           \/ Then(c, <<>>)
    BY <1>21 DEF ListRooms, At, data, registry, pumps
  <2>2. rows \in SUBSET Rows
    BY <1>types DEF TypeOK, Rows
  <2>3. Rehydrate(rows) \o Send({c}, FALSE) \in Seq(Later)
    BY <2>2, <1>self, RehydrateType, ConcatType
  <2> QED
    BY <2>1, <2>3, <1>types, <1>then, <1>none
<1>22. ASSUME NEW c \in Conns, NEW row \in Rows, RehydrateJoin(c, row)
      PROVE  Goal
  <2> DEFINE news == IF c \in rooms[row.room] THEN <<>>
                     ELSE BroadcastRoomMeta(row.room)
             snapshot == SendRoomMetaToClient(row.room)
                         \o SendScreenStateToClient(row.room)
             rest == Rehydrate(Head(todo[c]).rows \ {row})
  <2>1. /\ todo[c] # <<>> /\ Head(todo[c]).op = "rehydrate"
        /\ UNCHANGED <<clients, closed, phase>>
    BY <1>22 DEF RehydrateJoin, Section, At, registry, pumps
  <2>2. PICK history \in {<<>>, Send({c}, FALSE)} :
            Then(c, news \o snapshot \o history \o rest)
    BY <1>22 DEF RehydrateJoin
  <2>3. row.room \in RoomIDs
    BY DEF Rows
  <2>4. news \in Seq(Later) /\ snapshot \in Seq(Later)
    BY <2>3, <1>none, ToMembersType, ToSelfType, ConcatType
  <2>5. Head(todo[c]).rows \ {row} \in SUBSET Rows
    BY <2>1, <1>types, <1>heads, JobFields
  <2>6. rest \in Seq(Later) /\ history \in Seq(Later)
    BY <2>5, <1>self, <1>none, RehydrateType
  <2>7. news \o snapshot \o history \o rest \in Seq(Later)
    <3> HIDE DEF news, snapshot, rest
    <3> QED
      BY <2>4, <2>6, ConcatType
  <2> QED
    BY <2>1, <2>2, <2>7, <1>types, <1>then
<1>23. ASSUME NEW c \in Conns, ForwardSignal(c)
      PROVE  Goal
  <2> DEFINE job == Head(todo[c])
             targets == {d \in rooms[job.room] : NameOf[d] = job.user}
  <2>1. /\ todo[c] # <<>> /\ job.op = "signalTo"
        /\ UNCHANGED <<clients, closed, phase>>
        /\ \/ \E d \in targets : Then(c, Send({d}, TRUE))
           \/ Then(c, SendSystem(c))
    BY <1>23 DEF ForwardSignal, Section, At, data, registry, pumps
  <2>2. targets \subseteq Conns
    BY <2>1, <1>types, <1>heads, JobFields DEF TypeOK
  <2>3. \A d \in targets : Send({d}, TRUE) \in Seq(Later)
    BY <2>2, SendType
  <2> QED
    BY <2>1, <2>3, <1>self, <1>types, <1>then
<1>24. ASSUME NEW c \in Conns, UpdateScreenShareState(c)
      PROVE  Goal
  <2>1. /\ todo[c] # <<>> /\ UNCHANGED <<clients, closed, phase>>
        /\ Then(c, <<>>)
    BY <1>24 DEF UpdateScreenShareState, Section, At, data, registry, pumps
  <2> QED
    BY <2>1, <1>types, <1>then, <1>none
<1>25. ASSUME NEW c \in Conns, RestoreRoom(c)
      PROVE  Goal
  <2>1. /\ todo[c] # <<>> /\ UNCHANGED <<clients, closed, phase>>
        /\ Then(c, <<>>)
    BY <1>25 DEF RestoreRoom, Section, At, data, registry, pumps
  <2> QED
    BY <2>1, <1>types, <1>then, <1>none
<1>26. ASSUME NEW c \in Conns, Unlock(c)
      PROVE  Goal
  <2>1. /\ todo[c] # <<>> /\ UNCHANGED <<clients, closed, phase>>
        /\ Then(c, <<>>)
    BY <1>26 DEF Unlock, Section, At, data, registry, pumps
  <2> QED
    BY <2>1, <1>types, <1>then, <1>none
<1>reply. ASSUME NEW c \in Conns, NEW jobs \in Seq(Later), Reply(c, jobs),
                 UNCHANGED <<registry, pumps>>
          PROVE  Goal
  BY <1>reply, <1>types, <1>given DEF Reply, registry, pumps
<1>27. ASSUME NEW c \in Conns, NEW r \in RoomIDs, CreateRoom(c, r)
      PROVE  Goal
  <2>1. /\ UNCHANGED <<registry, pumps>>
        /\ \/ Reply(c, SendSystem(c))
           \/ Reply(c, SendSystem(c) \o BroadcastRoomMeta(r))
    BY <1>27 DEF CreateRoom
  <2>2. SendSystem(c) \o BroadcastRoomMeta(r) \in Seq(Later)
    BY <1>self, ToMembersType, ConcatType
  <2> QED
    BY <2>1, <2>2, <1>self, <1>reply
<1>28. ASSUME NEW c \in Conns, NEW r \in RoomIDs, JoinRoom(c, r)
      PROVE  Goal
  <2>1. /\ UNCHANGED <<registry, pumps>>
        /\ \/ Reply(c, SendSystem(c))
           \/ Reply(c, SendSystem(c) \o BroadcastRoomMeta(r))
    BY <1>28 DEF JoinRoom
  <2>2. SendSystem(c) \o BroadcastRoomMeta(r) \in Seq(Later)
    BY <1>self, ToMembersType, ConcatType
  <2> QED
    BY <2>1, <2>2, <1>self, <1>reply
<1>social. ASSUME NEW u \in Usernames, NEW v \in Usernames
           PROVE  SocialEvent(u, v) \in Seq(Later)
  BY DirectType, ConcatType DEF SocialEvent
<1>29. ASSUME NEW c \in Conns, NEW r \in RoomIDs, NEW u \in Usernames, AddUserToRoom(c, r, u)
      PROVE  Goal
  <2>1. /\ UNCHANGED <<registry, pumps>>
        /\ \/ \E d \in users[u] :
                Reply(c, SendSystem(c) \o SendSystem(d)
                           \o SocialEvent(NameOf[c], u) \o BroadcastRoomMeta(r))
           \/ Reply(c, SendSystem(c))
    BY <1>29 DEF AddUserToRoom
  <2>2. ASSUME NEW d \in users[u]
        PROVE  SendSystem(c) \o SendSystem(d) \o SocialEvent(NameOf[c], u)
                 \o BroadcastRoomMeta(r) \in Seq(Later)
    <3>1. d \in Conns /\ NameOf[c] \in Usernames
      BY <1>types DEF TypeOK
    <3>2. /\ SendSystem(c) \in Seq(Later) /\ SendSystem(d) \in Seq(Later)
          /\ SocialEvent(NameOf[c], u) \in Seq(Later)
          /\ BroadcastRoomMeta(r) \in Seq(Later)
      BY <3>1, <1>self, <1>social, ToMembersType
    <3> QED
      BY <3>2, ConcatType
  <2> QED
    BY <2>1, <2>2, <1>self, <1>reply
<1>30. ASSUME NEW c \in Conns, NEW r \in RoomIDs, CloseRoom(c, r)
      PROVE  Goal
  <2>1. /\ UNCHANGED <<registry, pumps>>
        /\ \/ Reply(c, RefuseThenUnlock(c))
           \/ Reply(c, SendSystem(c) \o Restore(r, rooms[r], NameOf[c])
                         \o UnlockJob)
           \/ Reply(c, NoticeThenUnlock(r))
    BY <1>30 DEF CloseRoom
  <2>2. rooms[r] \in SUBSET Conns /\ NameOf[c] \in Usernames
    BY <1>types DEF TypeOK
  <2>3. RefuseThenUnlock(c) \in Seq(Later)
    BY <1>self, UnlockType, ConcatType DEF RefuseThenUnlock
  <2>4. Restore(r, rooms[r], NameOf[c]) \in Seq(Later)
    BY <2>2, RestoreType
  <2>5. SendSystem(c) \o Restore(r, rooms[r], NameOf[c]) \o UnlockJob
          \in Seq(Later)
    BY <2>4, <1>self, UnlockType, ConcatType
  <2>6. NoticeThenUnlock(r) \in Seq(Later)
    BY <2>2, SendType, UnlockType, ConcatType DEF NoticeThenUnlock
  <2> QED
    BY <2>1, <2>3, <2>5, <2>6, <1>reply
<1>31. ASSUME NEW c \in Conns, NEW r \in RoomIDs, LeaveRoom(c, r)
      PROVE  Goal
  <2> DEFINE left == {d \in rooms[r] : NameOf[d] # NameOf[c]}
             news == IF left = {} THEN <<>>
                     ELSE BroadcastRoomMeta(r) \o BroadcastScreenState(r)
  <2>1. UNCHANGED <<registry, pumps>> /\ Reply(c, news \o SendSystem(c))
    BY <1>31 DEF LeaveRoom
  <2>2. news \in Seq(Later)
    BY <1>none, ToMembersType, ConcatType
  <2>3. news \o SendSystem(c) \in Seq(Later)
    <3> HIDE DEF news
    <3> QED
      BY <2>2, <1>self, ConcatType
  <2> QED
    BY <2>1, <2>3, <1>reply
<1>relay. ASSUME NEW c \in Conns, NEW type, NEW jobs \in Seq(Later),
                 Relay(c, type, jobs)
          PROVE  Goal
  BY <1>relay, <1>reply DEF Relay, data
<1>realtime. ASSUME NEW c \in Conns, NEW r \in RoomIDs, NEW type,
                    NEW jobs \in Seq(Later), Realtime(c, r, type, jobs)
             PROVE  Goal
  <2>1. (IF c \in rooms[r] THEN jobs ELSE SendSystem(c)) \in Seq(Later)
    BY <1>self
  <2> QED
    BY <2>1, <1>realtime, <1>relay DEF Realtime
<1>32. ASSUME NEW c \in Conns, NEW r \in RoomIDs, RoomMessage(c, r)
      PROVE  Goal
  BY <1>32, <1>relay, ToMembersType DEF RoomMessage
<1>33. ASSUME NEW c \in Conns, NEW u \in Usernames, DirectMessage(c, u)
      PROVE  Goal
  BY <1>33, <1>relay, DirectType DEF DirectMessage
<1>34. ASSUME NEW c \in Conns, NEW r \in RoomIDs, VoiceState(c, r)
      PROVE  Goal
  BY <1>34, <1>realtime, ToMembersType DEF VoiceState
<1>35. ASSUME NEW c \in Conns, NEW r \in RoomIDs, NEW u \in Usernames, WebRTCSignal(c, r, u)
      PROVE  Goal
  BY <1>35, <1>realtime, SignalType DEF WebRTCSignal
<1>36. ASSUME NEW c \in Conns, NEW r \in RoomIDs, NEW on \in BOOLEAN, ScreenShare(c, r, on)
      PROVE  Goal
  <2>1. SendToRoom(r) \o Share(r, on) \o BroadcastScreenState(r) \in Seq(Later)
    BY ToMembersType, ShareType, ConcatType
  <2> QED
    BY <1>36, <2>1, <1>realtime DEF ScreenShare
<1>publication. ASSUME NEW jobs \in Seq(Later), Publication(jobs)
                PROVE  Goal
  BY <1>publication, <1>types, <1>given DEF Publication, data, registry, pumps
<1>37. ASSUME NEW r \in RoomIDs, PublishRoomMessage(r)
      PROVE  Goal
  BY <1>37, <1>publication, ToMembersType DEF PublishRoomMessage
<1>38. ASSUME NEW u \in Usernames, NEW v \in Usernames, PublishSocialEvent(u, v)
      PROVE  Goal
  BY <1>38, <1>publication, <1>social DEF PublishSocialEvent
<1> HIDE DEF Goal
<1>run. ASSUME RunStep
        PROVE  Goal
  BY <1>run, <1>10, <1>11, <1>12, <1>13, <1>14, <1>15 DEF RunStep
<1>proceed. ASSUME NEW g \in Goroutines, Proceed(g)
            PROVE  Goal
  BY <1>proceed, <1>16, <1>17, <1>18, <1>19, <1>20 DEF Proceed, SendStep
<1>conn. ASSUME NEW c \in Conns, ProceedConn(c)
         PROVE  Goal
  BY <1>conn, <1>2, <1>21, <1>22, <1>23, <1>24, <1>25, <1>26 DEF ProceedConn
<1>handle. ASSUME NEW c \in Conns, HandleMessage(c)
           PROVE  Goal
  BY <1>handle, <1>27, <1>28, <1>29, <1>30, <1>31, <1>32, <1>33, <1>34, <1>35,
     <1>36 DEF HandleMessage
<1>pumps. ASSUME NEW c \in Conns, Pumps(c)
          PROVE  Goal
  BY <1>pumps, <1>1, <1>3, <1>4, <1>5, <1>6, <1>7, <1>8 DEF Pumps
<1>http. ASSUME HttpHandlers
         PROVE  Goal
  BY <1>http, <1>37, <1>38 DEF HttpHandlers
<1>q. Goal
  BY <1>9, <1>run, <1>proceed, <1>conn, <1>handle, <1>pumps, <1>http DEF Next
<1> QED
  BY <1>q DEF Goal

\* Queues.
LEMMA HeadTailType ==
    ASSUME NEW E, NEW q \in Seq(E), q # <<>>
    PROVE  Head(q) \in E /\ Tail(q) \in Seq(E)
  OBVIOUS

LEMMA AppendType ==
    ASSUME NEW E, NEW q \in Seq(E), NEW e \in E
    PROVE  Append(q, e) \in Seq(E)
  OBVIOUS

\* Every step keeps every variable in its type.
LEMMA TypeStep ==
    ASSUME IInv, Next
    PROVE  TypeOK'
<1> DEFINE Goal == TypeOK'
<1> USE NameAssumption, CapAssumption, DistinctAssumption
<1>types. /\ TypeOK /\ todo' \in [Goroutines -> Seq(Jobs)]
          /\ Conns \subseteq Goroutines /\ Run \in Goroutines
          /\ \A g \in Goroutines : todo[g] # <<>> => Head(todo[g]) \in Jobs
  <2>1. TypeOK /\ todo' \in [Goroutines -> Seq(Jobs)]
    BY TodoStep DEF IInv
  <2>2. ASSUME NEW g \in Goroutines, todo[g] # <<>>
        PROVE  Head(todo[g]) \in Jobs
    <3>1. todo[g] \in Seq(Jobs)
      BY <2>1 DEF TypeOK
    <3> QED
      BY <3>1, <2>2
  <2> QED
    BY <2>1, <2>2 DEF Goroutines
<1>rooms. /\ open \subseteq RoomIDs /\ stale \subseteq RoomIDs
          /\ rooms \in [RoomIDs -> SUBSET Conns]
          /\ roomOwners \in [RoomIDs -> Usernames \cup {NoOne}]
          /\ roomScreen \in [RoomIDs -> SUBSET Usernames]
          /\ dbOwner \in [RoomIDs -> Usernames \cup {NoOne}]
          /\ dbMembers \in [RoomIDs -> SUBSET Usernames]
          /\ users \in [Usernames -> SUBSET Conns]
          /\ mu \in Conns \cup {NoOne} /\ issued \in 0..MaxRequests
  BY <1>types DEF TypeOK
<1>1. ASSUME NEW c \in Conns, Connect(c)
      PROVE  Goal
  BY <1>1, <1>types
     DEF TypeOK, Connect, Phases, data, registry, roomState, database,
         presence, pumps, control
<1>2. ASSUME NEW c \in Conns, StartPumps(c)
      PROVE  Goal
  BY <1>2, <1>types
     DEF TypeOK, StartPumps, Phases, data, registry, roomState, database,
         presence, pumps, control
<1>3. ASSUME NEW c \in Conns, Drain(c)
      PROVE  Goal
  BY <1>3, <1>types
     DEF TypeOK, Drain, Phases, data, registry, roomState, database,
         presence, pumps, control
<1>4. ASSUME NEW c \in Conns, WriterSeesClose(c)
      PROVE  Goal
  BY <1>4, <1>types
     DEF TypeOK, WriterSeesClose, Phases, data, registry, roomState,
         database, presence, pumps, control
<1>5. ASSUME NEW c \in Conns, WriteFails(c)
      PROVE  Goal
  BY <1>5, <1>types
     DEF TypeOK, WriteFails, Phases, data, registry, roomState, database,
         presence, pumps, control
<1>6. ASSUME NEW c \in Conns, ReadFails(c)
      PROVE  Goal
  BY <1>6, <1>types
     DEF TypeOK, ReadFails, Phases, data, registry, roomState, database,
         presence, pumps, control
<1>7. ASSUME NEW c \in Conns, RunTakesUnregister(c)
      PROVE  Goal
  BY <1>7, <1>types
     DEF TypeOK, RunTakesUnregister, Phases, data, registry, roomState,
         database, presence, pumps, control
<1>8. ASSUME Crash
      PROVE  Goal
  <2>1. /\ clients' \subseteq Conns /\ closed' \subseteq Conns
        /\ evicted' \subseteq Conns /\ open' \subseteq RoomIDs
        /\ stale' \subseteq RoomIDs /\ writing' \subseteq Conns
        /\ presenceEvents' = <<>>
        /\ overflowed' \in BOOLEAN /\ mu' \in Conns \cup {NoOne}
        /\ crashed' \in BOOLEAN /\ UNCHANGED <<dbOwner, dbMembers, issued>>
    BY <1>8 DEF Crash, database
  <2>2. /\ users' \in [Usernames -> SUBSET Conns]
        /\ rooms' \in [RoomIDs -> SUBSET Conns]
        /\ roomOwners' \in [RoomIDs -> Usernames \cup {NoOne}]
        /\ roomScreen' \in [RoomIDs -> SUBSET Usernames]
    BY <1>8 DEF Crash
  <2>3. /\ announced' \in [Usernames -> BOOLEAN]
        /\ buffered' \in [Conns -> 0..SendCap]
        /\ phase' \in [Conns -> Phases]
    BY <1>8, <1>types DEF Crash, Phases, TypeOK
  <2>4. todo' \in [Goroutines -> Seq(Jobs)] /\ dbOwner' = dbOwner
        /\ dbMembers' = dbMembers /\ issued' = issued
    BY <2>1, <1>types
  <2>5. TypeOK
    BY <1>types
  <2> HIDE DEF Goal
  <2>6. TypeOK'
    BY ONLY <2>1, <2>2, <2>3, <2>4, <2>5 DEF TypeOK
  <2> QED
    BY ONLY <2>6 DEF Goal
<1>9. ASSUME Restart
      PROVE  Goal
  BY <1>9, <1>types
     DEF TypeOK, Restart, data, registry, roomState, database, presence,
         pumps, control
<1>publish. ASSUME NEW u \in Usernames, NEW on \in BOOLEAN, Publish(u, on)
            PROVE  /\ presenceEvents' \in Seq([user : Usernames, online : BOOLEAN])
                   /\ overflowed' \in BOOLEAN
  <2>1. presenceEvents \in Seq([user : Usernames, online : BOOLEAN])
    BY <1>types DEF TypeOK
  <2>2. [user |-> u, online |-> on] \in [user : Usernames, online : BOOLEAN]
    OBVIOUS
  <2>3. overflowed \in BOOLEAN
    BY <1>types DEF TypeOK
  <2>4. Append(presenceEvents, [user |-> u, online |-> on])
          \in Seq([user : Usernames, online : BOOLEAN])
    <3> HIDE DEF Publish
    <3> QED
      BY <2>1, <2>2, AppendType
  <2> QED
    BY <1>publish, <2>1, <2>3, <2>4 DEF Publish
<1>queued. ASSUME NEW c \in Conns, EnterClient(c) \/ RemoveClient(c)
           PROVE  /\ presenceEvents' \in Seq([user : Usernames, online : BOOLEAN])
                  /\ overflowed' \in BOOLEAN
  <2>1. \/ Publish(NameOf[c], TRUE) \/ Publish(NameOf[c], FALSE)
        \/ UNCHANGED <<presenceEvents, overflowed>>
    BY <1>queued DEF EnterClient, RemoveClient
  <2> QED
    BY <2>1, <1>publish, <1>types DEF TypeOK
<1>10. ASSUME NEW c \in Conns, EnterClient(c)
      PROVE  Goal
  <2>1. /\ clients' = clients \cup {c}
        /\ users' = [users EXCEPT ![NameOf[c]] = users[NameOf[c]] \cup {c}]
        /\ UNCHANGED <<closed, evicted, roomState, database, pumps, announced,
                       control>>
    BY <1>10 DEF EnterClient
  <2>2. users' \in [Usernames -> SUBSET Conns]
    BY <2>1, <1>types DEF TypeOK
  <2> QED
    BY <1>10, <2>1, <2>2, <1>queued, <1>types
       DEF TypeOK, roomState, database, pumps, control
<1>11. ASSUME NEW c \in Conns, IgnoreUnregister(c)
      PROVE  Goal
  BY <1>11, <1>types
     DEF TypeOK, IgnoreUnregister, data, registry, roomState, database,
         presence, pumps, control
<1>12. ASSUME NEW c \in Conns, RemoveClient(c)
      PROVE  Goal
  <2>1. /\ clients' \subseteq Conns /\ closed' \subseteq Conns
        /\ evicted' \subseteq Conns /\ open' \subseteq RoomIDs
        /\ UNCHANGED <<stale, database, pumps, announced, control>>
    BY <1>12, <1>types DEF RemoveClient, TypeOK
  <2>2. users' \in [Usernames -> SUBSET Conns]
    BY <1>12, <1>types DEF RemoveClient, IndexWithout, TypeOK
  <2>3. rooms' \in [RoomIDs -> SUBSET Conns]
    BY <1>12, <1>types DEF RemoveClient, RoomsWithout, TypeOK
  <2>4. /\ roomOwners' \in [RoomIDs -> Usernames \cup {NoOne}]
        /\ roomScreen' \in [RoomIDs -> SUBSET Usernames]
    BY <1>12, <1>types DEF RemoveClient, TypeOK
  <2> QED
    BY <1>12, <2>1, <2>2, <2>3, <2>4, <1>queued, <1>types
       DEF TypeOK, database, pumps, control
<1>13. ASSUME NEW r \in RoomIDs, RefreshRoom(r)
      PROVE  Goal
  BY <1>13, <1>types
     DEF TypeOK, RefreshRoom, data, registry, roomState, database, presence,
         pumps, control
<1>14. ASSUME BroadcastPresence
      PROVE  Goal
  <2> DEFINE event == Head(presenceEvents)
  <2>1. /\ presenceEvents # <<>> /\ presenceEvents' = Tail(presenceEvents)
        /\ announced' = [announced EXCEPT ![event.user] = event.online]
        /\ UNCHANGED <<registry, roomState, database, pumps, overflowed, control>>
    BY <1>14 DEF BroadcastPresence
  <2>2. event \in [user : Usernames, online : BOOLEAN]
    <3>1. presenceEvents \in Seq([user : Usernames, online : BOOLEAN])
      BY <1>types DEF TypeOK
    <3> QED
      BY <3>1, <2>1, HeadTailType
  <2>3. announced' \in [Usernames -> BOOLEAN]
    BY <2>1, <2>2, <1>types DEF TypeOK
  <2>4. presenceEvents' \in Seq([user : Usernames, online : BOOLEAN])
    BY <2>1, <1>types, HeadTailType DEF TypeOK
  <2>5. TypeOK /\ todo' \in [Goroutines -> Seq(Jobs)]
    BY <1>types
  <2> HIDE DEF Goal
  <2>6. TypeOK'
    BY ONLY <2>1, <2>3, <2>4, <2>5
       DEF TypeOK, registry, roomState, database, pumps, control
  <2> QED
    BY ONLY <2>6 DEF Goal
<1>15. ASSUME NEW g \in Goroutines, NEW c \in Conns, SendBuffered(g, c)
      PROVE  Goal
  <2>1. /\ buffered' = [buffered EXCEPT ![c] = buffered[c] + 1]
        /\ buffered[c] < SendCap
        /\ UNCHANGED <<data, phase, writing, control>>
    BY <1>15 DEF SendBuffered, HasSpace
  <2>2. TypeOK /\ todo' \in [Goroutines -> Seq(Jobs)]
    BY <1>types
  <2>3. buffered' \in [Conns -> 0..SendCap]
    BY <2>1, <2>2 DEF TypeOK
  <2> HIDE DEF Goal
  <2>4. TypeOK'
    BY ONLY <2>1, <2>2, <2>3
       DEF TypeOK, data, registry, roomState, database, presence, control
  <2> QED
    BY ONLY <2>4 DEF Goal
<1>16. ASSUME NEW g \in Goroutines, NEW c \in Conns, SendDropped(g, c)
      PROVE  Goal
  BY <1>16, <1>types
     DEF TypeOK, SendDropped, data, registry, roomState, database, presence,
         pumps, control
<1>17. ASSUME NEW g \in Goroutines, NEW c \in Conns, SendEvicts(g, c)
      PROVE  Goal
  BY <1>17, <1>types
     DEF TypeOK, SendEvicts, data, registry, roomState, database, presence,
         pumps, control
<1>18. ASSUME NEW g \in Goroutines, NEW c \in Conns, SendPanics(g, c)
      PROVE  Goal
  BY <1>18, <1>types
     DEF TypeOK, SendPanics, Phases, data, registry, roomState, database,
         presence, pumps, control
<1>19. ASSUME NEW g \in Goroutines, CopyRecipients(g)
      PROVE  Goal
  BY <1>19, <1>types
     DEF TypeOK, CopyRecipients, data, registry, roomState, database,
         presence, pumps, control
<1>20. ASSUME NEW c \in Conns, ListRooms(c)
      PROVE  Goal
  BY <1>20, <1>types
     DEF TypeOK, ListRooms, data, registry, roomState, database, presence,
         pumps, control
<1>21. ASSUME NEW c \in Conns, NEW row \in Rows, RehydrateJoin(c, row)
      PROVE  Goal
  BY <1>21, <1>types
     DEF TypeOK, RehydrateJoin, Rows, data, registry, roomState, database,
         presence, pumps, control
<1>22. ASSUME NEW c \in Conns, ForwardSignal(c)
      PROVE  Goal
  BY <1>22, <1>types
     DEF TypeOK, ForwardSignal, data, registry, roomState, database,
         presence, pumps, control
<1>23. ASSUME NEW c \in Conns, UpdateScreenShareState(c)
      PROVE  Goal
  BY <1>23, <1>types, JobFields
     DEF TypeOK, UpdateScreenShareState, Section, At, data, registry,
         roomState, database, presence, pumps, control
<1>24. ASSUME NEW c \in Conns, RestoreRoom(c)
      PROVE  Goal
  BY <1>24, <1>types, JobFields
     DEF TypeOK, RestoreRoom, At, data, registry, roomState, database,
         presence, pumps, control
<1>25. ASSUME NEW c \in Conns, Unlock(c)
      PROVE  Goal
  BY <1>25, <1>types
     DEF TypeOK, Unlock, data, registry, roomState, database, presence,
         pumps, control
<1>26. ASSUME NEW c \in Conns, NEW r \in RoomIDs, CreateRoom(c, r)
      PROVE  Goal
  <2>0. open' \subseteq RoomIDs
    BY <1>26, <1>rooms DEF CreateRoom, database
  <2>1. rooms' \in [RoomIDs -> SUBSET Conns]
    BY <1>26, <1>rooms DEF CreateRoom, database
  <2>2. roomOwners' \in [RoomIDs -> Usernames \cup {NoOne}]
    BY <1>26, <1>rooms DEF CreateRoom, database
  <2>3. roomScreen' \in [RoomIDs -> SUBSET Usernames] /\ stale' \subseteq RoomIDs
    BY <1>26, <1>rooms DEF CreateRoom, database
  <2>4. dbOwner' \in [RoomIDs -> Usernames \cup {NoOne}]
    BY <1>26, <1>rooms DEF CreateRoom, database
  <2>5. dbMembers' \in [RoomIDs -> SUBSET Usernames]
    BY <1>26, <1>rooms DEF CreateRoom, database
  <2>6. issued' \in 0..MaxRequests /\ mu' \in Conns \cup {NoOne}
    BY <1>26, <1>rooms DEF Request, CreateRoom
  <2>7. UNCHANGED <<registry, pumps, presence, crashed>>
    BY <1>26 DEF CreateRoom
  <2> QED
    BY <2>0, <2>1, <2>2, <2>3, <2>4, <2>5, <2>6, <2>7, <1>types
       DEF TypeOK, registry, pumps, presence
<1>27. ASSUME NEW c \in Conns, NEW r \in RoomIDs, JoinRoom(c, r)
      PROVE  Goal
  <2>0. open' \subseteq RoomIDs
    BY <1>27, <1>rooms DEF JoinRoom, database
  <2>1. rooms' \in [RoomIDs -> SUBSET Conns]
    BY <1>27, <1>rooms DEF JoinRoom, database
  <2>2. roomOwners' \in [RoomIDs -> Usernames \cup {NoOne}]
    BY <1>27, <1>rooms DEF JoinRoom, database
  <2>3. roomScreen' \in [RoomIDs -> SUBSET Usernames] /\ stale' \subseteq RoomIDs
    BY <1>27, <1>rooms DEF JoinRoom, database
  <2>4. dbOwner' \in [RoomIDs -> Usernames \cup {NoOne}]
    BY <1>27, <1>rooms DEF JoinRoom, database
  <2>5. dbMembers' \in [RoomIDs -> SUBSET Usernames]
    BY <1>27, <1>rooms DEF JoinRoom, database, AddsMember
  <2>6. issued' \in 0..MaxRequests /\ mu' \in Conns \cup {NoOne}
    BY <1>27, <1>rooms DEF Request, JoinRoom
  <2>7. UNCHANGED <<registry, pumps, presence, crashed>>
    BY <1>27 DEF JoinRoom
  <2> QED
    BY <2>0, <2>1, <2>2, <2>3, <2>4, <2>5, <2>6, <2>7, <1>types
       DEF TypeOK, registry, pumps, presence
<1>28. ASSUME NEW c \in Conns, NEW r \in RoomIDs, NEW u \in Usernames,
              AddUserToRoom(c, r, u)
      PROVE  Goal
  <2>0. open' \subseteq RoomIDs
    BY <1>28, <1>rooms DEF AddUserToRoom, database
  <2>1. rooms' \in [RoomIDs -> SUBSET Conns]
    BY <1>28, <1>rooms DEF AddUserToRoom, database
  <2>2. roomOwners' \in [RoomIDs -> Usernames \cup {NoOne}]
    BY <1>28, <1>rooms DEF AddUserToRoom, database
  <2>3. roomScreen' \in [RoomIDs -> SUBSET Usernames] /\ stale' \subseteq RoomIDs
    BY <1>28, <1>rooms DEF AddUserToRoom, database
  <2>4. dbOwner' \in [RoomIDs -> Usernames \cup {NoOne}]
    BY <1>28, <1>rooms DEF AddUserToRoom, database
  <2>5. dbMembers' \in [RoomIDs -> SUBSET Usernames]
    BY <1>28, <1>rooms DEF AddUserToRoom, database, AddsMember
  <2>6. issued' \in 0..MaxRequests /\ mu' \in Conns \cup {NoOne}
    BY <1>28, <1>rooms DEF Request, AddUserToRoom
  <2>7. UNCHANGED <<registry, pumps, presence, crashed>>
    BY <1>28 DEF AddUserToRoom
  <2> QED
    BY <2>0, <2>1, <2>2, <2>3, <2>4, <2>5, <2>6, <2>7, <1>types
       DEF TypeOK, registry, pumps, presence
<1>29. ASSUME NEW c \in Conns, NEW r \in RoomIDs, CloseRoom(c, r)
      PROVE  Goal
  <2>0. open' \subseteq RoomIDs
    BY <1>29, <1>rooms DEF CloseRoom, database, ForgetRoom
  <2>1. rooms' \in [RoomIDs -> SUBSET Conns]
    BY <1>29, <1>rooms DEF CloseRoom, database, ForgetRoom
  <2>2. roomOwners' \in [RoomIDs -> Usernames \cup {NoOne}]
    BY <1>29, <1>rooms DEF CloseRoom, database, ForgetRoom
  <2>3. roomScreen' \in [RoomIDs -> SUBSET Usernames] /\ stale' \subseteq RoomIDs
    BY <1>29, <1>rooms DEF CloseRoom, database, ForgetRoom
  <2>4. dbOwner' \in [RoomIDs -> Usernames \cup {NoOne}]
    BY <1>29, <1>rooms DEF CloseRoom, database
  <2>5. dbMembers' \in [RoomIDs -> SUBSET Usernames]
    BY <1>29, <1>rooms DEF CloseRoom, database
  <2>6. issued' \in 0..MaxRequests /\ mu' \in Conns \cup {NoOne}
    BY <1>29, <1>rooms DEF Request, CloseRoom
  <2>7. UNCHANGED <<registry, pumps, presence, crashed>>
    BY <1>29 DEF CloseRoom
  <2> QED
    BY <2>0, <2>1, <2>2, <2>3, <2>4, <2>5, <2>6, <2>7, <1>types
       DEF TypeOK, registry, pumps, presence
<1>30. ASSUME NEW c \in Conns, NEW r \in RoomIDs, LeaveRoom(c, r)
      PROVE  Goal
  <2>0. open' \subseteq RoomIDs
    BY <1>30, <1>rooms DEF LeaveRoom, database
  <2>1. rooms' \in [RoomIDs -> SUBSET Conns]
    BY <1>30, <1>rooms DEF LeaveRoom, database
  <2>2. roomOwners' \in [RoomIDs -> Usernames \cup {NoOne}]
    BY <1>30, <1>rooms DEF LeaveRoom, database
  <2>3. roomScreen' \in [RoomIDs -> SUBSET Usernames] /\ stale' \subseteq RoomIDs
    BY <1>30, <1>rooms DEF LeaveRoom, database
  <2>4. dbOwner' \in [RoomIDs -> Usernames \cup {NoOne}]
    BY <1>30, <1>rooms DEF LeaveRoom, database
  <2>5. dbMembers' \in [RoomIDs -> SUBSET Usernames]
    BY <1>30, <1>rooms DEF LeaveRoom, database
  <2>6. issued' \in 0..MaxRequests /\ mu' \in Conns \cup {NoOne}
    BY <1>30, <1>rooms DEF Request, LeaveRoom
  <2>7. UNCHANGED <<registry, pumps, presence, crashed>>
    BY <1>30 DEF LeaveRoom
  <2> QED
    BY <2>0, <2>1, <2>2, <2>3, <2>4, <2>5, <2>6, <2>7, <1>types
       DEF TypeOK, registry, pumps, presence
<1>relay. ASSUME NEW c \in Conns, NEW type, NEW jobs, Relay(c, type, jobs)
          PROVE  Goal
  BY <1>relay, <1>types
     DEF TypeOK, Relay, Request, data, registry, roomState, database,
         presence, pumps, control
<1>31. ASSUME NEW c \in Conns, NEW r \in RoomIDs, RoomMessage(c, r)
      PROVE  Goal
  BY <1>31, <1>relay DEF RoomMessage, Realtime
<1>32. ASSUME NEW c \in Conns, NEW r \in RoomIDs, VoiceState(c, r)
      PROVE  Goal
  BY <1>32, <1>relay DEF VoiceState, Realtime
<1>33. ASSUME NEW c \in Conns, NEW u \in Usernames, DirectMessage(c, u)
      PROVE  Goal
  BY <1>33, <1>relay DEF DirectMessage
<1>34. ASSUME NEW c \in Conns, NEW r \in RoomIDs, NEW u \in Usernames, WebRTCSignal(c, r, u)
      PROVE  Goal
  BY <1>34, <1>relay DEF WebRTCSignal, Realtime
<1>35. ASSUME NEW c \in Conns, NEW r \in RoomIDs, NEW on \in BOOLEAN, ScreenShare(c, r, on)
      PROVE  Goal
  BY <1>35, <1>relay DEF ScreenShare, Realtime
<1>36. ASSUME HttpHandlers
      PROVE  Goal
  BY <1>36, <1>types
     DEF TypeOK, HttpHandlers, PublishRoomMessage, PublishSocialEvent,
         Publication, data, registry, roomState, database, presence, pumps,
         control
<1> HIDE DEF Goal
<1>run. ASSUME RunStep
        PROVE  Goal
  BY <1>run, <1>10, <1>11, <1>12, <1>8, <1>13, <1>14 DEF RunStep, RunPanics
<1>proceed. ASSUME NEW g \in Goroutines, Proceed(g)
            PROVE  Goal
  BY <1>proceed, <1>15, <1>16, <1>17, <1>18, <1>19 DEF Proceed, SendStep
<1>conn. ASSUME NEW c \in Conns, ProceedConn(c)
         PROVE  Goal
  BY <1>conn, <1>2, <1>20, <1>21, <1>22, <1>23, <1>24, <1>25 DEF ProceedConn
<1>handle. ASSUME NEW c \in Conns, HandleMessage(c)
           PROVE  Goal
  BY <1>handle, <1>26, <1>27, <1>28, <1>29, <1>30, <1>31, <1>32, <1>33,
     <1>34, <1>35 DEF HandleMessage
<1>pumps. ASSUME NEW c \in Conns, Pumps(c)
          PROVE  Goal
  BY <1>pumps, <1>1, <1>3, <1>4, <1>5, <1>6, <1>7, <1>8
     DEF Pumps, PanicEndsProcess
<1>q. Goal
  BY <1>9, <1>36, <1>run, <1>proceed, <1>conn, <1>handle, <1>pumps DEF Next
<1> QED
  BY <1>q DEF Goal

----------------------------------------------------------------------------
(* The registry. *)

\* Only the Register and Unregister cases of Run, and the death of the process,
\* change what the hub knows of connections.
LEMMA RegistryChanges ==
    ASSUME Next
    PROVE  \/ UNCHANGED registry
           \/ \E c \in Conns : EnterClient(c)
           \/ \E c \in Conns : RemoveClient(c)
           \/ Crash
<1> DEFINE Goal == \/ UNCHANGED registry
                   \/ \E c \in Conns : EnterClient(c)
                   \/ \E c \in Conns : RemoveClient(c)
                   \/ Crash
<1>1. CASE RunStep
  BY <1>1 DEF RunStep, IgnoreUnregister, RunPanics, RefreshRoom,
              BroadcastPresence, data
<1>2. ASSUME NEW g \in Goroutines, Proceed(g)
      PROVE  Goal
  BY <1>2 DEF Proceed, SendStep, SendBuffered, SendDropped, SendEvicts,
              SendPanics, CopyRecipients, data
<1>3. ASSUME NEW c \in Conns, ProceedConn(c)
      PROVE  Goal
  BY <1>3 DEF ProceedConn, ListRooms, RehydrateJoin, ForwardSignal,
              UpdateScreenShareState, RestoreRoom, Unlock, StartPumps, data
<1>4. ASSUME NEW c \in Conns, HandleMessage(c)
      PROVE  Goal
  <2>1. ASSUME NEW r \in RoomIDs,
               \/ CreateRoom(c, r) \/ JoinRoom(c, r) \/ CloseRoom(c, r)
               \/ LeaveRoom(c, r) \/ \E u \in Usernames : AddUserToRoom(c, r, u)
        PROVE  UNCHANGED registry
    BY <2>1 DEF CreateRoom, JoinRoom, AddUserToRoom, CloseRoom, LeaveRoom
  <2>2. ASSUME NEW type, NEW jobs, Relay(c, type, jobs)
        PROVE  UNCHANGED registry
    BY <2>2 DEF Relay, data
  <2>3. ASSUME NEW r \in RoomIDs,
               \/ RoomMessage(c, r) \/ VoiceState(c, r)
               \/ \E u \in Usernames : WebRTCSignal(c, r, u)
               \/ \E on \in BOOLEAN : ScreenShare(c, r, on)
        PROVE  UNCHANGED registry
    BY <2>3, <2>2
       DEF RoomMessage, VoiceState, WebRTCSignal, ScreenShare, Realtime
  <2>4. ASSUME NEW u \in Usernames, DirectMessage(c, u)
        PROVE  UNCHANGED registry
    BY <2>4, <2>2 DEF DirectMessage
  <2> QED
    BY <1>4, <2>1, <2>3, <2>4 DEF HandleMessage
<1>5. ASSUME NEW c \in Conns, Pumps(c)
      PROVE  Goal
  BY <1>5 DEF Pumps, Connect, Drain, WriterSeesClose, WriteFails, ReadFails,
              RunTakesUnregister, PanicEndsProcess, data
<1>6. CASE HttpHandlers \/ Restart
  BY <1>6 DEF HttpHandlers, PublishRoomMessage, PublishSocialEvent,
              Publication, Restart, data
<1> QED
  BY <1>1, <1>2, <1>3, <1>4, <1>5, <1>6 DEF Next

\* A connection that Run enters has never been registered: its channel is
\* not closed.
LEMMA EntersFresh ==
    ASSUME IInv, NEW c \in Conns, EnterClient(c)
    PROVE  c \notin clients \cup closed /\ phase[c] # "new"
<1>1. /\ todo[Run] # <<>> /\ Head(todo[Run]).op = "register"
      /\ Head(todo[Run]).conn = c
  BY DEF EnterClient, Section, At
<1>2. todo[Run] \notin Seq(Later)
  <2> SUFFICES ASSUME todo[Run] \in Seq(Later)
               PROVE  FALSE
    OBVIOUS
  <2>1. Head(todo[Run]) \in Later
    BY <1>1, HeadTailType
  <2> QED
    BY <2>1, <1>1 DEF Later
<1>3. PICK d \in Conns : /\ todo[Run] = Register(d)
                         /\ d \notin clients \cup closed /\ phase[d] # "new"
  BY <1>2 DEF IInv, EntersOnce, Goroutines
<1>4. d = c
  BY <1>1, <1>3 DEF Register
<1> QED
  BY <1>3, <1>4

\* No connection is made twice.
LEMMA NeverNewAgain ==
    ASSUME IInv, Next, NEW c \in Conns, phase'[c] = "new"
    PROVE  phase[c] = "new"
<1>types. phase \in [Conns -> Phases]
  BY DEF IInv, TypeOK
<1>1. CASE UNCHANGED phase
  BY <1>1
<1>2. CASE \E d \in Conns : \/ Connect(d) \/ StartPumps(d) \/ ReadFails(d)
                            \/ RunTakesUnregister(d)
  BY <1>2, <1>types DEF Connect, StartPumps, ReadFails, RunTakesUnregister
<1>3. CASE \E g \in Goroutines, d \in Conns : SendPanics(g, d)
  BY <1>3 DEF SendPanics
<1>4. CASE Crash
  BY <1>4 DEF Crash
<1>5. CASE RunStep
  BY <1>5, <1>1, <1>4 DEF RunStep, EnterClient, IgnoreUnregister, RemoveClient,
     RunPanics, RefreshRoom, BroadcastPresence, pumps
<1>6. ASSUME NEW g \in Goroutines, Proceed(g)
      PROVE  phase[c] = "new"
  BY <1>6, <1>1, <1>3 DEF Proceed, SendStep, SendBuffered, SendDropped,
     SendEvicts, CopyRecipients, pumps
<1>7. ASSUME NEW d \in Conns, ProceedConn(d)
      PROVE  phase[c] = "new"
  BY <1>7, <1>1, <1>2 DEF ProceedConn, ListRooms, RehydrateJoin,
     ForwardSignal, UpdateScreenShareState, RestoreRoom, Unlock, pumps
<1>8. ASSUME NEW d \in Conns, HandleMessage(d)
      PROVE  phase[c] = "new"
  <2>1. UNCHANGED pumps
    BY <1>8 DEF HandleMessage, CreateRoom, JoinRoom, AddUserToRoom, CloseRoom,
       LeaveRoom, RoomMessage, VoiceState, WebRTCSignal, ScreenShare,
       DirectMessage, Realtime, Relay
  <2> QED
    BY <2>1, <1>1 DEF pumps
<1>9. ASSUME NEW d \in Conns, Pumps(d)
      PROVE  phase[c] = "new"
  BY <1>9, <1>1, <1>2, <1>4 DEF Pumps, Drain, WriterSeesClose, WriteFails,
     PanicEndsProcess
<1>10. CASE HttpHandlers \/ Restart
  BY <1>10, <1>1 DEF HttpHandlers, PublishRoomMessage, PublishSocialEvent,
     Publication, Restart, pumps
<1> QED
  BY <1>5, <1>6, <1>7, <1>8, <1>9, <1>10 DEF Next

\* Every step keeps h.Users and h.Clients in agreement, and never closes the
\* channel of a connection that stays in them.
LEMMA RegistryStep ==
    ASSUME IInv, Next
    PROVE  RegistryConsistent' /\ NewUnknown'
<1> USE NameAssumption
<1>types. /\ RegistryConsistent /\ NewUnknown
          /\ users \in [Usernames -> SUBSET Conns] /\ clients \subseteq Conns
          /\ \A c \in Conns : phase'[c] = "new" => phase[c] = "new"
  BY NeverNewAgain DEF IInv, TypeOK
<1>1. CASE UNCHANGED registry
  BY <1>1, <1>types DEF registry, RegistryConsistent, NewUnknown
<1>2. ASSUME NEW c \in Conns, EnterClient(c)
      PROVE  RegistryConsistent' /\ NewUnknown'
  <2>1. /\ clients' = clients \cup {c} /\ UNCHANGED <<closed, phase>>
        /\ users' = [users EXCEPT ![NameOf[c]] = users[NameOf[c]] \cup {c}]
    BY <1>2 DEF EnterClient, pumps
  <2>2. c \notin clients \cup closed /\ phase[c] # "new"
    BY <1>2, EntersFresh
  <2>3. RegistryConsistent'
    BY <2>1, <2>2, <1>types DEF RegistryConsistent
  <2> QED
    BY <2>1, <2>2, <2>3, <1>types DEF NewUnknown
<1>3. ASSUME NEW c \in Conns, RemoveClient(c)
      PROVE  RegistryConsistent' /\ NewUnknown'
  <2>1. /\ c \in clients /\ clients' = clients \ {c}
        /\ closed' = closed \cup {c} /\ UNCHANGED phase
        /\ users' = [users EXCEPT ![NameOf[c]] = users[NameOf[c]] \ {c}]
    BY <1>3 DEF RemoveClient, IndexWithout, pumps
  <2>2. RegistryConsistent'
    BY <2>1, <1>types DEF RegistryConsistent
  <2> QED
    BY <2>1, <2>2, <1>types DEF NewUnknown
<1>4. CASE Crash
  BY <1>4 DEF Crash, RegistryConsistent, NewUnknown
<1> QED
  BY <1>1, <1>2, <1>3, <1>4, RegistryChanges

----------------------------------------------------------------------------
(* Rooms. *)

\* Every step that takes a room out of h.Rooms, and every one that changes
\* RoomOwners or RoomScreen, leaves nothing behind for absent rooms.
LEMMA RoomsStep ==
    ASSUME IInv, Next
    PROVE  DeletedRoomsLeaveNothing'
<1> DEFINE Goal == DeletedRoomsLeaveNothing'
<1> USE NameAssumption
<1>types. /\ DeletedRoomsLeaveNothing
          /\ open \subseteq RoomIDs
          /\ rooms \in [RoomIDs -> SUBSET Conns]
          /\ roomOwners \in [RoomIDs -> Usernames \cup {NoOne}]
          /\ roomScreen \in [RoomIDs -> SUBSET Usernames]
  BY DEF IInv, TypeOK
<1>same. ASSUME UNCHANGED roomState
         PROVE  Goal
  BY <1>same, <1>types DEF roomState, DeletedRoomsLeaveNothing
<1>crash. ASSUME Crash
          PROVE  Goal
  BY <1>crash DEF Crash, DeletedRoomsLeaveNothing
<1>1. ASSUME NEW c \in Conns, RemoveClient(c)
      PROVE  Goal
  <2>1. /\ open' = open \ SweptRooms(c) /\ rooms' = RoomsWithout(c)
        /\ roomOwners' = [r \in RoomIDs |->
                             IF r \in SweptRooms(c) THEN NoOne ELSE roomOwners[r]]
        /\ roomScreen' = [r \in RoomIDs |->
                             IF r \in SweptRooms(c) THEN {}
                             ELSE roomScreen[r] \ {NameOf[c]}]
    BY <1>1 DEF RemoveClient
  <2>2. ASSUME NEW r \in RoomIDs, r \notin open'
        PROVE  rooms'[r] = {} /\ roomOwners'[r] = NoOne /\ roomScreen'[r] = {}
    <3>1. CASE r \in SweptRooms(c)
      BY <3>1, <2>1 DEF SweptRooms, RoomsWithout
    <3>2. CASE r \notin SweptRooms(c)
      BY <3>2, <2>1, <2>2, <1>types DEF RoomsWithout, DeletedRoomsLeaveNothing
    <3> QED
      BY <3>1, <3>2
  <2> QED
    BY <2>2 DEF DeletedRoomsLeaveNothing
<1>2. ASSUME NEW c \in Conns, NEW row \in Rows, RehydrateJoin(c, row)
      PROVE  Goal
  BY <1>2, <1>types DEF RehydrateJoin, Rows, DeletedRoomsLeaveNothing
<1>3. ASSUME NEW c \in Conns, UpdateScreenShareState(c)
      PROVE  Goal
  BY <1>3, <1>types DEF UpdateScreenShareState, DeletedRoomsLeaveNothing
<1>4. ASSUME NEW c \in Conns, RestoreRoom(c)
      PROVE  Goal
  BY <1>4, <1>types DEF RestoreRoom, DeletedRoomsLeaveNothing
<1>5. ASSUME NEW c \in Conns, NEW r \in RoomIDs, CreateRoom(c, r)
      PROVE  Goal
  <2>1. \/ UNCHANGED <<open, rooms, roomOwners>>
        \/ /\ roomOwners' = [roomOwners EXCEPT ![r] = NoOne]
           /\ UNCHANGED <<open, rooms>>
        \/ /\ open' = open \cup {r}
           /\ rooms' = [rooms EXCEPT ![r] = {c}]
           /\ roomOwners' = [roomOwners EXCEPT ![r] = NameOf[c]]
    BY <1>5 DEF CreateRoom
  <2>2. UNCHANGED roomScreen
    BY <1>5 DEF CreateRoom
  <2> QED
    BY <2>1, <2>2, <1>types DEF DeletedRoomsLeaveNothing
<1>6. ASSUME NEW c \in Conns, NEW r \in RoomIDs, JoinRoom(c, r)
      PROVE  Goal
  <2>1. /\ open' = open \cup {r} /\ UNCHANGED <<roomOwners, roomScreen>>
        /\ \/ UNCHANGED rooms
           \/ rooms' = [rooms EXCEPT ![r] = rooms[r] \cup {c}]
    BY <1>6 DEF JoinRoom
  <2> QED
    BY <2>1, <1>types DEF DeletedRoomsLeaveNothing
<1>7. ASSUME NEW c \in Conns, NEW r \in RoomIDs, NEW u \in Usernames,
             AddUserToRoom(c, r, u)
      PROVE  Goal
  <2>1. /\ UNCHANGED <<open, roomOwners, roomScreen>>
        /\ \/ UNCHANGED rooms
           \/ /\ r \in open
              /\ \E d \in Conns \cup users[u] :
                    rooms' = [rooms EXCEPT ![r] = rooms[r] \cup {d}]
    BY <1>7 DEF AddUserToRoom, MayAdd
  <2> QED
    BY <2>1, <1>types DEF DeletedRoomsLeaveNothing
<1>8. ASSUME NEW c \in Conns, NEW r \in RoomIDs, CloseRoom(c, r)
      PROVE  Goal
  <2>1. \/ UNCHANGED <<open, rooms, roomOwners, roomScreen>>
        \/ ForgetRoom(r)
    BY <1>8 DEF CloseRoom
  <2> QED
    BY <2>1, <1>types DEF ForgetRoom, DeletedRoomsLeaveNothing
<1>9. ASSUME NEW c \in Conns, NEW r \in RoomIDs, LeaveRoom(c, r)
      PROVE  Goal
  <2> DEFINE left == {d \in rooms[r] : NameOf[d] # NameOf[c]}
  <2>1. /\ rooms' = [rooms EXCEPT ![r] = left]
        /\ open' = IF left = {} THEN open \ {r} ELSE open
        /\ roomOwners' = [roomOwners EXCEPT ![r] =
                             IF left = {} THEN NoOne ELSE roomOwners[r]]
        /\ roomScreen' = [roomScreen EXCEPT ![r] =
                             IF left = {} THEN {}
                             ELSE roomScreen[r] \ {NameOf[c]}]
        /\ r \in open
    BY <1>9 DEF LeaveRoom
  <2>2. ASSUME NEW s \in RoomIDs, s \notin open'
        PROVE  rooms'[s] = {} /\ roomOwners'[s] = NoOne /\ roomScreen'[s] = {}
    <3>1. CASE s = r
      BY <3>1, <2>1, <2>2, <1>types
    <3>2. CASE s # r
      BY <3>2, <2>1, <2>2, <1>types DEF DeletedRoomsLeaveNothing
    <3> QED
      BY <3>1, <3>2
  <2> QED
    BY <2>2 DEF DeletedRoomsLeaveNothing
<1> HIDE DEF Goal
<1>run. ASSUME RunStep
        PROVE  Goal
  BY <1>run, <1>same, <1>crash, <1>1 DEF RunStep, EnterClient,
     IgnoreUnregister, RunPanics, RefreshRoom, BroadcastPresence, data
<1>proceed. ASSUME NEW g \in Goroutines, Proceed(g)
            PROVE  Goal
  BY <1>proceed, <1>same DEF Proceed, SendStep, SendBuffered, SendDropped,
     SendEvicts, SendPanics, CopyRecipients, data
<1>conn. ASSUME NEW c \in Conns, ProceedConn(c)
         PROVE  Goal
  BY <1>conn, <1>same, <1>2, <1>3, <1>4 DEF ProceedConn, ListRooms,
     ForwardSignal, Unlock, StartPumps, data
<1>handle. ASSUME NEW c \in Conns, HandleMessage(c)
           PROVE  Goal
  <2>1. ASSUME NEW type, NEW jobs, Relay(c, type, jobs)
        PROVE  Goal
    BY <2>1, <1>same DEF Relay, data
  <2>2. ASSUME NEW r \in RoomIDs,
               \/ RoomMessage(c, r) \/ VoiceState(c, r)
               \/ \E u \in Usernames : WebRTCSignal(c, r, u)
               \/ \E on \in BOOLEAN : ScreenShare(c, r, on)
        PROVE  Goal
    BY <2>2, <2>1
       DEF RoomMessage, VoiceState, WebRTCSignal, ScreenShare, Realtime
  <2>3. ASSUME NEW u \in Usernames, DirectMessage(c, u)
        PROVE  Goal
    BY <2>3, <2>1 DEF DirectMessage
  <2> QED
    BY <1>handle, <2>2, <2>3, <1>5, <1>6, <1>7, <1>8, <1>9 DEF HandleMessage
<1>pumps. ASSUME NEW c \in Conns, Pumps(c)
          PROVE  Goal
  BY <1>pumps, <1>same, <1>crash DEF Pumps, Connect, Drain, WriterSeesClose,
     WriteFails, ReadFails, RunTakesUnregister, PanicEndsProcess, data
<1>rest. ASSUME HttpHandlers \/ Restart
         PROVE  Goal
  BY <1>rest, <1>same DEF HttpHandlers, PublishRoomMessage,
     PublishSocialEvent, Publication, Restart, data
<1>q. Goal
  BY <1>run, <1>proceed, <1>conn, <1>handle, <1>pumps, <1>rest DEF Next
<1> QED
  BY <1>q DEF Goal

----------------------------------------------------------------------------
(* The invariant. *)

LEMMA InitIInv == Init => IInv
<1> SUFFICES ASSUME Init
             PROVE  IInv
  OBVIOUS
<1> USE NameAssumption, CapAssumption, DistinctAssumption
<1>1. TypeOK
  <2>1. /\ users \in [Usernames -> SUBSET Conns]
        /\ rooms \in [RoomIDs -> SUBSET Conns]
        /\ roomOwners \in [RoomIDs -> Usernames \cup {NoOne}]
        /\ roomScreen \in [RoomIDs -> SUBSET Usernames]
    BY DEF Init, NewHub
  <2>rows. /\ dbOwner \in [RoomIDs -> Usernames \cup {NoOne}]
           /\ dbMembers \in [RoomIDs -> SUBSET Usernames]
    <3>1. PICK past \in [RoomIDs -> PastRows] :
            /\ dbOwner = [r \in RoomIDs |-> past[r].owner]
            /\ dbMembers = [r \in RoomIDs |-> past[r].members]
      BY DEF Init
    <3>2. \A r \in RoomIDs : /\ past[r].owner \in Usernames \cup {NoOne}
                             /\ past[r].members \in SUBSET Usernames
      BY PastAssumption
    <3> QED
      BY <3>1, <3>2
  <2>2. /\ phase \in [Conns -> Phases]
        /\ buffered \in [Conns -> 0..SendCap]
        /\ announced \in [Usernames -> BOOLEAN]
    BY DEF Init, NewHub, Phases
  <2>3. todo \in [Goroutines -> Seq(Jobs)]
    BY DEF Init, NewHub
  <2>4. presenceEvents \in Seq([user : Usernames, online : BOOLEAN])
    <3>1. presenceEvents = <<>>
      BY DEF Init, NewHub
    <3> QED
      BY <3>1
  <2>5. /\ clients \subseteq Conns /\ closed \subseteq Conns
        /\ evicted \subseteq Conns /\ open \subseteq RoomIDs
        /\ stale \subseteq RoomIDs /\ writing \subseteq Conns
        /\ mu \in Conns \cup {NoOne}
    BY DEF Init, NewHub
  <2>6. overflowed \in BOOLEAN /\ crashed \in BOOLEAN
    BY Zenon DEF Init, NewHub
  <2>7. issued \in 0..MaxRequests
    BY DEF Init
  <2> QED
    BY <2>1, <2>rows, <2>2, <2>3, <2>4, <2>5, <2>6, <2>7 DEF TypeOK
<1>2. EntersOnce
  BY DEF Init, NewHub, EntersOnce
<1>3. NewUnknown /\ RegistryConsistent /\ DeletedRoomsLeaveNothing
  BY DEF Init, NewHub, NewUnknown, RegistryConsistent, DeletedRoomsLeaveNothing
<1> QED
  BY <1>1, <1>2, <1>3 DEF IInv

LEMMA StutterIInv == IInv /\ UNCHANGED vars => IInv'
  BY DEF IInv, vars, data, control, registry, roomState, database, pumps,
         presence, TypeOK, EntersOnce, NewUnknown, RegistryConsistent,
         DeletedRoomsLeaveNothing

LEMMA StepIInv == IInv /\ [Next]_vars => IInv'
<1> SUFFICES ASSUME IInv, [Next]_vars
             PROVE  IInv'
  OBVIOUS
<1>1. CASE Next
  BY <1>1, TodoStep, TypeStep, RegistryStep, RoomsStep DEF IInv
<1>2. CASE UNCHANGED vars
  BY <1>2, StutterIInv
<1> QED
  BY <1>1, <1>2

\* IInv is an invariant of the hub.
THEOREM Invariance == Spec => []IInv
<1> QED
  BY InitIInv, StepIInv, PTL DEF Spec

\* Every variable stays in its type: no Send channel is ever over its capacity,
\* and no job ever names a room, user or connection that does not exist.
THEOREM TypeCorrectness == Spec => []TypeOK
<1>1. IInv => TypeOK
  BY DEF IInv
<1> QED
  BY <1>1, Invariance, PTL

\* h.Users is always the index of h.Clients by username, and nothing in either
\* has a closed channel, so that Run never closes a channel twice.
THEOREM RegistryConsistency == Spec => []RegistryConsistent
<1>1. IInv => RegistryConsistent
  BY DEF IInv
<1> QED
  BY <1>1, Invariance, PTL

\* Wherever a room is taken out of h.Rooms its owner and sharers go with it.
THEOREM CleanDeletion == Spec => []DeletedRoomsLeaveNothing
<1>1. IInv => DeletedRoomsLeaveNothing
  BY DEF IInv
<1> QED
  BY <1>1, Invariance, PTL

----------------------------------------------------------------------------
(* Presence: unless its channel overflowed, the last event about a user says *)
(* whether the user has a connection.                                        *)

Events == [user : Usernames, online : BOOLEAN]

\* What queue q says last of user u, of whom "said" was broadcast before.
Latest(q, said, u) ==
    LET about == {i \in DOMAIN q : q[i].user = u}
    IN  IF about = {} THEN said
        ELSE \E i \in about : q[i].online /\ \A j \in about : j <= i

LEMMA LatestIs ==
    ASSUME NEW u \in Usernames
    PROVE  LatestPresence(u) = Latest(presenceEvents, announced[u], u)
  BY DEF LatestPresence, Latest

LEMMA LatestType ==
    ASSUME NEW q, NEW said \in BOOLEAN, NEW u
    PROVE  Latest(q, said, u) \in BOOLEAN
<1> DEFINE about == {i \in DOMAIN q : q[i].user = u}
<1>1. CASE about = {}
  BY <1>1 DEF Latest
<1>2. CASE about # {}
  BY <1>2 DEF Latest
<1> QED
  BY <1>1, <1>2

\* A new event is the latest about its user, and about nobody else.
LEMMA LatestAppend ==
    ASSUME NEW q \in Seq(Events), NEW e \in Events, NEW said \in BOOLEAN,
           NEW u \in Usernames
    PROVE  Latest(Append(q, e), said, u)
             <=> IF e.user = u THEN e.online ELSE Latest(q, said, u)
<1> DEFINE p == Append(q, e)
           about == {i \in DOMAIN q : q[i].user = u}
           now == {i \in DOMAIN p : p[i].user = u}
           n == Len(q) + 1
<1>1. /\ Len(q) \in Nat /\ DOMAIN q = 1..Len(q) /\ DOMAIN p = 1..n
      /\ p[n] = e /\ \A i \in 1..Len(q) : p[i] = q[i]
  OBVIOUS
<1> HIDE DEF p
<1>2. CASE e.user = u
  <2>1. n \in now /\ \A i \in now : i <= n
    BY <1>1, <1>2
  <2>2. \A i \in now : (\A j \in now : j <= i) => i = n
    BY <1>1, <2>1
  <2>3. (\E i \in now : p[i].online /\ \A j \in now : j <= i) <=> e.online
    BY <1>1, <2>1, <2>2
  <2>4. now # {}
    BY <2>1
  <2> HIDE DEF now
  <2>5. Latest(p, said, u) <=> \E i \in now : p[i].online /\ \A j \in now : j <= i
    BY <2>4 DEF Latest, now
  <2> QED
    BY <1>2, <2>3, <2>5 DEF p
<1>3. CASE e.user # u
  <2>1. now = about
    BY <1>1, <1>3
  <2>2. \A i \in about : p[i] = q[i]
    BY <1>1
  <2>3. (\E i \in now : p[i].online /\ \A j \in now : j <= i)
          <=> \E i \in about : q[i].online /\ \A j \in about : j <= i
    BY <2>1, <2>2
  <2> HIDE DEF now, about
  <2>4. Latest(p, said, u)
          <=> IF now = {} THEN said
              ELSE \E i \in now : p[i].online /\ \A j \in now : j <= i
    BY DEF Latest, now
  <2>5. Latest(q, said, u)
          <=> IF about = {} THEN said
              ELSE \E i \in about : q[i].online /\ \A j \in about : j <= i
    BY DEF Latest, about
  <2> QED
    BY <1>3, <2>1, <2>3, <2>4, <2>5 DEF p
<1> QED
  BY <1>2, <1>3

\* Broadcasting the oldest event changes nobody's latest one.
LEMMA LatestTail ==
    ASSUME NEW q \in Seq(Events), q # <<>>, NEW said \in BOOLEAN,
           NEW u \in Usernames
    PROVE  Latest(Tail(q), IF Head(q).user = u THEN Head(q).online ELSE said, u)
             <=> Latest(q, said, u)
<1> DEFINE p == Tail(q)
           then == IF Head(q).user = u THEN Head(q).online ELSE said
           about == {i \in DOMAIN q : q[i].user = u}
           now == {i \in DOMAIN p : p[i].user = u}
<1>1. /\ Len(q) \in Nat /\ Len(q) > 0 /\ DOMAIN q = 1..Len(q)
      /\ DOMAIN p = 1..(Len(q) - 1) /\ Head(q) = q[1]
      /\ \A i \in 1..(Len(q) - 1) : p[i] = q[i + 1]
  OBVIOUS
<1> HIDE DEF p
<1>2. \A i \in Nat \ {0} : i \in now <=> i + 1 \in about
  BY <1>1
<1>3. \A i \in about : i \in Nat \ {0} /\ (i = 1 \/ i - 1 \in now)
  BY <1>1
<1>4. \A i \in now : i \in Nat \ {0} /\ i + 1 \in about
  BY <1>1
<1>5. 1 \in about <=> Head(q).user = u
  BY <1>1
<1>online. \A i \in now : p[i].online = q[i + 1].online
  BY <1>1
<1> DEFINE Said == \E i \in about : q[i].online /\ \A j \in about : j <= i
           SaidNow == \E i \in now : p[i].online /\ \A j \in now : j <= i
<1>6. Latest(q, said, u) <=> IF about = {} THEN said ELSE Said
  BY DEF Latest
<1>7. Latest(p, then, u) <=> IF now = {} THEN then ELSE SaidNow
  BY DEF Latest
<1> HIDE DEF about, now
<1>8. CASE now # {}
  <2>1. about # {}
    BY <1>4, <1>8
  <2>2. ASSUME SaidNow PROVE Said
    <3>1. PICK i \in now : p[i].online /\ \A j \in now : j <= i
      BY <2>2
    <3>2. i + 1 \in about /\ q[i + 1].online
      BY <3>1, <1>4, <1>online
    <3>3. \A j \in about : j <= i + 1
      BY <3>1, <1>3, <1>4
    <3> QED
      BY <3>2, <3>3
  <2>3. ASSUME Said PROVE SaidNow
    <3>1. PICK i \in about : q[i].online /\ \A j \in about : j <= i
      BY <2>3
    <3>2. PICK k \in now : TRUE
      BY <1>8
    <3>3. i # 1
      BY <3>1, <3>2, <1>4
    <3>4. i - 1 \in now /\ i \in Nat /\ (i - 1) + 1 = i
      BY <3>3, <1>3
    <3>5. p[i - 1].online
      BY <3>1, <3>4, <1>online
    <3>6. \A j \in now : j <= i - 1
      BY <3>1, <3>4, <1>4
    <3> QED
      BY <3>4, <3>5, <3>6
  <2> QED
    BY <1>6, <1>7, <1>8, <2>1, <2>2, <2>3 DEF p
<1>9. CASE now = {}
  <2>1. \A i \in about : i = 1
    BY <1>3, <1>9
  <2>2. CASE Head(q).user = u
    <3>1. 1 \in about /\ about # {}
      BY <2>2, <1>5
    <3>2. Said <=> q[1].online
      BY <2>1, <3>1
    <3>3. then = q[1].online
      BY <2>2, <1>1
    <3> HIDE DEF Said, SaidNow, then
    <3> QED
      BY <1>6, <1>7, <1>9, <3>1, <3>2, <3>3 DEF p, then
  <2>3. CASE Head(q).user # u
    <3>1. about = {}
      BY <2>1, <2>3, <1>5
    <3> QED
      BY <1>6, <1>7, <1>9, <2>3, <3>1 DEF p
  <2> QED
    BY <2>2, <2>3
<1> QED
  BY <1>8, <1>9

----------------------------------------------------------------------------
\* The steps that change who is online or what is said about it.
LEMMA PresenceMoves ==
    ASSUME Next
    PROVE  \/ UNCHANGED <<users, presenceEvents, announced, overflowed>>
           \/ \E c \in Conns : EnterClient(c) \/ RemoveClient(c)
           \/ BroadcastPresence
           \/ Crash
<1> DEFINE Same == UNCHANGED <<users, presenceEvents, announced, overflowed>>
           Goal == \/ Same
                   \/ \E c \in Conns : EnterClient(c) \/ RemoveClient(c)
                   \/ BroadcastPresence
                   \/ Crash
<1>same. ASSUME UNCHANGED <<registry, presence>> PROVE Same
  BY <1>same DEF registry, presence
<1>data. ASSUME UNCHANGED data PROVE Same
  BY <1>data DEF data, registry, presence
<1>1. CASE RunStep
  <2>1. ASSUME NEW c \in Conns, IgnoreUnregister(c) PROVE Same
    BY <2>1, <1>data DEF IgnoreUnregister
  <2>2. ASSUME NEW r \in RoomIDs, RefreshRoom(r) PROVE Same
    BY <2>2, <1>data DEF RefreshRoom
  <2> QED
    BY <1>1, <2>1, <2>2 DEF RunStep, RunPanics
<1>2. ASSUME NEW g \in Goroutines, Proceed(g)
      PROVE  Same
  BY <1>2, <1>data DEF Proceed, SendStep, SendBuffered, SendDropped,
                       SendEvicts, SendPanics, CopyRecipients
<1>3. ASSUME NEW c \in Conns, ProceedConn(c)
      PROVE  Same
  <2>1. CASE \/ \E row \in Rows : RehydrateJoin(c, row)
             \/ UpdateScreenShareState(c) \/ RestoreRoom(c)
    BY <2>1, <1>same DEF RehydrateJoin, UpdateScreenShareState, RestoreRoom
  <2>2. CASE ListRooms(c) \/ ForwardSignal(c) \/ Unlock(c) \/ StartPumps(c)
    BY <2>2, <1>data DEF ListRooms, ForwardSignal, Unlock, StartPumps
  <2> QED
    BY <1>3, <2>1, <2>2 DEF ProceedConn
<1>4. ASSUME NEW c \in Conns, HandleMessage(c)
      PROVE  Same
  <2>1. ASSUME NEW type, NEW jobs, Relay(c, type, jobs)
        PROVE  Same
    BY <2>1, <1>data DEF Relay
  <2>2. ASSUME NEW r \in RoomIDs,
               \/ RoomMessage(c, r) \/ VoiceState(c, r)
               \/ \E u \in Usernames : WebRTCSignal(c, r, u)
               \/ \E on \in BOOLEAN : ScreenShare(c, r, on)
        PROVE  Same
    BY <2>2, <2>1
       DEF RoomMessage, VoiceState, WebRTCSignal, ScreenShare, Realtime
  <2>3. ASSUME NEW u \in Usernames, DirectMessage(c, u)
        PROVE  Same
    BY <2>3, <2>1 DEF DirectMessage
  <2>4. ASSUME NEW r \in RoomIDs,
               \/ CreateRoom(c, r) \/ JoinRoom(c, r) \/ CloseRoom(c, r)
               \/ LeaveRoom(c, r) \/ \E u \in Usernames : AddUserToRoom(c, r, u)
        PROVE  Same
    BY <2>4, <1>same DEF CreateRoom, JoinRoom, AddUserToRoom, CloseRoom, LeaveRoom
  <2> QED
    BY <1>4, <2>2, <2>3, <2>4 DEF HandleMessage
<1>5. ASSUME NEW c \in Conns, Pumps(c)
      PROVE  Same \/ Crash
  BY <1>5, <1>data DEF Pumps, Connect, Drain, WriterSeesClose, WriteFails,
                       ReadFails, RunTakesUnregister, PanicEndsProcess
<1>6. CASE HttpHandlers \/ Restart
  BY <1>6, <1>data DEF HttpHandlers, PublishRoomMessage, PublishSocialEvent,
                       Publication, Restart
<1> QED
  BY <1>1, <1>2, <1>3, <1>4, <1>5, <1>6 DEF Next

\* Queueing an event, or not: the latest about everybody else is the same.
LEMMA PublishSays ==
    ASSUME IInv, NEW u \in Usernames, NEW on \in BOOLEAN, Publish(u, on),
           announced' = announced, ~overflowed', NEW v \in Usernames
    PROVE  /\ ~overflowed
           /\ LatestPresence(v)' <=> IF u = v THEN on ELSE LatestPresence(v)
<1> DEFINE e == [user |-> u, online |-> on]
<1>types. /\ presenceEvents \in Seq(Events) /\ announced[v] \in BOOLEAN
          /\ e \in Events
  BY DEF IInv, TypeOK, Events
<1>1. presenceEvents' = Append(presenceEvents, e) /\ ~overflowed
  BY DEF Publish
<1>2. LatestPresence(v)' = Latest(presenceEvents', announced'[v], v)
  BY DEF LatestPresence, Latest
<1>3. Latest(Append(presenceEvents, e), announced[v], v)
        <=> IF e.user = v THEN e.online ELSE Latest(presenceEvents, announced[v], v)
  BY <1>types, LatestAppend
<1> QED
  BY <1>1, <1>2, <1>3, LatestIs

\* The invariant with an equivalence for the equation.
LEMMA Converges ==
    ASSUME IInv
    PROVE  PresenceConverges <=>
             (~overflowed => \A u \in Usernames : LatestPresence(u) <=> users[u] # {})
<1>1. \A u \in Usernames : LatestPresence(u) \in BOOLEAN
  <2>1. \A u \in Usernames : announced[u] \in BOOLEAN
    BY DEF IInv, TypeOK
  <2> QED
    BY <2>1, LatestType, LatestIs
<1> QED
  BY <1>1 DEF PresenceConverges

LEMMA InitPresence == Init => PresenceConverges
<1> SUFFICES ASSUME Init, NEW u \in Usernames
             PROVE  LatestPresence(u) = (users[u] # {})
  BY DEF PresenceConverges
<1>1. presenceEvents = <<>> /\ announced[u] = FALSE /\ users[u] = {}
  BY DEF Init, NewHub
<1>2. LatestPresence(u) = FALSE
  BY <1>1 DEF LatestPresence
<1> QED
  BY <1>1, <1>2

LEMMA NextPresence ==
    ASSUME IInv, PresenceConverges, Next
    PROVE  PresenceConverges'
<1> USE NameAssumption
<1> SUFFICES ASSUME ~overflowed', NEW u \in Usernames
             PROVE  LatestPresence(u)' <=> users'[u] # {}
  <2>1. \A v \in Usernames : announced'[v] \in BOOLEAN
    BY TypeStep DEF TypeOK
  <2>2. \A v \in Usernames :
          LatestPresence(v)' = Latest(presenceEvents', announced'[v], v)
    BY DEF LatestPresence, Latest
  <2>3. \A v \in Usernames : LatestPresence(v)' \in BOOLEAN
    BY <2>1, <2>2, LatestType
  <2> QED
    BY <2>3 DEF PresenceConverges
<1>now. ~overflowed => (LatestPresence(u) <=> users[u] # {})
  BY Converges
<1>types. /\ users \in [Usernames -> SUBSET Conns]
          /\ presenceEvents \in Seq(Events)
          /\ announced \in [Usernames -> BOOLEAN]
          /\ \A c \in Conns : NameOf[c] \in Usernames
  BY DEF IInv, TypeOK, Events
<1>same. ASSUME UNCHANGED <<presenceEvents, announced>>
         PROVE  LatestPresence(u)' <=> LatestPresence(u)
  BY <1>same DEF LatestPresence
<1>1. CASE UNCHANGED <<users, presenceEvents, announced, overflowed>>
  BY <1>1, <1>now, <1>same
<1>2. ASSUME NEW c \in Conns, EnterClient(c)
      PROVE  LatestPresence(u)' <=> users'[u] # {}
  <2> DEFINE n == NameOf[c]
  <2>1. /\ users' = [users EXCEPT ![n] = @ \cup {c}] /\ announced' = announced
        /\ IF users[n] = {} THEN Publish(n, TRUE)
           ELSE UNCHANGED <<presenceEvents, overflowed>>
    BY <1>2 DEF EnterClient
  <2>2. users'[n] # {} /\ (u # n => users'[u] = users[u])
    BY <2>1, <1>types
  <2>3. CASE users[n] = {}
    <3>1. /\ ~overflowed
          /\ LatestPresence(u)' <=> IF n = u THEN TRUE ELSE LatestPresence(u)
      BY <2>1, <2>3, <1>types, PublishSays
    <3> QED
      BY <2>2, <3>1, <1>now
  <2>4. CASE users[n] # {}
    <3>1. ~overflowed /\ (LatestPresence(u)' <=> LatestPresence(u))
      BY <2>1, <2>4, <1>same
    <3> QED
      BY <2>2, <2>4, <3>1, <1>now
  <2> QED
    BY <2>3, <2>4
<1>3. ASSUME NEW c \in Conns, RemoveClient(c)
      PROVE  LatestPresence(u)' <=> users'[u] # {}
  <2> DEFINE n == NameOf[c]
  <2>1. /\ users' = [users EXCEPT ![n] = @ \ {c}] /\ announced' = announced
        /\ IF users[n] \ {c} = {} THEN Publish(n, FALSE)
           ELSE UNCHANGED <<presenceEvents, overflowed>>
    BY <1>3 DEF RemoveClient, IndexWithout, BecameOffline
  <2>2. users'[n] = users[n] \ {c} /\ (u # n => users'[u] = users[u])
    BY <2>1, <1>types
  <2>3. CASE users[n] \ {c} = {}
    <3>1. /\ ~overflowed
          /\ LatestPresence(u)' <=> IF n = u THEN FALSE ELSE LatestPresence(u)
      BY <2>1, <2>3, <1>types, PublishSays
    <3> QED
      BY <2>2, <2>3, <3>1, <1>now
  <2>4. CASE users[n] \ {c} # {}
    <3>1. ~overflowed /\ (LatestPresence(u)' <=> LatestPresence(u))
      BY <2>1, <2>4, <1>same
    <3> QED
      BY <2>2, <2>4, <3>1, <1>now
  <2> QED
    BY <2>3, <2>4
<1>4. CASE BroadcastPresence
  <2> DEFINE e == Head(presenceEvents)
  <2>1. /\ presenceEvents # <<>> /\ presenceEvents' = Tail(presenceEvents)
        /\ announced' = [announced EXCEPT ![e.user] = e.online]
        /\ UNCHANGED <<users, overflowed>>
    BY <1>4 DEF BroadcastPresence, registry
  <2>2. announced'[u] = IF e.user = u THEN e.online ELSE announced[u]
    BY <2>1, <1>types
  <2>3. LatestPresence(u)' = Latest(presenceEvents', announced'[u], u)
    BY DEF LatestPresence, Latest
  <2>4. Latest(Tail(presenceEvents), IF e.user = u THEN e.online ELSE announced[u], u)
          <=> Latest(presenceEvents, announced[u], u)
    BY <2>1, <1>types, LatestTail
  <2> QED
    BY <2>1, <2>2, <2>3, <2>4, <1>now, LatestIs
<1>5. CASE Crash
  <2>1. presenceEvents' = <<>> /\ announced'[u] = FALSE /\ users'[u] = {}
    BY <1>5 DEF Crash
  <2>2. LatestPresence(u)' <=> FALSE
    BY <2>1 DEF LatestPresence
  <2> QED
    BY <2>1, <2>2
<1> QED
  BY <1>1, <1>2, <1>3, <1>4, <1>5, PresenceMoves

LEMMA StepPresence == IInv /\ PresenceConverges /\ [Next]_vars => PresenceConverges'
<1>1. ASSUME IInv, PresenceConverges, UNCHANGED vars
      PROVE  PresenceConverges'
  <2>1. UNCHANGED <<users, presenceEvents, announced, overflowed>>
    BY <1>1 DEF vars, data, registry, presence
  <2>2. \A u \in Usernames : LatestPresence(u)' = LatestPresence(u)
    BY <2>1 DEF LatestPresence
  <2> QED
    BY <1>1, <2>1, <2>2 DEF PresenceConverges
<1> QED
  BY <1>1, NextPresence

\* Whoever hears all presence events ends up knowing who is online, however
\* registrations and removals interleave, unless the channel overflowed.
THEOREM PresenceIsRight == Spec => []PresenceConverges
<1> QED
  BY InitIInv, StepIInv, InitPresence, StepPresence, PTL DEF Spec

=============================================================================
