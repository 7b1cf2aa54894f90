---------------------------- MODULE FriendsProofs ----------------------------
(***************************************************************************)
(* Proofs about friends for any number of users and overlapping calls: no  *)
(* friend list names anybody but friends, nobody becomes a friend of       *)
(* somebody who did not ask, and requests stay tidy unless calls overlap.  *)
(***************************************************************************)
EXTENDS Friends, TLAPS

\* What is right about a call c, given the friendships and who has asked: it
\* knows its users, it names friends only, a call that adds was recorded, and
\* one that is about to make a friendship was preceded by a request.
GoodCall(c, pairs, told) ==
    /\ c \in Calls
    /\ c.at \in AddSteps => /\ c.user \in Users /\ c.other \in Users
                            /\ <<c.user, c.other>> \in told
    /\ c.at \in AcceptSteps \cup {"reject"} => c.user \in Users /\ c.other \in Users
    /\ c.at = "acceptCreate" => <<c.other, c.user>> \in told
    /\ c.at \in ListSteps => c.user \in Users
    /\ \A v \in c.names : {c.user, v} \in pairs /\ v # c.user

GoodCalls == \A h \in Handlers : GoodCall(call[h], friendships, asked)

\* Every entry of the cache names friends of its user.
EntriesNameFriends ==
    \A u \in Users : cache[u] # None =>
        cache[u] \subseteq Users /\ \A v \in cache[u] : {u, v} \in friendships /\ v # u

\* One of two friends has asked for it.
FriendsAsked ==
    \A u, v \in Users :
        {u, v} \in friendships => <<u, v>> \in asked \/ <<v, u>> \in asked

\* The inductive invariant.
IInv ==
    /\ TypeOK
    /\ requests \subseteq asked
    /\ GoodCalls
    /\ EntriesNameFriends
    /\ FriendsAsked

----------------------------------------------------------------------------
\* The invariant implies the two properties.
LEMMA IInvImplies == IInv => ListsNameFriends /\ FriendsWereAsked
<1> SUFFICES ASSUME IInv PROVE ListsNameFriends /\ FriendsWereAsked
  OBVIOUS
<1> USE DEF IInv
<1>1. \A u \in Users : cache[u] # None => cache[u] \subseteq FriendsOf(u)
  BY DEF EntriesNameFriends, FriendsOf
<1>2. ASSUME NEW h \in Handlers
      PROVE  /\ call[h].names \subseteq FriendsOf(call[h].user)
             /\ At(h, "acceptCreate") => <<call[h].other, call[h].user>> \in asked
  BY <1>2 DEF GoodCalls, GoodCall, Calls, FriendsOf, At
<1> QED
  BY <1>1, <1>2 DEF ListsNameFriends, FriendsWereAsked, FriendsAsked

\* The state without a call, a friend or a request.
LEMMA InitIInv == Init => IInv
<1> SUFFICES ASSUME Init PROVE IInv
  OBVIOUS
<1> USE DEF Init
<1>1. Idle \in Calls
  BY DEF Idle, Calls
<1>2. TypeOK
  BY <1>1 DEF TypeOK
<1>3. GoodCall(Idle, friendships, asked)
  BY <1>1 DEF GoodCall, Idle, AddSteps, AcceptSteps, ListSteps
<1>4. GoodCalls
  BY <1>3 DEF GoodCalls
<1> QED
  BY <1>2, <1>4 DEF IInv, EntriesNameFriends, FriendsAsked

\* A call stays good when there are more friends and more has been asked.
LEMMA GoodStays ==
    ASSUME NEW c, NEW pairs, NEW told, NEW pairs2, NEW told2,
           pairs \subseteq pairs2, told \subseteq told2, GoodCall(c, pairs, told)
    PROVE  GoodCall(c, pairs2, told2)
  BY DEF GoodCall

\* A step of one call that leaves it good leaves all calls good.
LEMMA OneCall ==
    ASSUME IInv, NEW h \in Handlers, NEW c, call' = [call EXCEPT ![h] = c],
           friendships \subseteq friendships', asked \subseteq asked',
           GoodCall(c, friendships', asked')
    PROVE  call' \in [Handlers -> Calls] /\ GoodCalls'
<1>1. c \in Calls /\ call \in [Handlers -> Calls]
  BY DEF GoodCall, IInv, TypeOK
<1>2. \A g \in Handlers \ {h} : call'[g] = call[g]
  BY <1>1
<1>3. \A g \in Handlers \ {h} : GoodCall(call'[g], friendships', asked')
  BY <1>2, GoodStays DEF IInv, GoodCalls
<1> QED
  BY <1>1, <1>3 DEF GoodCalls

\* An idle goroutine is good whatever the tables are.
LEMMA IdleIsGood ==
    ASSUME NEW pairs, NEW told
    PROVE  GoodCall(Idle, pairs, told)
  BY DEF GoodCall, Idle, Calls, AddSteps, AcceptSteps, ListSteps

\* The invariant after a step that touches neither friendships nor the cache.
LEMMA QuietStep ==
    ASSUME IInv, NEW h \in Handlers, NEW c, call' = [call EXCEPT ![h] = c],
           GoodCall(c, friendships, asked'),
           UNCHANGED <<friendships, lists>>,
           asked \subseteq asked', asked' \subseteq Users \X Users,
           requests' \subseteq asked', untidy' \subseteq SUBSET Users
    PROVE  IInv'
<1>1. call' \in [Handlers -> Calls] /\ GoodCalls'
  BY OneCall
<1>2. requests' \subseteq Users \X Users
  OBVIOUS
<1>3. TypeOK'
  BY <1>1, <1>2 DEF IInv, TypeOK, lists
<1>4. EntriesNameFriends' /\ FriendsAsked'
  BY DEF IInv, EntriesNameFriends, FriendsAsked, lists
<1> QED
  BY <1>1, <1>3, <1>4 DEF IInv

\* The invariant after a step that touches the cache, whose new entries are
\* lists that a good call has read.
LEMMA CacheStep ==
    ASSUME IInv, NEW h \in Handlers, NEW c, call' = [call EXCEPT ![h] = c],
           GoodCall(c, friendships, asked), UNCHANGED <<tables, history>>,
           cache' \in [Users -> (SUBSET Users) \cup {None}],
           expired' \subseteq Users,
           EntriesNameFriends'
    PROVE  IInv'
<1>1. call' \in [Handlers -> Calls] /\ GoodCalls'
  BY OneCall DEF tables, history
<1>2. TypeOK'
  BY <1>1 DEF IInv, TypeOK, tables, history
<1>3. FriendsAsked'
  BY DEF IInv, FriendsAsked, tables, history
<1> QED
  BY <1>1, <1>2, <1>3 DEF IInv, tables, history

\* A call that goes on to another step is the same but for the step.
LEMMA Moved ==
    ASSUME IInv, NEW h \in Handlers, NEW step, Goto(h, step),
           step \in {"idle", "reject"} \cup AddSteps \cup AcceptSteps \cup ListSteps
    PROVE  \E c \in Calls :
             /\ call' = [call EXCEPT ![h] = c]
             /\ c.at = step /\ c.kind = call[h].kind /\ c.user = call[h].user
             /\ c.other = call[h].other /\ c.names = call[h].names
<1> DEFINE c == [call[h] EXCEPT !.at = step]
<1>1. call[h] \in Calls
  BY DEF IInv, TypeOK
<1>2. c \in Calls
  BY <1>1 DEF Calls
<1>3. /\ c.at = step /\ c.kind = call[h].kind /\ c.user = call[h].user
      /\ c.other = call[h].other /\ c.names = call[h].names
  BY <1>1 DEF Calls
<1>4. call' = [call EXCEPT ![h] = c]
  BY DEF Goto
<1> QED
  BY <1>2, <1>3, <1>4

\* A step that only moves a call on, within what the call knows, or ends it.
LEMMA MoveStep ==
    ASSUME IInv, NEW h \in Handlers, UNCHANGED <<tables, lists, history>>,
           \/ Return(h)
           \/ \E step \in AddSteps : At(h, "addFriends") /\ Goto(h, step)
           \/ \E step \in AddSteps : At(h, "addSame") /\ Goto(h, step)
           \/ \E step \in AddSteps : At(h, "addReverse") /\ Goto(h, step)
           \/ At(h, "addFriends") /\ Goto(h, "get")
           \/ At(h, "get") /\ Goto(h, "read")
           \/ At(h, "get") /\ Goto(h, "drop")
    PROVE  IInv'
<1>1. GoodCall(call[h], friendships, asked)
  BY DEF IInv, GoodCalls
<1>2. /\ UNCHANGED <<friendships, requests, asked, untidy>> /\ UNCHANGED lists
      /\ asked' \subseteq Users \X Users
      /\ requests' \subseteq asked' /\ untidy' \subseteq SUBSET Users
  BY DEF IInv, TypeOK, tables, history
<1>3. CASE Return(h)
  BY <1>2, <1>3, IdleIsGood, QuietStep DEF Return
<1>4. ASSUME NEW step, Goto(h, step),
             \/ step \in AddSteps /\ call[h].at \in AddSteps
             \/ step \in ListSteps /\ call[h].at \in AddSteps \cup ListSteps
      PROVE  IInv'
  <2>1. PICK c \in Calls :
             /\ call' = [call EXCEPT ![h] = c]
             /\ c.at = step /\ c.kind = call[h].kind /\ c.user = call[h].user
             /\ c.other = call[h].other /\ c.names = call[h].names
    BY <1>4, Moved
  <2>2. GoodCall(c, friendships, asked')
    BY <1>1, <1>2, <1>4, <2>1 DEF GoodCall, AddSteps, AcceptSteps, ListSteps
  <2> QED
    BY <1>2, <2>1, <2>2, QuietStep
<1> QED
  BY <1>3, <1>4 DEF At, AddSteps, ListSteps

\* The beginning of a call.
LEMMA StartStep ==
    ASSUME IInv, NEW h \in Handlers, Start(h)
    PROVE  IInv'
<1>1. PICK u \in Users :
        \/ BeginList(h, u)
        \/ \E v \in Users : BeginAdd(h, u, v) \/ BeginAccept(h, u, v) \/ BeginReject(h, u, v)
  BY DEF Start
<1>2. CASE BeginList(h, u)
  <2> DEFINE c == [kind |-> "list", at |-> "get", user |-> u, other |-> None,
                   names |-> {}]
  <2>1. GoodCall(c, friendships, asked)
    BY DEF GoodCall, Calls, AddSteps, AcceptSteps, ListSteps
  <2> HIDE DEF c
  <2>2. call' = [call EXCEPT ![h] = c] /\ UNCHANGED <<tables, lists, history>>
    BY <1>2 DEF BeginList, c
  <2> QED
    BY <2>1, <2>2, QuietStep DEF tables, history, IInv, TypeOK
<1>3. ASSUME NEW v \in Users, NEW kind \in {"add", "accept", "reject"},
             NEW first \in {"addFriends", "acceptExists", "reject"},
             Begin(h, kind, first, u, v),
             asked' = asked \/ asked' = asked \cup {<<u, v>>},
             first = "addFriends" => <<u, v>> \in asked'
      PROVE  IInv'
  <2> DEFINE c == [kind |-> kind, at |-> first, user |-> u, other |-> v,
                   names |-> {}]
  <2>1. c \in Calls
    BY DEF Calls, AddSteps, AcceptSteps
  <2>2. GoodCall(c, friendships, asked')
    BY <1>3, <2>1 DEF GoodCall, AddSteps, AcceptSteps, ListSteps
  <2> HIDE DEF c
  <2>3. /\ call' = [call EXCEPT ![h] = c] /\ UNCHANGED <<tables, lists>>
        /\ untidy' \subseteq SUBSET Users
    BY <1>3 DEF Begin, c, IInv, TypeOK
  <2>4. asked \subseteq asked' /\ asked' \subseteq Users \X Users
    BY <1>3 DEF IInv, TypeOK
  <2>5. requests' \subseteq asked'
    BY <2>3, <2>4 DEF IInv, tables
  <2> QED
    BY <2>2, <2>3, <2>4, <2>5, QuietStep DEF tables
<1>4. ASSUME NEW v \in Users, BeginAdd(h, u, v) PROVE IInv'
  BY <1>3, <1>4 DEF BeginAdd
<1>5. ASSUME NEW v \in Users, BeginAccept(h, u, v) PROVE IInv'
  BY <1>3, <1>5 DEF BeginAccept
<1>6. ASSUME NEW v \in Users, BeginReject(h, u, v) PROVE IInv'
  BY <1>3, <1>6 DEF BeginReject
<1> QED
  BY <1>1, <1>2, <1>4, <1>5, <1>6

\* A step of AddFriendHandler.
LEMMA AddStep ==
    ASSUME IInv, NEW h \in Handlers, Add(h)
    PROVE  IInv'
<1>1. CASE AddFriends(h) \/ AddSame(h) \/ AddReverse(h)
  BY <1>1, MoveStep DEF AddFriends, AddSame, AddReverse, AddSteps
<1>2. CASE AddInsert(h)
  <2>1. <<call[h].user, call[h].other>> \in asked
    BY <1>2 DEF AddInsert, At, IInv, GoodCalls, GoodCall, AddSteps
  <2>2. /\ call' = [call EXCEPT ![h] = Idle]
        /\ UNCHANGED <<friendships, lists, asked, untidy>>
        /\ requests' \subseteq asked'
    BY <1>2, <2>1 DEF AddInsert, Return, IInv, history
  <2> QED
    BY <2>2, IdleIsGood, QuietStep DEF IInv, TypeOK
<1> QED
  BY <1>1, <1>2 DEF Add

\* A step of AcceptFriendRequestHandler, up to the list that it answers with.
LEMMA AcceptStep ==
    ASSUME IInv, NEW h \in Handlers, Accept(h)
    PROVE  IInv'
<1> DEFINE u == call[h].user
           v == call[h].other
<1>1. GoodCall(call[h], friendships, asked)
  BY DEF IInv, GoodCalls
<1>2. At(h, "acceptExists") \/ At(h, "acceptCreate") \/ At(h, "acceptDelete")
        \/ At(h, "acceptInvalidate") => u \in Users /\ v \in Users
  BY <1>1 DEF At, GoodCall, AcceptSteps
<1>3. CASE AcceptExists(h)
  <2>1. UNCHANGED <<tables, lists, history>> /\ At(h, "acceptExists")
    BY <1>3 DEF AcceptExists
  <2>2. CASE Exists(v, u)
    <3>1. Goto(h, "acceptCreate") /\ <<v, u>> \in asked
      BY <1>3, <2>2 DEF AcceptExists, Exists, IInv
    <3>2. PICK c \in Calls :
             /\ call' = [call EXCEPT ![h] = c]
             /\ c.at = "acceptCreate" /\ c.user = u /\ c.other = v
             /\ c.names = call[h].names
      BY <3>1, Moved DEF AcceptSteps
    <3>3. GoodCall(c, friendships, asked)
      BY <1>1, <1>2, <2>1, <3>1, <3>2 DEF GoodCall, AddSteps, AcceptSteps, ListSteps
    <3> QED
      BY <2>1, <3>2, <3>3, QuietStep DEF tables, history, IInv, TypeOK
  <2>3. CASE ~Exists(v, u)
    BY <1>3, <2>3, MoveStep DEF AcceptExists
  <2> QED
    BY <2>2, <2>3
<1>4. CASE AcceptCreate(h)
  <2>1. /\ At(h, "acceptCreate")
        /\ friendships' = friendships \cup {{u, v}}
        /\ \/ Return(h)
           \/ Goto(h, "acceptDelete")
        /\ UNCHANGED <<requests, lists, history>>
    BY <1>4 DEF AcceptCreate
  <2>2. u \in Users /\ v \in Users /\ <<v, u>> \in asked
    BY <1>1, <1>2, <2>1 DEF GoodCall, At
  <2>3. PICK c \in Calls : /\ call' = [call EXCEPT ![h] = c]
                           /\ GoodCall(c, friendships', asked')
    <3>1. CASE Return(h)
      BY <3>1, IdleIsGood DEF Return, GoodCall
    <3>2. CASE Goto(h, "acceptDelete")
      <4>1. PICK c \in Calls :
               /\ call' = [call EXCEPT ![h] = c]
               /\ c.at = "acceptDelete" /\ c.user = u /\ c.other = v
               /\ c.names = call[h].names
        BY <3>2, Moved DEF AcceptSteps
      <4>2. GoodCall(c, friendships, asked)
        BY <1>1, <2>2, <4>1 DEF GoodCall, AddSteps, AcceptSteps, ListSteps
      <4>3. friendships \subseteq friendships' /\ asked \subseteq asked'
        BY <2>1 DEF history
      <4>4. GoodCall(c, friendships', asked')
        BY <4>2, <4>3, GoodStays
      <4> QED
        BY <4>1, <4>4
    <3> QED
      BY <2>1, <3>1, <3>2
  <2>4. call' \in [Handlers -> Calls] /\ GoodCalls'
    BY <2>1, <2>3, OneCall DEF history
  <2>5. TypeOK'
    BY <2>1, <2>2, <2>4 DEF IInv, TypeOK, lists, history
  <2>6. EntriesNameFriends'
    BY <2>1 DEF IInv, EntriesNameFriends, lists
  <2>7. FriendsAsked'
    <3> SUFFICES ASSUME NEW x \in Users, NEW y \in Users, {x, y} \in friendships'
                 PROVE  <<x, y>> \in asked \/ <<y, x>> \in asked
      BY <2>1 DEF FriendsAsked, history
    <3>1. CASE {x, y} \in friendships
      BY <3>1 DEF IInv, FriendsAsked
    <3>2. CASE {x, y} = {u, v}
      <4>1. (x = u /\ y = v) \/ (x = v /\ y = u)
        BY <3>2
      <4> QED
        BY <2>2, <4>1
    <3> QED
      BY <2>1, <3>1, <3>2
  <2> QED
    BY <2>1, <2>4, <2>5, <2>6, <2>7 DEF IInv, history
<1>5. CASE AcceptDelete(h)
  <2>1. /\ At(h, "acceptDelete") /\ Goto(h, "acceptInvalidate")
        /\ UNCHANGED <<friendships, lists, asked>>
        /\ requests' \subseteq requests
        /\ untidy' = untidy \/ untidy' = untidy \cup {{u, v}}
    BY <1>5 DEF AcceptDelete
  <2>2. PICK c \in Calls :
           /\ call' = [call EXCEPT ![h] = c]
           /\ c.at = "acceptInvalidate" /\ c.user = u /\ c.other = v
           /\ c.names = call[h].names
    BY <2>1, Moved DEF AcceptSteps
  <2>3. GoodCall(c, friendships, asked')
    BY <1>1, <1>2, <2>1, <2>2 DEF GoodCall, AddSteps, AcceptSteps, ListSteps
  <2>4. /\ asked' \subseteq Users \X Users /\ requests' \subseteq asked'
        /\ untidy' \subseteq SUBSET Users
    BY <1>2, <2>1 DEF IInv, TypeOK
  <2> QED
    BY <2>1, <2>2, <2>3, <2>4, QuietStep
<1>6. CASE AcceptInvalidate(h)
  <2>1. /\ At(h, "acceptInvalidate") /\ Goto(h, "get")
        /\ cache' = [w \in Users |-> IF w \in {u, v} THEN None ELSE cache[w]]
        /\ expired' = expired \ {u, v}
        /\ UNCHANGED <<tables, history>>
    BY <1>6 DEF AcceptInvalidate
  <2>2. PICK c \in Calls :
           /\ call' = [call EXCEPT ![h] = c]
           /\ c.at = "get" /\ c.user = u /\ c.other = v
           /\ c.names = call[h].names
    BY <2>1, Moved DEF ListSteps
  <2>3. GoodCall(c, friendships, asked)
    BY <1>1, <1>2, <2>1, <2>2 DEF GoodCall, AddSteps, AcceptSteps, ListSteps
  <2>4. /\ cache' \in [Users -> (SUBSET Users) \cup {None}]
        /\ expired' \subseteq Users
    BY <2>1 DEF IInv, TypeOK
  <2>5. EntriesNameFriends'
    BY <2>1 DEF IInv, EntriesNameFriends, tables
  <2> QED
    BY <2>1, <2>2, <2>3, <2>4, <2>5, CacheStep
<1> QED
  BY <1>3, <1>4, <1>5, <1>6 DEF Accept

\* A step of loadFriendUsername: what is read names friends, and so does what
\* is stored, because nobody ever stops being a friend in between.
LEMMA ListStep ==
    ASSUME IInv, NEW h \in Handlers, List(h)
    PROVE  IInv'
<1> DEFINE u == call[h].user
<1>1. GoodCall(call[h], friendships, asked)
  BY DEF IInv, GoodCalls
<1>2. call[h].at \in ListSteps /\ u \in Users /\ call[h] \in Calls
  BY <1>1 DEF List, Get, Drop, Read, Set, Done, At, GoodCall, ListSteps
<1>3. CASE Get(h)
  <2>1. At(h, "get") /\ UNCHANGED <<tables, lists, history>>
    BY <1>3 DEF Get
  <2>2. CASE Goto(h, "read") \/ Goto(h, "drop")
    BY <2>1, <2>2, MoveStep
  <2>3. CASE cache[u] # None /\ AnswerWith(h, cache[u])
    <3> DEFINE c == [call[h] EXCEPT !.at = "answer", !.names = cache[u]]
    <3>1. cache[u] \subseteq Users /\ \A w \in cache[u] : {u, w} \in friendships /\ w # u
      BY <1>2, <2>3 DEF IInv, EntriesNameFriends
    <3>2. /\ c \in Calls
          /\ c.at = "answer" /\ c.user = u /\ c.names = cache[u]
      BY <1>2, <3>1 DEF Calls, ListSteps
    <3>3. call' = [call EXCEPT ![h] = c]
      BY <2>3 DEF AnswerWith
    <3> HIDE DEF c
    <3>4. GoodCall(c, friendships, asked)
      BY <1>2, <3>1, <3>2 DEF GoodCall, AddSteps, AcceptSteps, ListSteps
    <3> QED
      BY <2>1, <3>3, <3>4, QuietStep DEF tables, history, IInv, TypeOK
  <2> QED
    BY <1>3, <2>2, <2>3 DEF Get
<1>4. CASE Drop(h)
  <2>1. /\ Goto(h, "read")
        /\ cache' = [cache EXCEPT ![u] = None]
        /\ expired' = expired \ {u}
        /\ UNCHANGED <<tables, history>>
    BY <1>4 DEF Drop
  <2>2. PICK c \in Calls :
           /\ call' = [call EXCEPT ![h] = c]
           /\ c.at = "read" /\ c.user = u /\ c.names = call[h].names
    BY <2>1, Moved DEF ListSteps
  <2>3. GoodCall(c, friendships, asked)
    BY <1>1, <1>2, <2>2 DEF GoodCall, AddSteps, AcceptSteps, ListSteps
  <2>4. cache' \in [Users -> (SUBSET Users) \cup {None}] /\ expired' \subseteq Users
    BY <2>1 DEF IInv, TypeOK
  <2>5. EntriesNameFriends'
    BY <2>1 DEF IInv, TypeOK, EntriesNameFriends, tables
  <2> QED
    BY <2>1, <2>2, <2>3, <2>4, <2>5, CacheStep
<1>5. CASE Read(h)
  <2> DEFINE c == [call[h] EXCEPT !.at = "set", !.names = FriendsOf(u)]
  <2>1. /\ c \in Calls
        /\ c.at = "set" /\ c.user = u /\ c.names = FriendsOf(u)
    BY <1>2 DEF Calls, ListSteps, FriendsOf
  <2>2. call' = [call EXCEPT ![h] = c] /\ UNCHANGED <<tables, lists, history>>
    BY <1>5 DEF Read
  <2> HIDE DEF c
  <2>3. GoodCall(c, friendships, asked)
    BY <1>2, <2>1 DEF GoodCall, AddSteps, AcceptSteps, ListSteps, FriendsOf
  <2> QED
    BY <2>2, <2>3, QuietStep DEF tables, history, IInv, TypeOK
<1>6. CASE Set(h)
  <2>1. PICK cleared \in {{}, expired} :
          /\ cache' = [w \in Users |-> IF w = u THEN call[h].names
                                       ELSE IF w \in cleared THEN None ELSE cache[w]]
          /\ expired' = expired \ (cleared \cup {u})
    BY <1>6 DEF Set
  <2>2. Goto(h, "answer") /\ UNCHANGED <<tables, history>>
    BY <1>6 DEF Set
  <2>3. PICK c \in Calls :
           /\ call' = [call EXCEPT ![h] = c]
           /\ c.at = "answer" /\ c.user = u /\ c.names = call[h].names
    BY <2>2, Moved DEF ListSteps
  <2>4. GoodCall(c, friendships, asked)
    BY <1>1, <1>2, <2>3 DEF GoodCall, AddSteps, AcceptSteps, ListSteps
  <2>5. call[h].names \subseteq Users
        /\ \A w \in call[h].names : {u, w} \in friendships /\ w # u
    BY <1>1, <1>2 DEF GoodCall, Calls
  <2>6. cache' \in [Users -> (SUBSET Users) \cup {None}] /\ expired' \subseteq Users
    BY <2>1, <2>5 DEF IInv, TypeOK
  <2>7. EntriesNameFriends'
    BY <2>1, <2>2, <2>5 DEF IInv, EntriesNameFriends, tables
  <2> QED
    BY <2>2, <2>3, <2>4, <2>6, <2>7, CacheStep
<1>7. CASE Done(h)
  BY <1>7, MoveStep DEF Done
<1> QED
  BY <1>3, <1>4, <1>5, <1>6, <1>7 DEF List

\* The death of the server, which forgets all calls and the whole cache.
LEMMA CrashStep == IInv /\ Crash => IInv'
<1> SUFFICES ASSUME IInv, Crash PROVE IInv'
  OBVIOUS
<1>1. /\ call' = [h \in Handlers |-> Idle]
      /\ cache' = [u \in Users |-> None]
      /\ expired' = {}
      /\ untidy' = untidy \cup {{call[h].user, call[h].other} :
                                  h \in {g \in Handlers : At(g, "acceptDelete")}}
      /\ UNCHANGED <<friendships, requests, asked>>
  BY DEF Crash, tables
<1>2. GoodCall(Idle, friendships', asked') /\ Idle \in Calls
  BY IdleIsGood DEF GoodCall
<1>3. GoodCalls' /\ call' \in [Handlers -> Calls]
  BY <1>1, <1>2 DEF GoodCalls
<1>4. untidy' \subseteq SUBSET Users
  <2>1. ASSUME NEW g \in Handlers, At(g, "acceptDelete")
        PROVE  {call[g].user, call[g].other} \in SUBSET Users
    BY <2>1 DEF IInv, GoodCalls, GoodCall, At, AcceptSteps
  <2> QED
    BY <1>1, <2>1 DEF IInv, TypeOK
<1>5. TypeOK'
  BY <1>1, <1>3, <1>4 DEF IInv, TypeOK
<1>6. EntriesNameFriends' /\ FriendsAsked'
  BY <1>1 DEF IInv, EntriesNameFriends, FriendsAsked
<1> QED
  BY <1>1, <1>3, <1>5, <1>6 DEF IInv

\* The invariant is inductive.
LEMMA StepIInv == IInv /\ [Next]_vars => IInv'
<1> SUFFICES ASSUME IInv, [Next]_vars PROVE IInv'
  OBVIOUS
<1>1. ASSUME NEW h \in Handlers, Start(h) PROVE IInv'
  BY <1>1, StartStep
<1>2. ASSUME NEW h \in Handlers, Add(h) PROVE IInv'
  BY <1>2, AddStep
<1>3. ASSUME NEW h \in Handlers, Accept(h) PROVE IInv'
  BY <1>3, AcceptStep
<1>4. ASSUME NEW h \in Handlers, Reject(h) PROVE IInv'
  <2>1. /\ call' = [call EXCEPT ![h] = Idle]
        /\ UNCHANGED <<friendships, lists, asked, untidy>>
        /\ requests' \subseteq asked'
    BY <1>4 DEF Reject, Return, IInv, history
  <2> QED
    BY <2>1, IdleIsGood, QuietStep DEF IInv, TypeOK
<1>5. ASSUME NEW h \in Handlers, List(h) PROVE IInv'
  BY <1>5, ListStep
<1>6. ASSUME NEW h \in Handlers, Fail(h) PROVE IInv'
  BY <1>6, MoveStep DEF Fail
<1>7. ASSUME NEW u \in Users, Age(u) PROVE IInv'
  BY <1>7 DEF Age, IInv, TypeOK, GoodCalls, EntriesNameFriends, FriendsAsked,
              tables, history
<1>8. CASE UNCHANGED vars
  BY <1>8 DEF vars, IInv, TypeOK, GoodCalls, EntriesNameFriends, FriendsAsked,
              tables, lists, history
<1> QED
  BY <1>1, <1>2, <1>3, <1>4, <1>5, <1>6, <1>7, <1>8, CrashStep DEF Next, Step

\* The invariant holds in every reachable state.
THEOREM Invariance == Spec => []IInv
  BY InitIInv, StepIInv, PTL DEF Spec

\* Tables, cache and calls keep their types.
THEOREM TypeCorrectness == Spec => []TypeOK
<1>1. IInv => TypeOK
  BY DEF IInv
<1> QED
  BY <1>1, Invariance, PTL

\* No list of friends that loadFriendUsername keeps or returns names anybody
\* but friends, although it can have been read long before.
THEOREM CacheSoundness == Spec => []ListsNameFriends
<1>1. IInv => ListsNameFriends
  BY IInvImplies
<1> QED
  BY <1>1, Invariance, PTL

\* Nobody becomes a friend of a user who has not asked for it, however the
\* queries of overlapping calls are interleaved.
THEOREM NoUnaskedFriends == Spec => []FriendsWereAsked
<1>1. IInv => FriendsWereAsked
  BY IInvImplies
<1> QED
  BY <1>1, Invariance, PTL

----------------------------------------------------------------------------
(* The requests between two users. *)

\* A call of h about u and v has begun and is not answered yet.
About(h, u, v) ==
    call[h].at \notin {"idle", "answer"} /\ {call[h].user, call[h].other} = {u, v}

\* What a call has seen of the tables still holds.
Knows(c) ==
    /\ c.at \in {"addSame", "addReverse", "addInsert"} => {c.user, c.other} \notin friendships
    /\ c.at \in {"addReverse", "addInsert"} => ~Exists(c.user, c.other)
    /\ c.at = "addInsert" => ~Exists(c.other, c.user)

\* Someone is about to delete the requests between u and v.
Cleaning(u, v) ==
    \E h \in Handlers : At(h, "acceptDelete") /\ {call[h].user, call[h].other} = {u, v}

Tidy(u, v) ==
    /\ u # v => ~(Exists(u, v) /\ Exists(v, u))
    /\ {u, v} \in friendships /\ (Exists(u, v) \/ Exists(v, u)) => Cleaning(u, v)

\* The pair u and v: it is tidy, and the only call about it knows the truth.
TidyPair(u, v) ==
    {u, v} \notin untidy =>
        /\ \A g, h \in Handlers : About(g, u, v) /\ About(h, u, v) => g = h
        /\ \A h \in Handlers : About(h, u, v) => Knows(call[h])
        /\ Tidy(u, v)

TidyInv == \A u, v \in Users : TidyPair(u, v)

LEMMA InitTidy == Init => TidyInv
BY DEF Init, TidyInv, TidyPair, About, Tidy, Exists, Idle

LEMMA PairsAreSets ==
    ASSUME NEW u, NEW v, NEW a, NEW b, {a, b} = {u, v}
    PROVE  (a = u /\ b = v) \/ (a = v /\ b = u)
OBVIOUS

LEMMA TidyPairSymmetric ==
    ASSUME NEW u, NEW v, TidyPair(u, v)
    PROVE  TidyPair(v, u)
<1>1. {u, v} = {v, u}
  OBVIOUS
<1> QED
  BY <1>1 DEF TidyPair, About, Tidy, Cleaning

\* A step of a call that is about others, before and after, leaves the pair tidy.
LEMMA OthersStayTidy ==
    ASSUME NEW u \in Users, NEW v \in Users, TidyPair(u, v), NEW h \in Handlers,
           \A g \in Handlers \ {h} : call'[g] = call[g],
           ~About(h, u, v), ~About(h, u, v)',
           untidy \subseteq untidy',
           {u, v} \in friendships' <=> {u, v} \in friendships,
           <<u, v>> \in requests' <=> <<u, v>> \in requests,
           <<v, u>> \in requests' <=> <<v, u>> \in requests
    PROVE  TidyPair(u, v)'
<1> SUFFICES ASSUME {u, v} \notin untidy'
             PROVE  /\ \A f, g \in Handlers : About(f, u, v)' /\ About(g, u, v)' => f = g
                    /\ \A g \in Handlers : About(g, u, v)' => Knows(call[g])'
                    /\ Tidy(u, v)'
  BY DEF TidyPair
<1>1. {u, v} \notin untidy
  OBVIOUS
<1>2. ASSUME NEW g \in Handlers, About(g, u, v)'
      PROVE  g # h /\ call'[g] = call[g] /\ About(g, u, v)
  <2>1. g # h
    BY <1>2
  <2> QED
    BY <1>2, <2>1 DEF About
<1>3. \A f, g \in Handlers : About(f, u, v)' /\ About(g, u, v)' => f = g
  BY <1>1, <1>2 DEF TidyPair
<1>4. ASSUME NEW g \in Handlers, About(g, u, v)' PROVE Knows(call[g])'
  <2>1. call'[g] = call[g] /\ Knows(call[g]) /\ {call[g].user, call[g].other} = {u, v}
    BY <1>1, <1>2, <1>4 DEF TidyPair, About
  <2>2. \/ call[g].user = u /\ call[g].other = v
        \/ call[g].user = v /\ call[g].other = u
    BY <2>1, PairsAreSets
  <2> QED
    BY <2>1, <2>2 DEF Knows, Exists
<1>5. Tidy(u, v)'
  <2>1. Cleaning(u, v) => Cleaning(u, v)'
    BY DEF Cleaning, About, At
  <2> QED
    BY <1>1, <2>1 DEF TidyPair, Tidy, Exists
<1> QED
  BY <1>3, <1>4, <1>5

\* A step of the only call about u and v leaves the pair tidy when it does so
\* with the requests, and when the call goes on knowing the truth.
LEMMA OwnStaysTidy ==
    ASSUME NEW u \in Users, NEW v \in Users, TidyPair(u, v), NEW h \in Handlers,
           About(h, u, v), {u, v} \notin untidy, untidy \subseteq untidy',
           \A g \in Handlers \ {h} : call'[g] = call[g],
           About(h, u, v)' => Knows(call[h])',
           Tidy(u, v)'
    PROVE  TidyPair(u, v)'
<1>1. \A g \in Handlers : About(g, u, v)' => g = h
  BY DEF TidyPair, About
<1> QED
  BY <1>1 DEF TidyPair

\* What a step of h leaves alone.
LEMMA StepFrame ==
    ASSUME IInv, NEW h \in Handlers, Step(h)
    PROVE  /\ \A g \in Handlers \ {h} : call'[g] = call[g]
           /\ untidy \subseteq untidy'
           /\ \/ call'[h] = Idle
              \/ /\ call[h].at # "answer" /\ call'[h] \in Calls
                 /\ call'[h].user = call[h].user /\ call'[h].other = call[h].other
           /\ friendships' \in {friendships, friendships \cup {{call[h].user, call[h].other}}}
           /\ \A r : r \notin {<<call[h].user, call[h].other>>, <<call[h].other, call[h].user>>}
                         => (r \in requests' <=> r \in requests)
<1> DEFINE Moves == /\ call[h].at # "answer" /\ call'[h] \in Calls
                    /\ call'[h].user = call[h].user /\ call'[h].other = call[h].other
<1>1. call \in [Handlers -> Calls]
  BY DEF IInv, TypeOK
<1>2. \/ Return(h)
      \/ \E step \in {"reject"} \cup AddSteps \cup AcceptSteps \cup ListSteps :
             Goto(h, step) /\ call[h].at # "answer"
      \/ \E names \in SUBSET Users : AnswerWith(h, names) /\ call[h].at # "answer"
      \/ \E names \in SUBSET Users : /\ call' = [call EXCEPT ![h].at = "set", ![h].names = names]
                                     /\ call[h].at # "answer"
  <2>1. CASE Add(h) \/ Accept(h) \/ Reject(h) \/ Fail(h)
    BY <2>1 DEF Add, AddFriends, AddSame, AddReverse, AddInsert, Accept, AcceptExists,
                AcceptCreate, AcceptDelete, AcceptInvalidate, Reject, Fail, At,
                AddSteps, AcceptSteps, ListSteps
  <2>2. CASE Get(h)
    <3>1. call[h].user \in Users
      BY <1>1, <2>2 DEF Get, At, IInv, GoodCalls, GoodCall, ListSteps
    <3>2. cache[call[h].user] # None => cache[call[h].user] \in SUBSET Users
      BY <3>1 DEF IInv, TypeOK
    <3> QED
      BY <2>2, <3>2 DEF Get, At, ListSteps
  <2>3. CASE Read(h)
    BY <2>3 DEF Read, At, FriendsOf
  <2>4. CASE Drop(h) \/ Set(h) \/ Done(h)
    BY <2>4 DEF Drop, Set, Done, At, ListSteps
  <2> QED
    BY <2>1, <2>2, <2>3, <2>4 DEF Step, List
<1>3. /\ \A g \in Handlers \ {h} : call'[g] = call[g]
      /\ call'[h] = Idle \/ Moves
  <2>1. CASE Return(h)
    BY <1>1, <2>1 DEF Return
  <2>2. ASSUME NEW step \in {"reject"} \cup AddSteps \cup AcceptSteps \cup ListSteps,
               Goto(h, step), call[h].at # "answer"
        PROVE  Moves /\ \A g \in Handlers \ {h} : call'[g] = call[g]
    BY <1>1, <2>2 DEF Goto, Calls
  <2>3. ASSUME NEW names \in SUBSET Users, call[h].at # "answer",
               \/ AnswerWith(h, names)
               \/ call' = [call EXCEPT ![h].at = "set", ![h].names = names]
        PROVE  Moves /\ \A g \in Handlers \ {h} : call'[g] = call[g]
    BY <1>1, <2>3 DEF AnswerWith, Calls, ListSteps
  <2> QED
    BY <1>2, <2>1, <2>2, <2>3
<1>4. /\ untidy \subseteq untidy'
      /\ friendships' \in {friendships, friendships \cup {{call[h].user, call[h].other}}}
      /\ \A r : r \notin {<<call[h].user, call[h].other>>, <<call[h].other, call[h].user>>}
                    => (r \in requests' <=> r \in requests)
  BY DEF Step, Add, AddFriends, AddSame, AddReverse, AddInsert, Accept, AcceptExists,
         AcceptCreate, AcceptDelete, AcceptInvalidate, Reject, Fail, List, Get, Drop, Read,
         Set, Done, tables, history
<1> QED
  BY <1>3, <1>4

\* A step of the only call about two users leaves their requests tidy.
LEMMA OwnStep ==
    ASSUME IInv, NEW h \in Handlers, NEW a \in Users, NEW b \in Users,
           a = call[h].user, b = call[h].other, TidyPair(a, b), {a, b} \notin untidy',
           Step(h), About(h, a, b)
    PROVE  (About(h, a, b)' => Knows(call[h])') /\ Tidy(a, b)'
<1>1. /\ {a, b} \notin untidy /\ call[h].at \notin {"idle", "answer"}
      /\ Knows(call[h]) /\ Tidy(a, b)
      /\ \A g \in Handlers : About(g, a, b) => g = h
      /\ \A g \in Handlers \ {h} : call'[g] = call[g]
      /\ \/ call'[h] = Idle
         \/ call'[h] \in Calls /\ call'[h].user = a /\ call'[h].other = b
  BY StepFrame DEF TidyPair, About
<1>2. call \in [Handlers -> Calls]
  BY DEF IInv, TypeOK
<1>3. ~About(h, a, b)' \/ (call'[h].user = a /\ call'[h].other = b)
  BY <1>1 DEF About, Idle
<1>4. Cleaning(a, b) => At(h, "acceptDelete")
  BY <1>1 DEF Cleaning, About, At
<1>5. ASSUME UNCHANGED tables, ~At(h, "acceptDelete") PROVE Tidy(a, b)'
  BY <1>1, <1>4, <1>5 DEF Tidy, Exists, tables
<1>6. ASSUME call'[h].at \notin {"addSame", "addReverse", "addInsert"} PROVE Knows(call[h])'
  BY <1>6 DEF Knows
<1>7. CASE Return(h)
  <2>1. ~About(h, a, b)'
    BY <1>2, <1>7 DEF Return, About, Idle
  <2>2. CASE UNCHANGED tables
    <3>1. ~At(h, "acceptDelete")
      BY <1>7, <1>2 DEF Step, Add, AddFriends, AddSame, AddReverse, AddInsert, Accept,
                AcceptExists, AcceptCreate, AcceptDelete, AcceptInvalidate, Reject, Fail, List,
                Get, Drop, Read, Set, Done, At, Goto, AnswerWith, Return, AddSteps, Idle
    <3> QED
      BY <1>5, <2>1, <2>2, <3>1
  <2>3. CASE AddInsert(h)
    <3>1. ~Exists(b, a) /\ {a, b} \notin friendships
      BY <1>1, <2>3 DEF Knows, AddInsert, At
    <3>2. requests' = requests \cup {<<a, b>>} /\ friendships' = friendships
      BY <2>3 DEF AddInsert
    <3> QED
      BY <2>1, <3>1, <3>2 DEF Tidy, Exists
  <2>4. CASE Reject(h)
    <3>1. /\ requests' \subseteq requests /\ friendships' = friendships
          /\ ~At(h, "acceptDelete")
      BY <2>4 DEF Reject, At
    <3> QED
      BY <1>1, <1>4, <2>1, <3>1 DEF Tidy, Exists
  <2>5. UNCHANGED tables \/ AddInsert(h) \/ Reject(h)
    BY <1>7, <1>2 DEF Step, Add, AddFriends, AddSame, AddReverse, Accept, AcceptExists,
              AcceptCreate, AcceptDelete, AcceptInvalidate, Fail, List, Get, Drop, Read, Set,
              Done, tables, At, Goto, Return, Idle
  <2> QED
    BY <2>2, <2>3, <2>4, <2>5
<1>8. CASE AddFriends(h) \/ AddSame(h) \/ AddReverse(h)
  <2>1. UNCHANGED tables /\ ~At(h, "acceptDelete")
    BY <1>8 DEF AddFriends, AddSame, AddReverse, At
  <2>2. About(h, a, b)' => Knows(call[h])'
    <3> SUFFICES ASSUME About(h, a, b)' PROVE Knows(call[h])'
      OBVIOUS
    <3>1. CASE AddFriends(h)
      <4>1. call'[h].at = IF {a, b} \in friendships THEN "get" ELSE "addSame"
        BY <1>2, <3>1 DEF AddFriends, Goto, Calls
      <4> QED
        BY <1>3, <2>1, <4>1 DEF Knows, tables
    <3>2. CASE AddSame(h)
      <4>1. call'[h].at = "addReverse" /\ ~Exists(a, b)
        BY <1>2, <3>2 DEF AddSame, Goto, Return, Idle, About, Calls
      <4> QED
        BY <1>1, <1>3, <2>1, <3>2, <4>1 DEF Knows, tables, Exists, AddSame, At
    <3>3. CASE AddReverse(h)
      <4>1. call'[h].at = "addInsert" /\ ~Exists(b, a)
        BY <1>2, <3>3 DEF AddReverse, Goto, Return, Idle, About, Calls
      <4> QED
        BY <1>1, <1>3, <2>1, <3>3, <4>1 DEF Knows, tables, Exists, AddReverse, At
    <3> QED
      BY <1>8, <3>1, <3>2, <3>3
  <2> QED
    BY <1>5, <2>1, <2>2
<1>9. CASE AcceptCreate(h) /\ ~Return(h)
  <2>1. call'[h].at = "acceptDelete" /\ call'[h].user = a /\ call'[h].other = b
    BY <1>2, <1>9 DEF AcceptCreate, Goto, Calls
  <2>2. Cleaning(a, b)'
    BY <2>1 DEF Cleaning, At
  <2>3. requests' = requests
    BY <1>9 DEF AcceptCreate
  <2> QED
    BY <1>1, <1>6, <2>1, <2>2, <2>3 DEF Tidy, Exists
<1>10. CASE AcceptDelete(h)
  <2>1. requests' = requests \ {<<a, b>>, <<b, a>>}
    BY <1>10 DEF AcceptDelete
  <2>2. call'[h].at = "acceptInvalidate"
    BY <1>2, <1>10 DEF AcceptDelete, Goto, Calls
  <2> QED
    BY <1>6, <2>1, <2>2 DEF Tidy, Exists
<1>11. CASE (AcceptExists(h) /\ ~Return(h)) \/ AcceptInvalidate(h) \/ List(h)
  <2>1. UNCHANGED tables /\ ~At(h, "acceptDelete")
    BY <1>11 DEF AcceptExists, AcceptInvalidate, List, Get, Drop, Read, Set, Done, At
  <2>2. call'[h].at \notin {"addSame", "addReverse", "addInsert"}
    BY <1>2, <1>11 DEF AcceptExists, AcceptInvalidate, List, Get, Drop, Read, Set, Done, Goto,
              AnswerWith, Return, Idle, Calls
  <2> QED
    BY <1>5, <1>6, <2>1, <2>2
<1>12. \/ Return(h) \/ AddFriends(h) \/ AddSame(h) \/ AddReverse(h)
       \/ AcceptCreate(h) \/ AcceptDelete(h)
       \/ AcceptExists(h) \/ AcceptInvalidate(h) \/ List(h)
  BY DEF Step, Add, AddInsert, Accept, Reject, Fail
<1> QED
  BY <1>7, <1>8, <1>9, <1>10, <1>11, <1>12

\* A step of any call keeps all pairs tidy.
LEMMA StepKeepsTidy ==
    ASSUME IInv, TidyInv, NEW h \in Handlers, Step(h)
    PROVE  TidyInv'
<1> SUFFICES ASSUME NEW u \in Users, NEW v \in Users PROVE TidyPair(u, v)'
  BY DEF TidyInv
<1> DEFINE a == call[h].user
           b == call[h].other
<1>1. TidyPair(u, v) /\ untidy \subseteq untidy'
  BY StepFrame DEF TidyInv
<1>2. CASE {u, v} \in untidy'
  BY <1>2 DEF TidyPair
<1>3. CASE About(h, u, v) /\ {u, v} \notin untidy'
  <2>1. {a, b} = {u, v}
    BY <1>3 DEF About
  <2>2. (a = u /\ b = v) \/ (a = v /\ b = u)
    BY <2>1, PairsAreSets
  <2>3. a \in Users /\ b \in Users /\ {a, b} \notin untidy'
    BY <1>3, <2>1, <2>2
  <2>4. TidyPair(a, b) /\ About(h, a, b)
    BY <1>1, <1>3, <2>1, <2>2, TidyPairSymmetric DEF About
  <2>5. (About(h, u, v)' => Knows(call[h])') /\ Tidy(u, v)'
    <3>1. PICK x \in Users, y \in Users : x = a /\ y = b
      BY <2>3
    <3>2. (About(h, x, y)' => Knows(call[h])') /\ Tidy(x, y)'
      BY <2>3, <2>4, <3>1, OwnStep
    <3>3. (x = u /\ y = v) \/ (x = v /\ y = u)
      BY <2>2, <3>1
    <3>4. {u, v} = {x, y}
      BY <3>3
    <3> QED
      BY <3>2, <3>3, <3>4 DEF About, Tidy, Cleaning
  <2>6. \A g \in Handlers \ {h} : call'[g] = call[g]
    BY StepFrame
  <2> QED
    BY <1>1, <1>3, <2>5, <2>6, OwnStaysTidy
<1>4. CASE ~About(h, u, v) /\ {u, v} # {a, b}
  <2>1. ~About(h, u, v)'
    BY <1>4, StepFrame DEF About, Idle
  <2>2. {u, v} \in friendships' <=> {u, v} \in friendships
    BY <1>4, StepFrame
  <2>3. /\ <<u, v>> \in requests' <=> <<u, v>> \in requests
        /\ <<v, u>> \in requests' <=> <<v, u>> \in requests
    <3>1. <<u, v>> \notin {<<a, b>>, <<b, a>>} /\ <<v, u>> \notin {<<a, b>>, <<b, a>>}
      BY <1>4
    <3> QED
      BY <3>1, StepFrame
  <2> QED
    BY <1>1, <1>4, <2>1, <2>2, <2>3, StepFrame, OthersStayTidy
<1>5. CASE ~About(h, u, v) /\ {u, v} = {a, b}
  <2>1. call[h].at = "answer"
    BY <1>5 DEF About, Step, Add, AddFriends, AddSame, AddReverse, AddInsert, Accept,
           AcceptExists, AcceptCreate, AcceptDelete, AcceptInvalidate, Reject, Fail, List, Get,
           Drop, Read, Set, Done, At, AddSteps
  <2>2. UNCHANGED tables
    BY <2>1 DEF Step, Add, AddFriends, AddSame, AddReverse, AddInsert, Accept,
           AcceptExists, AcceptCreate, AcceptDelete, AcceptInvalidate, Reject, Fail, List, Get,
           Drop, Read, Set, Done, At, AddSteps
  <2>3. call'[h] = Idle
    BY <2>1, StepFrame
  <2>4. ~About(h, u, v)'
    BY <2>3 DEF About, Idle
  <2> QED
    BY <1>1, <1>5, <2>2, <2>4, StepFrame, OthersStayTidy DEF tables
<1> QED
  BY <1>2, <1>3, <1>4, <1>5

\* A call that begins: about a pair of which no other call is under way, or the
\* pair is untidy from now on.
LEMMA StartKeepsTidy ==
    ASSUME IInv, TidyInv, NEW h \in Handlers, Start(h)
    PROVE  TidyInv'
<1> SUFFICES ASSUME NEW u \in Users, NEW v \in Users PROVE TidyPair(u, v)'
  BY DEF TidyInv
<1>1. TidyPair(u, v) /\ call \in [Handlers -> Calls] /\ ~About(h, u, v)
  BY DEF TidyInv, IInv, TypeOK, About, Start, BeginList, BeginAdd, BeginAccept, BeginReject,
         Begin, At
<1>2. UNCHANGED tables
  BY DEF Start, BeginList, BeginAdd, BeginAccept, BeginReject, Begin
<1>3. CASE \E w \in Users : BeginList(h, w)
  <2>1. PICK w \in Users : BeginList(h, w)
    BY <1>3
  <2>2. /\ \A g \in Handlers \ {h} : call'[g] = call[g]
        /\ call'[h].other = None /\ UNCHANGED untidy
    BY <1>1, <2>1 DEF BeginList, history
  <2>3. ~About(h, u, v)'
    BY <2>2, NoneAssumption DEF About
  <2> QED
    BY <1>1, <1>2, <2>2, <2>3, OthersStayTidy DEF tables
<1>4. ASSUME NEW x \in Users, NEW y \in Users, NEW kind,
             NEW first \in {"addFriends", "acceptExists", "reject"}, Begin(h, kind, first, x, y)
      PROVE  TidyPair(u, v)'
  <2>1. /\ \A g \in Handlers \ {h} : call'[g] = call[g]
        /\ call'[h].at = first /\ call'[h].user = x /\ call'[h].other = y
        /\ untidy' = IF Overlap(x, y) THEN untidy \cup {{x, y}} ELSE untidy
        /\ At(h, "idle")
    BY <1>1, <1>4 DEF Begin
  <2>2. CASE {x, y} # {u, v}
    <3>1. ~About(h, u, v)' /\ untidy \subseteq untidy'
      BY <2>1, <2>2 DEF About
    <3> QED
      BY <1>1, <1>2, <2>1, <3>1, OthersStayTidy DEF tables
  <2>3. CASE {x, y} = {u, v} /\ {u, v} \in untidy'
    BY <2>3 DEF TidyPair
  <2>4. CASE {x, y} = {u, v} /\ {u, v} \notin untidy'
    <3>1. {u, v} \notin untidy /\ ~Overlap(x, y)
      BY <2>1, <2>4
    <3>2. \A g \in Handlers : ~About(g, u, v)
      BY <2>4, <3>1 DEF Overlap, About
    <3>3. \A g \in Handlers : About(g, u, v)' => g = h
      BY <2>1, <3>2 DEF About
    <3>4. Knows(call[h])'
      BY <2>1 DEF Knows
    <3>5. Tidy(u, v) /\ ~Cleaning(u, v)
      BY <1>1, <3>1, <3>2 DEF TidyPair, Cleaning, About, At
    <3>6. Tidy(u, v)'
      BY <1>2, <3>5 DEF Tidy, Exists, tables
    <3> QED
      BY <3>3, <3>4, <3>6 DEF TidyPair
  <2> QED
    BY <2>2, <2>3, <2>4
<1> QED
  BY <1>3, <1>4 DEF Start, BeginAdd, BeginAccept, BeginReject

\* After a crash nobody deletes any more: those pairs are untidy.
LEMMA CrashKeepsTidy ==
    ASSUME IInv, TidyInv, Crash
    PROVE  TidyInv'
<1> SUFFICES ASSUME NEW u \in Users, NEW v \in Users, {u, v} \notin untidy'
             PROVE  TidyPair(u, v)'
  BY DEF TidyInv, TidyPair
<1>1. \A h \in Handlers : call'[h].at = "idle"
  BY DEF Crash, Idle
<1>2. {u, v} \notin untidy /\ UNCHANGED tables
  BY DEF Crash
<1>3. ~Cleaning(u, v)
  BY DEF Crash, Cleaning
<1>4. Tidy(u, v)'
  BY <1>2, <1>3 DEF TidyInv, TidyPair, Tidy, Exists, tables
<1> QED
  BY <1>1, <1>4 DEF TidyPair, About

LEMMA StepTidy == IInv /\ TidyInv /\ [Next]_vars => TidyInv'
<1> SUFFICES ASSUME IInv, TidyInv, [Next]_vars PROVE TidyInv'
  OBVIOUS
<1>1. CASE (\E u \in Users : Age(u)) \/ UNCHANGED vars
  <2>1. UNCHANGED <<friendships, requests, call, untidy>>
    BY <1>1 DEF Age, vars, tables, history
  <2> SUFFICES ASSUME NEW u \in Users, NEW v \in Users PROVE TidyPair(u, v)'
    BY DEF TidyInv
  <2>2. TidyPair(u, v)
    BY DEF TidyInv
  <2>3. \A h \in Handlers : About(h, u, v)' <=> About(h, u, v)
    BY <2>1 DEF About
  <2>4. \A h \in Handlers : Knows(call[h]) => Knows(call[h])'
    BY <2>1 DEF Knows, Exists
  <2>5. Tidy(u, v) => Tidy(u, v)'
    BY <2>1 DEF Tidy, Cleaning, Exists, At
  <2> QED
    BY <2>1, <2>2, <2>3, <2>4, <2>5 DEF TidyPair
<1> QED
  BY <1>1, StepKeepsTidy, StartKeepsTidy, CrashKeepsTidy DEF Next

\* Calls about two users that run one at a time leave at most one request between
\* them, and between friends none but those that are about to be deleted.
THEOREM RequestsStayTidy == Spec => []TidyUnlessOverlapping
<1>1. IInv /\ TidyInv => TidyUnlessOverlapping
  BY DEF TidyInv, TidyPair, Tidy, Cleaning, TidyUnlessOverlapping
<1> QED
  BY <1>1, InitTidy, StepTidy, Invariance, PTL DEF Spec
=============================================================================
