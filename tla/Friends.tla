------------------------------- MODULE Friends -------------------------------
(***************************************************************************)
(* Friends: the tables friendships and friend_requests, the handlers of    *)
(* friends_handler.go, and the cache of friend lists (friend_cache.go).    *)
(*                                                                         *)
(* No handler uses a transaction: each runs as a goroutine that takes one  *)
(* step per query or critical section of the cache, and any two can        *)
(* overlap.  The events that handlers publish are Hub's.                   *)
(***************************************************************************)
EXTENDS Naturals

CONSTANTS
    Users,      \* the accounts
    Handlers,   \* bound: goroutines that serve calls at the same time
    None        \* no entry, no user

ASSUME NoneAssumption == None \notin Users

VARIABLES
    friendships,  \* the pairs of users that have a row
    requests,     \* <<requester, target>> of each row of friend_requests
    cache,        \* FriendListCache.entries: user |-> friends, or None
    expired,      \* users whose entry is older than the 45 seconds it lives
    call,         \* handler |-> the call that it serves
    asked,        \* history: <<u, v>> when u has called AddFriend for v
    untidy        \* history: pairs of which two calls overlapped, or whose
                  \* requests were not deleted

tables == <<friendships, requests>>
lists == <<cache, expired>>
history == <<asked, untidy>>
vars == <<tables, lists, call, history>>

AddSteps == {"addFriends", "addSame", "addReverse", "addInsert"}
AcceptSteps == {"acceptExists", "acceptCreate", "acceptDelete", "acceptInvalidate"}
ListSteps == {"get", "drop", "read", "set", "answer"}

Calls == [kind : {"none", "add", "accept", "reject", "list"},
          at : {"idle", "reject"} \cup AddSteps \cup AcceptSteps \cup ListSteps,
          user : Users \cup {None},    \* the caller
          other : Users \cup {None},   \* whom the call is about
          names : SUBSET Users]        \* usernames, as read so far

Idle == [kind |-> "none", at |-> "idle", user |-> None, other |-> None, names |-> {}]

At(h, step) == call[h].at = step
Goto(h, step) == call' = [call EXCEPT ![h].at = step]
Return(h) == call' = [call EXCEPT ![h] = Idle]
AnswerWith(h, names) ==
    call' = [call EXCEPT ![h].at = "answer", ![h].names = names]

\* ListFriendsByUserID.
FriendsOf(u) == {v \in Users : {u, v} \in friendships /\ v # u}

\* FriendRequestExists.
Exists(requester, target) == <<requester, target>> \in requests

\* Two calls about one pair are under way at once.
Overlap(u, v) ==
    \E h \in Handlers : /\ call[h].at \notin {"idle", "answer"}
                        /\ {call[h].user, call[h].other} = {u, v}

----------------------------------------------------------------------------
Init ==
    /\ friendships = {}
    /\ requests = {}
    /\ cache = [u \in Users |-> None]
    /\ expired = {}
    /\ call = [h \in Handlers |-> Idle]
    /\ asked = {}
    /\ untidy = {}

\* A call about another user, who was looked up by name, begins at its first
\* query.  Add refuses a call about oneself; for the others it has no effect.
Begin(h, kind, first, u, v) ==
    /\ At(h, "idle")
    /\ u # v
    /\ call' = [call EXCEPT ![h] = [kind |-> kind, at |-> first, user |-> u,
                                    other |-> v, names |-> {}]]
    /\ untidy' = IF Overlap(u, v) THEN untidy \cup {{u, v}} ELSE untidy
    /\ UNCHANGED <<tables, lists>>

\* A bug: that the database knows no such user is not noticed.
BeginAddUnknown(h, u, v) ==
    /\ Begin(h, "add", "addFriends", u, None)
    /\ asked' = asked \cup {<<u, v>>}

BeginAdd(h, u, v) ==
    /\ Begin(h, "add", "addFriends", u, v)
    /\ asked' = asked \cup {<<u, v>>}

BeginAccept(h, u, v) ==
    /\ Begin(h, "accept", "acceptExists", u, v)
    /\ UNCHANGED asked

BeginReject(h, u, v) ==
    /\ Begin(h, "reject", "reject", u, v)
    /\ UNCHANGED asked

BeginList(h, u) ==
    /\ At(h, "idle")
    /\ call' = [call EXCEPT ![h] = [kind |-> "list", at |-> "get", user |-> u,
                                    other |-> None, names |-> {}]]
    /\ UNCHANGED <<tables, lists, history>>

----------------------------------------------------------------------------
(* AddFriendHandler: three looks at the tables, then the insertion. *)

AddFriends(h) ==
    /\ At(h, "addFriends")
    /\ Goto(h, IF {call[h].user, call[h].other} \in friendships
               THEN "get" ELSE "addSame")
    /\ UNCHANGED <<tables, lists, history>>

AddSame(h) ==
    /\ At(h, "addSame")
    /\ IF Exists(call[h].user, call[h].other) THEN Return(h) ELSE Goto(h, "addReverse")
    /\ UNCHANGED <<tables, lists, history>>

\* A bug: the request in the other direction is not looked for.
AddReverseUnchecked(h) ==
    /\ At(h, "addReverse")
    /\ Goto(h, "addInsert")
    /\ UNCHANGED <<tables, lists, history>>

AddReverse(h) ==
    /\ At(h, "addReverse")
    /\ IF Exists(call[h].other, call[h].user) THEN Return(h) ELSE Goto(h, "addInsert")
    /\ UNCHANGED <<tables, lists, history>>

\* A second row with the same key is refused, and so changes nothing.
AddInsert(h) ==
    /\ At(h, "addInsert")
    /\ requests' = requests \cup {<<call[h].user, call[h].other>>}
    /\ Return(h)
    /\ UNCHANGED <<friendships, lists, history>>

----------------------------------------------------------------------------
(* AcceptFriendRequestHandler *)

\* A bug: the caller's own request is looked for.
AcceptExistsSwapped(h) ==
    /\ At(h, "acceptExists")
    /\ IF Exists(call[h].user, call[h].other)
       THEN Goto(h, "acceptCreate") ELSE Return(h)
    /\ UNCHANGED <<tables, lists, history>>

AcceptExists(h) ==
    /\ At(h, "acceptExists")
    /\ IF Exists(call[h].other, call[h].user)
       THEN Goto(h, "acceptCreate") ELSE Return(h)
    /\ UNCHANGED <<tables, lists, history>>

\* The insertion fails when the two are friends already.
AcceptCreate(h) ==
    /\ At(h, "acceptCreate")
    /\ LET pair == {call[h].user, call[h].other}
       IN  /\ friendships' = friendships \cup {pair}
           /\ IF pair \in friendships THEN Return(h) ELSE Goto(h, "acceptDelete")
    /\ UNCHANGED <<requests, lists, history>>

\* DeleteFriendRequestsBetween; an error is ignored.
AcceptDelete(h) ==
    /\ At(h, "acceptDelete")
    /\ LET u == call[h].user
           v == call[h].other
       IN  \/ requests' = requests \ {<<u, v>>, <<v, u>>} /\ UNCHANGED untidy
           \/ untidy' = untidy \cup {{u, v}} /\ UNCHANGED requests
    /\ Goto(h, "acceptInvalidate")
    /\ UNCHANGED <<friendships, lists, asked>>

\* FriendListCache.Invalidate for both; then the event is published.
AcceptInvalidate(h) ==
    /\ At(h, "acceptInvalidate")
    /\ LET pair == {call[h].user, call[h].other}
       IN  /\ cache' = [u \in Users |-> IF u \in pair THEN None ELSE cache[u]]
           /\ expired' = expired \ pair
    /\ Goto(h, "get")
    /\ UNCHANGED <<tables, history>>

\* RejectFriendRequestHandler.
Reject(h) ==
    /\ At(h, "reject")
    /\ requests' = requests \ {<<call[h].other, call[h].user>>}
    /\ Return(h)
    /\ UNCHANGED <<friendships, lists, history>>

----------------------------------------------------------------------------
(* loadFriendUsername, with which three of the handlers end. *)

\* A bug: an entry is returned however old it is.
GetForever(h) ==
    /\ At(h, "get")
    /\ IF cache[call[h].user] = None THEN Goto(h, "read")
       ELSE AnswerWith(h, cache[call[h].user])
    /\ UNCHANGED <<tables, lists, history>>

\* FriendListCache.Get reads the entry under its lock ...
Get(h) ==
    /\ At(h, "get")
    /\ LET u == call[h].user
       IN  IF cache[u] = None THEN Goto(h, "read")
           ELSE IF u \in expired THEN Goto(h, "drop")
           ELSE AnswerWith(h, cache[u])
    /\ UNCHANGED <<tables, lists, history>>

\* ... and drops an expired one under another, whatever it is by then.
Drop(h) ==
    /\ At(h, "drop")
    /\ cache' = [cache EXCEPT ![call[h].user] = None]
    /\ expired' = expired \ {call[h].user}
    /\ Goto(h, "read")
    /\ UNCHANGED <<tables, history>>

Read(h) ==
    /\ At(h, "read")
    /\ call' = [call EXCEPT ![h].at = "set", ![h].names = FriendsOf(call[h].user)]
    /\ UNCHANGED <<tables, lists, history>>

\* A bug: the list of a call about a friend is kept under the friend's name.
SetOther(h) ==
    /\ At(h, "set")
    /\ LET u == IF call[h].kind = "list" THEN call[h].user ELSE call[h].other
       IN  /\ cache' = [cache EXCEPT ![u] = call[h].names]
           /\ expired' = expired \ {u}
    /\ Goto(h, "answer")
    /\ UNCHANGED <<tables, history>>

\* FriendListCache.Set, which now and then clears expired entries first.
Set(h) ==
    /\ At(h, "set")
    /\ \E cleared \in {{}, expired} :
         /\ cache' = [u \in Users |-> IF u = call[h].user THEN call[h].names
                                      ELSE IF u \in cleared THEN None ELSE cache[u]]
         /\ expired' = expired \ (cleared \cup {call[h].user})
    /\ Goto(h, "answer")
    /\ UNCHANGED <<tables, history>>

Done(h) ==
    /\ At(h, "answer")
    /\ Return(h)
    /\ UNCHANGED <<tables, lists, history>>

----------------------------------------------------------------------------
\* A query fails, other than the deletion of requests.
Fail(h) ==
    /\ call[h].at \in AddSteps \cup {"acceptExists", "acceptCreate", "reject", "read"}
    /\ Return(h)
    /\ UNCHANGED <<tables, lists, history>>

\* The server dies and restarts: the cache and all calls are gone.
Crash ==
    /\ call' = [h \in Handlers |-> Idle]
    /\ cache' = [u \in Users |-> None]
    /\ expired' = {}
    /\ untidy' = untidy \cup {{call[h].user, call[h].other} :
                                h \in {g \in Handlers : At(g, "acceptDelete")}}
    /\ UNCHANGED <<tables, asked>>

\* 45 seconds pass since an entry was stored.
Age(u) ==
    /\ cache[u] # None
    /\ expired' = expired \cup {u}
    /\ UNCHANGED <<tables, cache, call, history>>

Add(h) == AddFriends(h) \/ AddSame(h) \/ AddReverse(h) \/ AddInsert(h)
Accept(h) == AcceptExists(h) \/ AcceptCreate(h) \/ AcceptDelete(h) \/ AcceptInvalidate(h)
List(h) == Get(h) \/ Drop(h) \/ Read(h) \/ Set(h) \/ Done(h)

Step(h) == Add(h) \/ Accept(h) \/ Reject(h) \/ List(h) \/ Fail(h)

Start(h) ==
    \E u \in Users :
        \/ BeginList(h, u)
        \/ \E v \in Users : BeginAdd(h, u, v) \/ BeginAccept(h, u, v) \/ BeginReject(h, u, v)

Next ==
    \/ \E h \in Handlers : Start(h) \/ Step(h)
    \/ \E u \in Users : Age(u)
    \/ Crash

\* A call goes on until it is answered, and time passes.
Fairness ==
    /\ \A h \in Handlers : WF_vars(Step(h))
    /\ \A u \in Users : WF_vars(Age(u))

Spec == Init /\ [][Next]_vars /\ Fairness

----------------------------------------------------------------------------
(* Properties. *)

\* The type invariant.
TypeOK ==
    /\ friendships \subseteq SUBSET Users
    /\ requests \subseteq Users \X Users
    /\ cache \in [Users -> (SUBSET Users) \cup {None}]
    /\ expired \subseteq Users
    /\ call \in [Handlers -> Calls]
    /\ asked \subseteq Users \X Users
    /\ untidy \subseteq SUBSET Users

\* However old a friend list is when loadFriendUsername stores or returns it,
\* it names friends of the user it is stored for, and nobody else.
ListsNameFriends ==
    /\ \A u \in Users : cache[u] # None => cache[u] \subseteq FriendsOf(u)
    /\ \A h \in Handlers : call[h].names # {} =>
           call[h].names \subseteq FriendsOf(call[h].user)

\* Nobody becomes friends with a user who did not ask for it: the call that
\* makes a friendship is of the one who was asked, never of the one who asked,
\* in whatever order the queries of all the calls are run.
FriendsWereAsked ==
    /\ \A h \in Handlers :
           At(h, "acceptCreate") => <<call[h].other, call[h].user>> \in asked
    /\ \A u, v \in Users :
           {u, v} \in friendships => <<u, v>> \in asked \/ <<v, u>> \in asked

\* The calls about a pair that run one at a time, and whose queries succeed,
\* leave at most one request between the two, and none between friends but
\* the ones that the call which made them friends is about to delete.
TidyUnlessOverlapping ==
    \A u, v \in Users : {u, v} \notin untidy =>
        /\ ~(u # v /\ Exists(u, v) /\ Exists(v, u))
        /\ {u, v} \in friendships /\ Exists(u, v) =>
               \E h \in Handlers : /\ At(h, "acceptDelete")
                                   /\ {call[h].user, call[h].other} = {u, v}

\* A list that was read before two users became friends is served for a while
\* at most: from some time on every friend list that a call of either of them
\* is answered with names the other.
CacheCatchesUp ==
    \A u, v \in Users :
        u # v /\ {u, v} \in friendships
            ~> [](\A h \in Handlers :
                    At(h, "answer") /\ call[h].user = u => v \in call[h].names)

=============================================================================
