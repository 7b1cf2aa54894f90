---------------------------- MODULE FriendPanel ----------------------------
(***************************************************************************)
(* The friends of one user as a browser tab shows them: api/friends.ts and *)
(* what useWorkspaceController does with it.                               *)
(*                                                                         *)
(* A tab asks for the list of friends and for the requests with two calls, *)
(* which the server answers in any order and each for the moment at which  *)
(* it does; it asks when it starts, after what its user did and when the   *)
(* server says over the socket that something changed.  Whether a friend   *)
(* is online comes with the list, and over the socket.  The handlers of    *)
(* the server are taken as atomic; module Friends takes them apart.        *)
(***************************************************************************)
EXTENDS Naturals, Sequences

CONSTANTS
    Others,      \* the other users
    None,        \* no answer yet, nobody
    Failed,      \* the answer of a call that failed
    Slots,       \* bound: calls of the tab that are under way at once (an event
                 \* that asks for another waits)
    MaxVersion,  \* bound: versions of what the tab should show
    MaxLosses    \* bound: calls and answers that are lost, connections that break

ASSUME NoneAssumption == None \notin Others /\ Failed # None
ASSUME BoundAssumption == MaxVersion \in Nat \ {0} /\ MaxLosses \in Nat

VARIABLES
    relation,   \* what each other user is to this one, in the tables
    online,     \* who is connected
    version,    \* one more than the changes there were
    up,         \* the socket is open
    wire,       \* events on their way to the tab
    slot,       \* the calls of the tab
    friends,    \* friends: absent, or shown as online or offline
    pendings,   \* pendingIncomingRequests, pendingOutgoingRequests
    shown,      \* history: the version of the list and of the requests shown
                \* (of the event, if one older than the list changed it)
    seen,       \* history: the latest version of each that was ever shown, or
                \* that an event about presence told of
    overtaken,  \* history: the latest version of each that an older answer
                \* took the place of
    missed,     \* history: the latest version of which nothing was heard
    losses

server == <<relation, online, version>>
vars == <<server, up, wire, slot, friends, pendings, shown, seen, overtaken, missed,
          losses>>
panel == <<friends, pendings, shown, seen, overtaken>>

Idle == [do |-> "idle", other |-> None, list |-> None, requests |-> None]
Fetch(do) == [Idle EXCEPT !.do = do]

\* The two effects of the controller ask for the list and for the requests.
Init ==
    /\ relation \in [Others -> {"none", "friend"}]
    /\ online \in SUBSET Others
    /\ version = 1
    /\ up = FALSE
    /\ wire = <<>>
    /\ slot \in {f \in [Slots -> {Idle, Fetch("fetchFriends"), Fetch("fetchFriendRequests")}] :
                   \A do \in {"fetchFriends", "fetchFriendRequests"} :
                       \E s \in Slots : \A t \in Slots : f[t].do = do <=> t = s}
    /\ friends = [o \in Others |-> "absent"]
    /\ pendings = [incoming |-> {}, outgoing |-> {}]
    /\ shown = [list |-> 0, requests |-> 0]
    /\ seen = [list |-> 0, requests |-> 0]
    /\ overtaken = [list |-> 0, requests |-> 0]
    /\ missed = 0
    /\ losses = 0

----------------------------------------------------------------------------
(* The server. *)

Latest(a, b) == IF a < b THEN b ELSE a

\* An event that reaches the tab only over an open socket.
Publish(event) ==
    IF up THEN wire' = Append(wire, event) /\ UNCHANGED missed
          ELSE missed' = version' /\ UNCHANGED wire

Social == [type |-> "social_event"]

\* o becomes something else to this user, and both are told.
Becomes(o, new) ==
    /\ version < MaxVersion
    /\ version' = version + 1
    /\ relation' = [relation EXCEPT ![o] = new]
    /\ Publish(Social)
    /\ UNCHANGED online

\* Another user asks, accepts or rejects.
OtherActs(o) ==
    /\ \/ relation[o] = "none" /\ Becomes(o, "incoming")
       \/ relation[o] = "outgoing" /\ \E new \in {"friend", "none"} : Becomes(o, new)
    /\ UNCHANGED <<up, slot, panel, losses>>

\* Another user connects or goes, and everyone is told.
PresenceChanges(o) ==
    /\ version < MaxVersion
    /\ version' = version + 1
    /\ online' = IF o \in online THEN online \ {o} ELSE online \cup {o}
    /\ Publish([type |-> "presence", from |-> o, online |-> o \in online', version |-> version'])
    /\ UNCHANGED <<relation, up, slot, panel, losses>>

SocketOpens ==
    /\ ~up
    /\ up' = TRUE
    /\ UNCHANGED <<server, wire, slot, panel, missed, losses>>

\* What was under way is lost.
SocketBreaks ==
    /\ up
    /\ losses < MaxLosses
    /\ losses' = losses + 1
    /\ up' = FALSE
    /\ wire' = <<>>
    /\ missed' = IF wire = <<>> THEN missed ELSE version
    /\ UNCHANGED <<server, slot, panel>>

----------------------------------------------------------------------------
(* The calls of the tab. *)

Clicks == {"addFriend", "acceptFriendRequest", "rejectFriendRequest"}

\* The user asks for, accepts or rejects another, by name.
Click(s, do, o) ==
    /\ slot[s] = Idle
    /\ do = "addFriend" \/ o \in pendings.incoming
    /\ slot' = [slot EXCEPT ![s] = [Fetch(do) EXCEPT !.other = o]]
    /\ UNCHANGED <<server, up, wire, panel, missed, losses>>

\* refreshFriendsAndRequests.
Refresh == Fetch("refresh")

\* The server does what was clicked; unless it refuses, or what was asked or
\* answered is lost, the tab goes on with a refresh.  A reject is announced even
\* if there was nothing to reject.
ServeClick(s) ==
    LET do == slot[s].do
        o == slot[s].other
        goOn == slot' = [slot EXCEPT ![s] = Refresh] /\ UNCHANGED losses
        lost == /\ losses < MaxLosses
                /\ losses' = losses + 1
                /\ slot' = [slot EXCEPT ![s] = Idle]
        refused == slot' = [slot EXCEPT ![s] = Idle] /\ UNCHANGED losses
        nothing == UNCHANGED <<server, wire, missed>>
    IN  /\ \/ do = "addFriend" /\ relation[o] = "none" /\ Becomes(o, "outgoing")
              /\ (goOn \/ lost)
           \/ do = "addFriend" /\ relation[o] \in {"outgoing", "friend"} /\ nothing /\ goOn
           \/ do = "addFriend" /\ relation[o] = "incoming" /\ nothing /\ refused
           \/ do = "acceptFriendRequest" /\ relation[o] = "incoming" /\ Becomes(o, "friend")
              /\ (goOn \/ lost)
           \/ do = "acceptFriendRequest" /\ relation[o] # "incoming" /\ nothing /\ refused
           \/ do = "rejectFriendRequest" /\ (goOn \/ lost)
              /\ Becomes(o, IF relation[o] = "incoming" THEN "none" ELSE relation[o])
           \/ do \in Clicks /\ nothing /\ lost
        /\ UNCHANGED <<up, panel>>

\* fetchFriends, as answered at this moment.
FriendPayload ==
    [version |-> version,
     names |-> [o \in Others |-> IF relation[o] # "friend" THEN "absent"
                                 ELSE IF o \in online THEN "online" ELSE "offline"]]

\* fetchFriendRequests.
FriendRequestPayload ==
    [version |-> version,
     names |-> [incoming |-> {o \in Others : relation[o] = "incoming"},
                outgoing |-> {o \in Others : relation[o] = "outgoing"}]]

\* An answer is given, or the call fails.
Answer(s, part, payload) ==
    /\ slot[s][part] = None
    /\ \/ /\ slot' = [slot EXCEPT ![s][part] = payload]
          /\ UNCHANGED losses
       \/ /\ losses < MaxLosses
          /\ losses' = losses + 1
          /\ slot' = [slot EXCEPT ![s][part] = Failed]
    /\ UNCHANGED <<server, up, wire, panel, missed>>

AnswerFriends(s) ==
    slot[s].do \in {"fetchFriends", "refresh"} /\ Answer(s, "list", FriendPayload)

AnswerRequests(s) ==
    slot[s].do \in {"fetchFriendRequests", "refresh"}
        /\ Answer(s, "requests", FriendRequestPayload)

Parts(do) ==
    CASE do = "fetchFriends" -> {"list"}
      [] do = "fetchFriendRequests" -> {"requests"}
      [] OTHER -> {"list", "requests"}

\* Promise.all: both lists are shown, or neither.
Shows(s, parts) == IF \E x \in parts : slot[s][x] = Failed THEN {} ELSE parts

\* A bug: the next call starts with the answers of this one.
FinishWithAnswers(s) == slot' = [slot EXCEPT ![s].do = "idle"]

Finish(s) == slot' = [slot EXCEPT ![s] = Idle]

\* All that a call waits for has arrived: it is shown, however late it is.
\* A refresh that fails leaves no trace.
Settle(s) ==
    LET parts == Parts(slot[s].do)
        shows == Shows(s, parts)
        at(x) == slot[s][x].version
    IN  /\ slot[s].do \in {"fetchFriends", "fetchFriendRequests", "refresh"}
        /\ \A x \in parts : slot[s][x] # None
        /\ Finish(s)
        /\ friends' = IF "list" \in shows THEN slot[s].list.names ELSE friends
        /\ pendings' = IF "requests" \in shows THEN slot[s].requests.names ELSE pendings
        /\ shown' = [x \in {"list", "requests"} |-> IF x \in shows THEN at(x) ELSE shown[x]]
        /\ seen' = [x \in {"list", "requests"} |-> Latest(seen[x], shown'[x])]
        /\ overtaken' = [x \in {"list", "requests"} |->
                             IF x \in shows /\ at(x) < seen[x] THEN seen[x] ELSE overtaken[x]]
        /\ missed' = IF shows = parts THEN missed ELSE version
        /\ UNCHANGED <<server, up, wire, losses>>

----------------------------------------------------------------------------
(* ws.onmessage. *)

Receive(type) ==
    /\ wire # <<>>
    /\ Head(wire).type = type
    /\ wire' = Tail(wire)
    /\ UNCHANGED <<server, up, pendings, overtaken, missed, losses>>

\* A bug: a refresh that is under way is taken for the one that is due.
RefreshUnlessBusy(s) ==
    IF \E t \in Slots : slot[t].do = "refresh"
    THEN UNCHANGED slot ELSE slot' = [slot EXCEPT ![s] = Refresh]

StartRefresh(s) == slot' = [slot EXCEPT ![s] = Refresh]

ReceiveSocialEvent(s) ==
    /\ Receive("social_event")
    /\ slot[s] = Idle
    /\ StartRefresh(s)
    /\ UNCHANGED <<friends, shown, seen>>

\* Somebody who is not in the list that is shown is not looked for later.
ReceivePresence ==
    /\ Receive("presence")
    /\ LET e == Head(wire)
       IN  /\ friends' = [friends EXCEPT ![e.from] =
                  IF @ = "absent" THEN @ ELSE IF e.online THEN "online" ELSE "offline"]
           /\ shown' = [shown EXCEPT !.list = IF e.version < @ THEN e.version ELSE @]
           /\ seen' = [seen EXCEPT !.list = Latest(@, e.version)]
    /\ UNCHANGED slot

----------------------------------------------------------------------------
Next ==
    \/ SocketOpens \/ SocketBreaks \/ ReceivePresence
    \/ \E o \in Others : OtherActs(o) \/ PresenceChanges(o)
    \/ \E s \in Slots : \/ ServeClick(s) \/ AnswerFriends(s) \/ AnswerRequests(s)
                        \/ Settle(s) \/ ReceiveSocialEvent(s)
    \/ \E s \in Slots, o \in Others, do \in Clicks : Click(s, do, o)

Spec == Init /\ [][Next]_vars

----------------------------------------------------------------------------
(* Properties. *)

Versions == 1..MaxVersion
ListPayloads == [version : Versions, names : [Others -> {"absent", "online", "offline"}]]
RequestPayloads ==
    [version : Versions, names : [incoming : SUBSET Others, outgoing : SUBSET Others]]

\* The type invariant; what is shown was true once, at a version not after now.
TypeOK ==
    /\ relation \in [Others -> {"none", "incoming", "outgoing", "friend"}]
    /\ online \subseteq Others
    /\ version \in Versions /\ missed \in 0..version
    /\ up \in BOOLEAN
    /\ \A i \in DOMAIN wire : wire[i].type \in {"social_event", "presence"}
    /\ \A s \in Slots :
         /\ slot[s].do \in Clicks \cup {"idle", "fetchFriends", "fetchFriendRequests", "refresh"}
         /\ slot[s].do = "idle" => slot[s] = Idle
         /\ slot[s].other \in Others \cup {None}
         /\ slot[s].list \in {None, Failed} \cup ListPayloads
         /\ slot[s].requests \in {None, Failed} \cup RequestPayloads
    /\ friends \in [Others -> {"absent", "online", "offline"}]
    /\ pendings \in [incoming : SUBSET Others, outgoing : SUBSET Others]
    /\ \A x \in {"list", "requests"} :
         shown[x] <= seen[x] /\ seen[x] <= version /\ overtaken[x] <= seen[x]
    /\ losses \in 0..MaxLosses

\* Nothing is under way.
Quiet == up /\ wire = <<>> /\ \A s \in Slots : slot[s] = Idle

\* The answer shown is not older than what it took the place of, or than what
\* was missed.
Fresh(x) == shown[x] >= overtaken[x] /\ shown[x] >= missed

\* When nothing is under way, the tab shows its user's friends, who of them is
\* online, and the requests as they are: unless a late answer overtook a later
\* one or an event, or an event came while the socket was closed, or a refresh
\* failed.  None of these is ever made up for.
UpToDate ==
    Quiet => /\ Fresh("list") => friends = FriendPayload.names
             /\ Fresh("requests") => pendings = FriendRequestPayload.names

=============================================================================
