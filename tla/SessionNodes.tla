---------------------------- MODULE SessionNodes ----------------------------
(***************************************************************************)
(* The Blueprint nodes of AdvancedSessions on top of the session           *)
(* interface.                                                              *)
(*                                                                         *)
(* A node binds a delegate, calls the interface, and reports success or    *)
(* failure to the game from the delegate.  The delegates carry no request: *)
(* a broadcast reaches every node that is bound to the event, whichever of *)
(* them asked.                                                             *)
(*                                                                         *)
(* A broadcast calls the nodes that were bound when it began and still are *)
(* when their turn comes.  Any handler may call the interface and, through *)
(* its report, the game, which may activate other nodes: broadcasts nest.  *)
(* stack holds them from the innermost that is not over outwards.          *)
(***************************************************************************)
EXTENDS SessionSearch, Sequences, FiniteSetsExt

CONSTANTS
  Nodes,            \* the nodes, each activated at most once
  Kinds,            \* what they are for
  GameSessionName,  \* the one session they speak of
  Steam,            \* may Steam's subsystem be there as well?
  JoinChoices       \* may an update allow to join in progress, may it forbid it?

ASSUME KindsAssumption == Kinds \subseteq {"create", "find", "end", "cancel", "update", "friend",
                                           "login", "logout", "friends"}
ASSUME NameAssumption  == GameSessionName \in SessionNames
ASSUME SteamAssumption == Steam \subseteq BOOLEAN
ASSUME JoinAssumption  == JoinChoices \subseteq BOOLEAN

VARIABLES
  node,        \* the nodes
  stack,       \* the broadcasts that are not over
  controller,  \* is the player controller of the nodes still there?
  left         \* nodes whose question the code dropped (history)

nvars == <<node, stack, controller, left>>

\* What the nodes bind to.
Events == {"Create", "Start", "Update", "End", "Find", "CancelFind", "FindFriend",
           "Login", "Logout"}

ASSUME NodeAssumption == None \notin Events

\* second: is a second search to follow (bRunSecondSearch), and is that one on the LAN?
\* reports: to the game, as far as they are counted.
Node == [activated : BOOLEAN, bound : Events \cup {None},
         second : BOOLEAN \cup {None}, reports : 0 .. 2]

Broadcast == [event : Delegates \cup Events, ok : BOOLEAN, to : SUBSET Nodes]

NTypeOK ==
  /\ STypeOK
  /\ node \in [Nodes -> Node]
  /\ stack \in Seq(Broadcast)
  /\ controller \in BOOLEAN
  /\ left \subseteq Nodes

NInit ==
  /\ SInit
  /\ node = [n \in Nodes |-> [activated |-> FALSE, bound |-> None, second |-> None,
                              reports |-> 0]]
  /\ stack = <<>>
  /\ controller = TRUE
  /\ left = {}

-----------------------------------------------------------------------------
(* Delegates *)

Bound(event, table) == {n \in Nodes : table[n].bound = event}

\* The innermost broadcast that has a node left to call, and those around it.
Unfinished(broadcasts) ==
  LET due == {k \in DOMAIN broadcasts : broadcasts[k].to # {}}
  IN  IF due = {} THEN <<>> ELSE SubSeq(broadcasts, Min(due), Len(broadcasts))

\* Mutant: a broadcast also calls the nodes unbound since it began.
LeftUnchecked(broadcasts) == Unfinished(broadcasts)

\* What is left to call of broadcasts, once the nodes have become node'.
Left(broadcasts) ==
  Unfinished([k \in DOMAIN broadcasts |->
                [broadcasts[k] EXCEPT !.to = @ \cap Bound(broadcasts[k].event, node')]])

To(event, ok) == <<[event |-> event, ok |-> ok, to |-> Bound(event, node')]>>

\* The broadcast of the session interface in this step, if there is one.
Triggered == IF notified' = None THEN <<>> ELSE To(notified'.event, notified'.ok)

\* The answer to a request of this kind is an error page, and ignored.
Ignored(op) ==
  /\ notified' = None
  /\ \E i \in Ids : /\ http[i] # None /\ http[i].op = op
                    /\ http[i].reply = "http500" /\ http'[i] = None

\* A cancelled search and an ignored error page answer nobody.
Dropped ==
  (IF Searching /\ ~Searching' /\ notified' # None /\ notified'.event = "CancelFind"
   THEN Bound("Find", node) ELSE {})
  \cup (IF Ignored("register") THEN Bound("Create", node) ELSE {})
  \cup (IF Ignored("update") THEN Bound("Update", node) ELSE {})

\* The step ends with the broadcasts added, on top of those that were pending.
Settle(added, pending) ==
  /\ stack' = Left(added \o pending)
  /\ left' = left \cup Dropped

\* The session interface is not called, or answers from what it has.
Still ==
  /\ Running
  /\ Quiet
  /\ UNCHANGED <<sessions, createName, beacon, http, timer, resume, listed, crashed, svars>>

-----------------------------------------------------------------------------
(* Activation *)

New(n, kind) == ~node[n].activated /\ kind \in Kinds

Bind(n, event) ==
  node' = [node EXCEPT ![n].activated = TRUE, ![n].bound = event]

\* The node answers without waiting for anything.
AtOnce(n) ==
  /\ node' = [node EXCEPT ![n].activated = TRUE, ![n].reports = 1]
  /\ Still

\* A node that asks for a dedicated server does without a player.
CreateNode(n) ==
  /\ New(n, "create")
  /\ \E dedicatedServer \in BOOLEAN :
       IF dedicatedServer \/ controller
       THEN /\ Bind(n, "Create")
            /\ \E lan, advertise \in BOOLEAN :
                 CreateSession(GameSessionName, [lan |-> lan, advertise |-> advertise,
                                                 joinInProgress |-> TRUE, presence |-> TRUE])
            /\ UNCHANGED svars
       ELSE AtOnce(n)

\* Next to Steam a search for all servers is made in two searches.
FindNode(n) ==
  /\ New(n, "find")
  /\ \/ /\ controller
        /\ \E lan \in BOOLEAN, second \in Steam \cup {FALSE} :
             /\ node' = [node EXCEPT ![n].activated = TRUE, ![n].bound = "Find",
                                     ![n].second = IF second THEN lan ELSE None]
             /\ FindSessions(lan)
     \/ ~controller /\ AtOnce(n)

\* A match that is not on has been ended successfully.
EndNode(n) ==
  /\ New(n, "end")
  /\ IF controller /\ NamedSession(GameSessionName)
                   /\ sessions[GameSessionName].state = "InProgress"
     THEN Bind(n, "End") /\ EndSession(GameSessionName) /\ UNCHANGED svars
     ELSE AtOnce(n)

CancelNode(n) ==
  /\ New(n, "cancel")
  /\ \/ controller  /\ Bind(n, "CancelFind") /\ CancelFindSessions
     \/ ~controller /\ AtOnce(n)

\* Settings of the session are changed in place before it is updated with them.
UpdateNode(n) ==
  /\ New(n, "update")
  /\ IF NamedSession(GameSessionName)
     THEN /\ Bind(n, "Update")
          /\ \E lan \in BOOLEAN, joinInProgress \in JoinChoices :
               UpdateSession(GameSessionName,
                             [sessions[GameSessionName].settings EXCEPT
                                !.lan = lan, !.joinInProgress = joinInProgress])
          /\ UNCHANGED svars
     ELSE AtOnce(n)

FriendNode(n) ==
  /\ New(n, "friend")
  /\ \/ controller /\ Bind(n, "FindFriend") /\ FindFriendSession
     \/ AtOnce(n)   \* an invalid friend, or no player

\* The identity interface answers a login or a logout before the call returns; whether
\* it succeeded only chooses between the two ways to report.
IdentityNode(n, kind, event) ==
  /\ New(n, kind)
  /\ \/ controller  /\ Bind(n, event) /\ Still
     \/ ~controller /\ AtOnce(n)

\* The subsystem has no friends interface.
FriendsNode(n) == New(n, "friends") /\ AtOnce(n)

Activate(n) ==
  \/ /\ \/ CreateNode(n) \/ FindNode(n) \/ EndNode(n) \/ CancelNode(n)
        \/ UpdateNode(n) \/ FriendNode(n) \/ FriendsNode(n)
     /\ Settle(Triggered, stack)
  \/ IdentityNode(n, "login", "Login") /\ Settle(To("Login", TRUE), stack)
  \/ IdentityNode(n, "logout", "Logout") /\ Settle(To("Logout", TRUE), stack)

-----------------------------------------------------------------------------
(* Delegates being called *)

\* Mutant: a node leaves its delegate bound.
NeverUnbinds(n, unbinds) ==
  node' = [node EXCEPT ![n].reports = IF @ = 2 THEN 2 ELSE @ + 1]

\* The node reports to the game, having unbound its delegate or not.
Report(n, unbinds) ==
  node' = [node EXCEPT ![n].reports = IF @ = 2 THEN 2 ELSE @ + 1,
                       ![n].bound = IF unbinds THEN None ELSE @]

\* A session that has been created is started.
OnCreateCompleted(n, ok) ==
  \/ /\ ok
     /\ node' = [node EXCEPT ![n].bound = "Start"]
     /\ StartSession(GameSessionName)
     /\ UNCHANGED svars
  \/ ~ok /\ Report(n, TRUE) /\ Still

\* The first of two searches is followed by the second; without its controller the
\* node stays bound.
OnFindCompleted(n) ==
  \/ /\ node[n].second # None /\ controller
     /\ node' = [node EXCEPT ![n].second = None]
     /\ FindSessions(node[n].second)
  \/ ~(node[n].second # None /\ controller) /\ Report(n, controller) /\ Still

\* Nodes for which the controller tells how to unbind.
ByController == {"End", "CancelFind", "Login", "Logout"}

Deliver(n) ==
  /\ stack # <<>> /\ n \in Head(stack).to
  /\ LET b == Head(stack)
     IN  /\ \/ b.event = "Create" /\ OnCreateCompleted(n, b.ok)
            \/ b.event = "Find"   /\ OnFindCompleted(n)
            \/ b.event \in ByController /\ Report(n, controller) /\ Still
            \/ b.event \in {"Start", "Update", "FindFriend"} /\ Report(n, TRUE) /\ Still
         /\ Settle(Triggered, <<[b EXCEPT !.to = @ \ {n}]>> \o Tail(stack))

-----------------------------------------------------------------------------
(* The rest of the game *)

\* It destroys the session, or the player is gone.
DestroyGame ==
  /\ DestroySession(GameSessionName)
  /\ UNCHANGED <<svars, node>>
  /\ Settle(Triggered, stack)

LoseController ==
  /\ controller
  /\ controller' = FALSE
  /\ Still
  /\ UNCHANGED <<node, stack, left>>

\* The next turn of the game thread, or the rest of a handler after its broadcast.
NodeTurn ==
  /\ stack = <<>>
  /\ \/ Turn /\ ~again /\ UNCHANGED svars
     \/ SearchTurn
  /\ UNCHANGED node
  /\ Settle(Triggered, stack)

Outside ==
  /\ \/ MasterServer /\ UNCHANGED svars
     \/ \E i \in Ids : ServeListing(i)
  /\ UNCHANGED <<node, stack, left>>

NNext ==
  /\ UNCHANGED dedicated
  /\ \/ LoseController
     \/ /\ UNCHANGED controller
        /\ \/ \E n \in Nodes : Activate(n) \/ Deliver(n)
           \/ DestroyGame \/ NodeTurn \/ Outside

NSpec == NInit /\ [][NNext]_<<allvars, nvars>>

\* The game thread runs: delegates are called, and answers come in.
NFairSpec ==
  /\ NSpec
  /\ WF_<<allvars, nvars>>(UNCHANGED <<dedicated, controller>> /\ \E n \in Nodes : Deliver(n))
  /\ WF_<<allvars, nvars>>(UNCHANGED <<dedicated, controller>> /\ NodeTurn)
  /\ WF_<<allvars, nvars>>(UNCHANGED <<dedicated, controller>> /\ Outside)

-----------------------------------------------------------------------------
(* Properties *)

InTurn(n) == \E k \in DOMAIN stack : n \in stack[k].to

\* As long as its player controller lives, a node reports to the game at most once,
\* although it receives the broadcasts that answer other nodes' questions, a search
\* is broadcast twice, and broadcasts nest.
NodesReportOnce == controller => \A n \in Nodes : node[n].reports <= 1

\* No more answers will come to this search, and none to a later one.
Wedged == search # None /\ Asked = {} /\ ~Searching /\ ~again

\* A node that waits for a search has an answer coming, from the search it asked for
\* or from the one that made its own search ignored, unless the search was cancelled
\* or one without an answer is the current one forever.
FindOwed ==
  Running => \A n \in Bound("Find", node) \ left :
    node[n].reports = 0 /\ controller =>
      Asked # {} \/ Searching \/ again \/ InTurn(n) \/ Wedged

\* A node that waits for the creation or the update of the session has an answer
\* coming: a request in flight, or a broadcast whose turn has not come - unless an
\* error page has arrived in answer to such a request, which both handlers ignore.
RequestOwed ==
  Running => \A n \in Nodes \ left :
    /\ node[n].bound = "Create" =>
         InTurn(n) \/ \E i \in Ids : http[i] # None /\ http[i].op = "register"
    /\ node[n].bound = "Update" =>
         InTurn(n) \/ \E i \in Ids : http[i] # None /\ http[i].op = "update"

\* The nodes whose question is answered before the call returns wait for nothing
\* once the broadcasts are over: starting what was created never, and ending a match,
\* cancelling a search and logging in and out not while the controller is there.
NoneLeftWaiting ==
  Running /\ stack = <<>> =>
    \A n \in Nodes : /\ node[n].bound \notin {"Start", "FindFriend"}
                     /\ controller => node[n].bound \notin ByController

\* "OnQueryCompleted will get called, nothing more to do now": where only the master
\* server is asked, a node that waits for a search is told of its end, as long as its
\* player controller is there.
QueryCompletes ==
  [](search # None => ~search.lan) =>
    \A n \in Nodes :
      (node[n].bound = "Find" /\ node[n].reports = 0) ~> (node[n].reports > 0 \/ ~controller)
=============================================================================
