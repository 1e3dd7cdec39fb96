------------------------------ MODULE Identity ------------------------------
(***************************************************************************)
(* FOnlineIdentityPython: the local players of a game process and their    *)
(* accounts.  Two maps are kept: UserIds from the number of a local player *)
(* to an id, and UserAccounts from the id to the account.  All calls run   *)
(* on the game thread.                                                     *)
(*                                                                         *)
(* The first instance on a machine (or one started with -StableNullID),    *)
(* unless it is the editor, gives every local player the same id, made of  *)
(* host name and login; any other gives each a random one.                 *)
(***************************************************************************)
EXTENDS Integers

CONSTANTS
  MaxLocalPlayers, \* MAX_LOCAL_PLAYERS
  Guids,           \* random ids
  StableId,        \* the id made of host name and login of the machine
  Attributes,      \* attributes the game sets on an account
  None             \* no id, no account, no notification

ASSUME PlayersAssumption == MaxLocalPlayers \in Nat \ {0}

LocalPlayers == 0 .. MaxLocalPlayers - 1
UniqueIds    == Guids \cup {StableId}

\* FUserOnlineAccountPython, of which only UserAttributes changes; the id itself is
\* one of them from the start (USER_ATTR_ID).
Account == [attributes : SUBSET (Attributes \cup {"id"})]

NewAccount == [attributes |-> {"id"}]

ASSUME NoneAssumption == None \notin UniqueIds \cup Account
ASSUME IdAssumption   == StableId \notin Guids

VARIABLES
  stable,       \* does this process give out the stable id?
  userIds,      \* UserIds: local player -> id, None if not in the map
  userAccounts, \* UserAccounts: id -> account, None if not in the map
  notified,     \* the completion the last call broadcast
  asserted,     \* did check(TempPtr) fail?
  shared        \* history: ids that two local players have had at the same time

maps == <<userIds, userAccounts>>
vars == <<stable, maps, notified, asserted, shared>>

Notifications == [event : {"Login", "Logout"}, user : Int, ok : BOOLEAN]

TypeOK ==
  /\ stable \in BOOLEAN
  /\ userIds \in [LocalPlayers -> UniqueIds \cup {None}]
  /\ userAccounts \in [UniqueIds -> Account \cup {None}]
  /\ notified \in Notifications \cup {None}
  /\ asserted \in BOOLEAN
  /\ shared \subseteq UniqueIds

\* GenerateRandomUserId: a random id is one that nobody has had so far, of which the
\* model keeps that nobody has it.
GeneratedIds(ids, accounts) ==
  IF stable THEN {StableId}
  ELSE {g \in Guids : accounts[g] = None /\ \A u \in LocalPlayers : ids[u] # g}

NoIds      == [u \in LocalPlayers |-> None]
NoAccounts == [id \in UniqueIds |-> None]

\* The constructor logs player 0 in.
Init ==
  /\ stable \in BOOLEAN
  /\ \E id \in GeneratedIds(NoIds, NoAccounts) :
       /\ userIds = [NoIds EXCEPT ![0] = id]
       /\ userAccounts = [NoAccounts EXCEPT ![id] = NewAccount]
  /\ notified = None
  /\ asserted = FALSE
  /\ shared = {}

Trigger(event, u, ok) == notified' = [event |-> event, user |-> u, ok |-> ok]

-----------------------------------------------------------------------------
\* A number that is no local player's, or credentials without an id.
LoginRefused(u, emptyId) ==
  /\ u \notin LocalPlayers \/ emptyId
  /\ Trigger("Login", u, FALSE)
  /\ UNCHANGED <<userIds, userAccounts, asserted>>

\* A player without an id gets one, with a new account; an account that the id
\* already has is replaced.
LoginNew(u) ==
  /\ u \in LocalPlayers /\ userIds[u] = None
  /\ \E id \in GeneratedIds(userIds, userAccounts) :
       /\ userAccounts' = [userAccounts EXCEPT ![id] = NewAccount]
       /\ userIds' = [userIds EXCEPT ![u] = id]
  /\ Trigger("Login", u, TRUE)
  /\ UNCHANGED asserted

\* A player with an id gets the account of that id, which has to exist.
LoginAgain(u) ==
  /\ u \in LocalPlayers /\ userIds[u] # None
  /\ IF userAccounts[userIds[u]] = None
     THEN asserted' = TRUE /\ notified' = None
     ELSE Trigger("Login", u, TRUE) /\ UNCHANGED asserted
  /\ UNCHANGED <<userIds, userAccounts>>

Login(u, emptyId) ==
  LoginRefused(u, emptyId) \/ (~emptyId /\ (LoginNew(u) \/ LoginAgain(u)))

GetUniquePlayerId(u) == IF u \in LocalPlayers THEN userIds[u] ELSE None

\* Mutant: the account of the player stays.
LogoutKeepsAccount(u) ==
  LET id == GetUniquePlayerId(u)
  IN  /\ Trigger("Logout", u, id # None)
      /\ userIds' = IF id # None THEN [userIds EXCEPT ![u] = None] ELSE userIds
      /\ UNCHANGED <<userAccounts, asserted>>

\* Mutant: the player keeps its id.
LogoutKeepsId(u) ==
  LET id == GetUniquePlayerId(u)
  IN  /\ Trigger("Logout", u, id # None)
      /\ userAccounts' = IF id # None THEN [userAccounts EXCEPT ![id] = None] ELSE userAccounts
      /\ UNCHANGED <<userIds, asserted>>

\* Mutant: the account removed is that of the first local player.
LogoutFirst(u) ==
  LET id == GetUniquePlayerId(0)
  IN  /\ Trigger("Logout", u, id # None)
      /\ userAccounts' = IF id # None THEN [userAccounts EXCEPT ![id] = None] ELSE userAccounts
      /\ userIds' = IF u \in LocalPlayers THEN [userIds EXCEPT ![u] = None] ELSE userIds
      /\ UNCHANGED asserted

Logout(u) ==
  LET id == GetUniquePlayerId(u)
  IN  /\ Trigger("Logout", u, id # None)
      /\ userAccounts' = IF id # None THEN [userAccounts EXCEPT ![id] = None] ELSE userAccounts
      /\ userIds' = IF id # None THEN [userIds EXCEPT ![u] = None] ELSE userIds
      /\ UNCHANGED asserted

SetUserAttribute(u, a) ==
  LET id == GetUniquePlayerId(u)
  IN  /\ id # None /\ userAccounts[id] # None
      /\ userAccounts' = [userAccounts EXCEPT ![id].attributes = @ \cup {a}]
      /\ notified' = None
      /\ UNCHANGED <<userIds, asserted>>

\* The numbers the game tries: the local players and the two next to them.
Numbers == -1 .. MaxLocalPlayers

\* Ids that two local players have.
Common(ids) ==
  {id \in UniqueIds : \E u, v \in LocalPlayers : u # v /\ ids[u] = id /\ ids[v] = id}

Next ==
  /\ ~asserted
  /\ UNCHANGED stable
  /\ \E u \in Numbers :
       \/ \E emptyId \in BOOLEAN : Login(u, emptyId)
       \/ Logout(u)
       \/ \E a \in Attributes : SetUserAttribute(u, a)
  /\ shared' = shared \cup Common(userIds')

Spec == Init /\ [][Next]_vars

-----------------------------------------------------------------------------
(* Queries *)

LoggedIn(id) == id # None /\ userAccounts[id] # None

\* GetPlatformUserIdFromUniqueNetId: the first local player with this id, or -1.
PlatformUserId(id) ==
  IF \E u \in LocalPlayers : userIds[u] = id
  THEN CHOOSE u \in LocalPlayers :
         userIds[u] = id /\ \A v \in LocalPlayers : userIds[v] = id => u <= v
  ELSE -1

-----------------------------------------------------------------------------
(* Properties *)

\* The two maps agree: no account is left of a player that logged out, and a player
\* that has an id is logged in and found by that id - over any sequence of logins,
\* repeated logins and logouts of several players.  Of an id that two local players
\* have had at once, which takes stable ids, only the first is said: the logout of
\* either removes the account of both.
MapsAgree ==
  /\ \A id \in UniqueIds :
       userAccounts[id] # None => \E u \in LocalPlayers : userIds[u] = id
  /\ \A u \in LocalPlayers :
       userIds[u] # None /\ userIds[u] \notin shared
         => LoggedIn(userIds[u]) /\ PlatformUserId(userIds[u]) = u

\* check(TempPtr): a player that has an id has an account.  It fails only in a process
\* with the stable id, and only after two local players were logged in at once.
AccountFound == asserted => stable /\ shared # {}

\* A login or logout of one player leaves the account of another alone, unless two
\* players have the same id.
PlayersIndependent ==
  [][\A u \in LocalPlayers :
       notified' # None /\ notified'.user # u /\ userIds[u] # None /\ userIds[u] \notin shared'
         => userAccounts'[userIds[u]] = userAccounts[userIds[u]]]_vars
=============================================================================
