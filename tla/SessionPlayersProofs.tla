------------------------ MODULE SessionPlayersProofs ------------------------
(***************************************************************************)
(* The local players, the connections and the voice, each by itself and    *)
(* all three at work in one session, for any number of players and         *)
(* connections.                                                            *)
(***************************************************************************)
EXTENDS SessionPlayers, FiniteSetTheorems, TLAPS

-----------------------------------------------------------------------------
(* The identity interface by itself *)

\* No two players have the same id, unless it is one that players share.
Distinct ==
  \A u, v \in LocalPlayers :
    userIds[u] # None /\ userIds[u] \notin shared /\ userIds[u] = userIds[v] => u = v

\* The ids of the players that share none are ids with an account, and there are no
\* other accounts than those of players.
Linked ==
  /\ \A u \in LocalPlayers :
       userIds[u] # None /\ userIds[u] \notin shared => userAccounts[userIds[u]] # None
  /\ \A id \in UniqueIds :
       userAccounts[id] # None => \E u \in LocalPlayers : userIds[u] = id

\* Random ids are nobody else's.
RandomUnshared ==
  ~stable => /\ shared = {}
             /\ \A u, v \in LocalPlayers : userIds[u] # None /\ userIds[u] = userIds[v] => u = v

Inv == TypeOK /\ Distinct /\ Linked /\ RandomUnshared /\ AccountFound

\* What every step does with the ids that players share.
Shares == stable' = stable /\ shared' = shared \cup Common(userIds')

\* GetPlatformUserIdFromUniqueNetId finds the only player with an id.
LEMMA FirstPlayer ==
  ASSUME Distinct, NEW u \in LocalPlayers, userIds[u] # None, userIds[u] \notin shared
  PROVE  PlatformUserId(userIds[u]) = u
<1>1. LocalPlayers \subseteq Int
  BY PlayersAssumption DEF LocalPlayers
<1>2. \A v \in LocalPlayers : userIds[v] = userIds[u] => v = u
  BY DEF Distinct
<1>3. userIds[u] = userIds[u] /\ \A v \in LocalPlayers : userIds[v] = userIds[u] => u <= v
  BY <1>1, <1>2
<1> QED
  BY <1>2, <1>3 DEF PlatformUserId

\* What is to be shown of the two maps follows from the invariant.
LEMMA InvMapsAgree == Inv => MapsAgree
<1> SUFFICES ASSUME Inv PROVE MapsAgree
  OBVIOUS
<1>1. ASSUME NEW u \in LocalPlayers, userIds[u] # None, userIds[u] \notin shared
      PROVE  LoggedIn(userIds[u]) /\ PlatformUserId(userIds[u]) = u
  BY <1>1, FirstPlayer DEF Inv, Linked, LoggedIn
<1> QED
  BY <1>1 DEF MapsAgree, Inv, Linked

\* The constructor logs one player in.
LEMMA InitInv == Init => Inv
<1> SUFFICES ASSUME Init PROVE Inv
  OBVIOUS
<1>1. PICK id \in UniqueIds : /\ userIds = [NoIds EXCEPT ![0] = id]
                              /\ userAccounts = [NoAccounts EXCEPT ![id] = NewAccount]
  BY DEF Init, GeneratedIds, UniqueIds
<1>2. 0 \in LocalPlayers
  BY PlayersAssumption DEF LocalPlayers
<1>3. id # None /\ NewAccount \in Account /\ NewAccount # None
  BY NoneAssumption DEF Account, NewAccount
<1>4. /\ userIds[0] = id
      /\ \A u \in LocalPlayers : u # 0 => userIds[u] = None
  BY <1>1, <1>2 DEF NoIds
<1>5. /\ userAccounts[id] = NewAccount
      /\ \A k \in UniqueIds : k # id => userAccounts[k] = None
  BY <1>1, <1>3 DEF NoAccounts
<1>6. TypeOK
  BY <1>1, <1>3 DEF Init, TypeOK, NoIds, NoAccounts
<1>7. Distinct /\ RandomUnshared
  BY <1>4 DEF Init, Distinct, RandomUnshared
<1>8. Linked
  BY <1>2, <1>3, <1>4, <1>5 DEF Linked
<1> QED
  BY <1>6, <1>7, <1>8 DEF Inv, AccountFound, Init

\* A new player gets its id with a new account: a random id is one that nobody has,
\* the stable id may be one that others have.
LEMMA LoginNewInv ==
  ASSUME Inv, NEW u, LoginNew(u), Shares
  PROVE  Inv'
<1>1. u \in LocalPlayers /\ userIds[u] = None
  BY DEF LoginNew
<1>2. PICK id \in UniqueIds : /\ ~stable => \A v \in LocalPlayers : userIds[v] # id
                              /\ userAccounts' = [userAccounts EXCEPT ![id] = NewAccount]
                              /\ userIds' = [userIds EXCEPT ![u] = id]
  BY DEF LoginNew, GeneratedIds, UniqueIds
<1>3. id # None /\ NewAccount \in Account /\ NewAccount # None
  BY NoneAssumption DEF Account, NewAccount
<1>4. /\ userIds'[u] = id
      /\ \A v \in LocalPlayers : v # u => userIds'[v] = userIds[v]
  BY <1>1, <1>2 DEF Inv, TypeOK
<1>5. /\ userAccounts'[id] = NewAccount
      /\ \A k \in UniqueIds : k # id => userAccounts'[k] = userAccounts[k]
  BY <1>2, <1>3 DEF Inv, TypeOK
<1>6. notified' \in Notifications
  BY <1>1, PlayersAssumption DEF LoginNew, Trigger, Notifications, LocalPlayers
<1>7. TypeOK'
  BY <1>2, <1>3, <1>6 DEF Inv, TypeOK, LoginNew, Shares, Common
<1>8. shared \subseteq shared' /\ \A v \in LocalPlayers : v # u /\ userIds[v] = id => id \in shared'
  BY <1>1, <1>4 DEF Shares, Common
<1>9. Distinct'
  BY <1>4, <1>8 DEF Inv, Distinct
<1>10. Linked'
  <2>1. ASSUME NEW v \in LocalPlayers, userIds'[v] # None, userIds'[v] \notin shared'
        PROVE  userAccounts'[userIds'[v]] # None
    <3>1. CASE v = u
      BY <3>1, <1>3, <1>4, <1>5
    <3>2. CASE v # u
      <4>1. userIds'[v] = userIds[v] /\ userIds[v] # id /\ userIds[v] \in UniqueIds
        BY <2>1, <3>2, <1>4, <1>8 DEF Inv, TypeOK
      <4> QED
        BY <2>1, <4>1, <1>5, <1>8 DEF Inv, Linked
    <3> QED
      BY <3>1, <3>2
  <2>2. ASSUME NEW k \in UniqueIds, userAccounts'[k] # None
        PROVE  \E v \in LocalPlayers : userIds'[v] = k
    <3>1. CASE k = id
      BY <3>1, <1>1, <1>4
    <3>2. CASE k # id
      <4>1. PICK v \in LocalPlayers : userIds[v] = k
        BY <2>2, <3>2, <1>5 DEF Inv, Linked
      <4>2. v # u
        BY <4>1, <1>1, NoneAssumption
      <4> QED
        BY <4>1, <4>2, <1>4
    <3> QED
      BY <3>1, <3>2
  <2> QED
    BY <2>1, <2>2 DEF Linked
<1>11. RandomUnshared'
  <2> SUFFICES ASSUME ~stable' PROVE RandomUnshared'
    BY DEF RandomUnshared
  <2>1. shared = {} /\ \A v, w \in LocalPlayers : userIds[v] # None /\ userIds[v] = userIds[w] => v = w
    BY DEF Inv, RandomUnshared, Shares
  <2>2. \A v \in LocalPlayers : userIds[v] # id
    BY <1>2 DEF Shares
  <2>3. \A v, w \in LocalPlayers : userIds'[v] # None /\ userIds'[v] = userIds'[w] => v = w
    BY <1>4, <2>1, <2>2
  <2>4. Common(userIds') = {}
    BY <2>3, NoneAssumption DEF Common
  <2> QED
    BY <2>1, <2>3, <2>4 DEF Shares, RandomUnshared
<1>12. AccountFound'
  BY <1>8 DEF Inv, AccountFound, LoginNew, Shares
<1> QED
  BY <1>7, <1>9, <1>10, <1>11, <1>12 DEF Inv

\* As long as the ids of the players stay as they are, only new sharing could disturb
\* anything, and there is none; check(TempPtr) apart.
LEMMA SameMapsInv ==
  ASSUME Inv, Shares, UNCHANGED maps, notified' \in Notifications \cup {None},
         asserted' \in BOOLEAN, AccountFound'
  PROVE  Inv'
<1>0. UNCHANGED <<userIds, userAccounts>> /\ stable' = stable
  BY DEF maps, Shares
<1>1. shared' = shared \cup Common(userIds)
  BY <1>0 DEF Shares, Common
<1>2. TypeOK'
  BY <1>0, <1>1 DEF Inv, TypeOK, Common
<1>3. Distinct' /\ Linked'
  BY <1>0, <1>1 DEF Inv, Distinct, Linked
<1>4. RandomUnshared'
  <2>1. ~stable => Common(userIds) = {}
    BY NoneAssumption DEF Inv, RandomUnshared, Common
  <2> QED BY <1>0, <1>1, <2>1 DEF Inv, RandomUnshared
<1> QED BY <1>2, <1>3, <1>4 DEF Inv

\* A player that has an id has an account, unless it shares the id.
LEMMA LoginAgainInv ==
  ASSUME Inv, NEW u, LoginAgain(u), Shares
  PROVE  Inv'
<1>1. u \in LocalPlayers /\ userIds[u] # None
  BY DEF LoginAgain
<1>2. UNCHANGED maps /\ shared \subseteq shared' /\ stable' = stable
  BY DEF LoginAgain, maps, Shares
<1>3. CASE userAccounts[userIds[u]] = None
  <2>1. userIds[u] \in shared /\ stable
    BY <1>1, <1>3 DEF Inv, Linked, RandomUnshared
  <2>2. asserted' = TRUE /\ notified' = None
    BY <1>3 DEF LoginAgain
  <2>3. AccountFound'
    BY <1>2, <2>1 DEF AccountFound
  <2> QED
    BY <1>2, <2>2, <2>3, SameMapsInv
<1>4. CASE userAccounts[userIds[u]] # None
  <2>1. Trigger("Login", u, TRUE) /\ asserted' = asserted
    BY <1>4 DEF LoginAgain
  <2>2. notified' \in Notifications
    BY <1>1, <2>1, PlayersAssumption DEF Trigger, Notifications, LocalPlayers
  <2>3. AccountFound' /\ asserted' \in BOOLEAN
    BY <1>2, <2>1 DEF Inv, AccountFound, TypeOK
  <2> QED
    BY <1>2, <2>2, <2>3, SameMapsInv
<1> QED
  BY <1>3, <1>4

\* An id and its account go together.
LEMMA LogoutInv ==
  ASSUME Inv, NEW u \in Int, Logout(u), Shares
  PROVE  Inv'
<1>1. notified' \in Notifications /\ asserted' = asserted
  BY DEF Logout, Trigger, Notifications
<1>2. stable' = stable /\ shared \subseteq shared'
  BY DEF Shares
<1>3. AccountFound' /\ asserted' \in BOOLEAN
  BY <1>1, <1>2 DEF Inv, AccountFound, TypeOK
<1>4. CASE GetUniquePlayerId(u) = None
  <2>1. UNCHANGED maps
    BY <1>4 DEF Logout, maps
  <2> QED
    BY <1>1, <1>3, <2>1, SameMapsInv
<1>5. CASE GetUniquePlayerId(u) # None
  <2> DEFINE id == userIds[u]
  <2>1. u \in LocalPlayers /\ id \in UniqueIds /\ id # None
    BY <1>5 DEF GetUniquePlayerId, Inv, TypeOK
  <2>2. /\ userAccounts' = [userAccounts EXCEPT ![id] = None]
        /\ userIds' = [userIds EXCEPT ![u] = None]
    BY <1>5, <2>1 DEF Logout, GetUniquePlayerId
  <2>3. /\ userIds'[u] = None
        /\ \A v \in LocalPlayers : v # u => userIds'[v] = userIds[v]
    BY <2>1, <2>2 DEF Inv, TypeOK
  <2>4. /\ userAccounts'[id] = None
        /\ \A k \in UniqueIds : k # id => userAccounts'[k] = userAccounts[k]
    BY <2>1, <2>2 DEF Inv, TypeOK
  <2>5. id \notin shared => \A v \in LocalPlayers : userIds[v] = id => v = u
    BY <2>1 DEF Inv, Distinct
  <2>6. TypeOK'
    BY <1>1, <2>2 DEF Inv, TypeOK, Shares, Common
  <2>7. Distinct'
    BY <1>2, <2>3 DEF Inv, Distinct
  <2>8. Linked'
    <3>1. ASSUME NEW v \in LocalPlayers, userIds'[v] # None, userIds'[v] \notin shared'
          PROVE  userAccounts'[userIds'[v]] # None
      <4>1. v # u /\ userIds'[v] = userIds[v] /\ userIds[v] \notin shared
        BY <3>1, <1>2, <2>3
      <4>2. userIds[v] # id
        BY <4>1, <2>5
      <4>3. userIds[v] \in UniqueIds
        BY <3>1, <4>1 DEF Inv, TypeOK
      <4> QED
        BY <3>1, <4>1, <4>2, <4>3, <2>4 DEF Inv, Linked
    <3>2. ASSUME NEW k \in UniqueIds, userAccounts'[k] # None
          PROVE  \E v \in LocalPlayers : userIds'[v] = k
      <4>1. k # id /\ userAccounts[k] # None
        BY <3>2, <2>4
      <4>2. PICK v \in LocalPlayers : userIds[v] = k
        BY <4>1 DEF Inv, Linked
      <4> QED
        BY <4>1, <4>2, <2>3
    <3> QED
      BY <3>1, <3>2 DEF Linked
  <2>9. RandomUnshared'
    <3> SUFFICES ASSUME ~stable' PROVE RandomUnshared'
      BY DEF RandomUnshared
    <3>1. shared = {} /\ \A v, w \in LocalPlayers : userIds[v] # None /\ userIds[v] = userIds[w] => v = w
      BY <1>2 DEF Inv, RandomUnshared
    <3>2. \A v, w \in LocalPlayers : userIds'[v] # None /\ userIds'[v] = userIds'[w] => v = w
      BY <2>3, <3>1
    <3>3. Common(userIds') = {}
      BY <3>2, NoneAssumption DEF Common
    <3> QED
      BY <3>1, <3>2, <3>3 DEF Shares, RandomUnshared
  <2> QED
    BY <1>3, <2>6, <2>7, <2>8, <2>9 DEF Inv
<1> QED
  BY <1>4, <1>5

\* An attribute is added to an account that exists.
LEMMA SetUserAttributeInv ==
  ASSUME Inv, NEW u, NEW a \in Attributes, SetUserAttribute(u, a), Shares
  PROVE  Inv'
<1> DEFINE id == userIds[u]
<1>1. u \in LocalPlayers /\ id # None /\ id \in UniqueIds /\ userAccounts[id] # None
  BY DEF SetUserAttribute, GetUniquePlayerId, Inv, TypeOK
<1>2. userAccounts[id] \in Account
  BY <1>1 DEF Inv, TypeOK
<1>3. PICK account \in Account :
         userAccounts' = [userAccounts EXCEPT ![id] = account]
  <2> DEFINE account == [userAccounts[id] EXCEPT !.attributes = @ \cup {a}]
  <2>1. account \in Account
    BY <1>2 DEF Account
  <2>2. userAccounts' = [userAccounts EXCEPT ![id] = account]
    BY <1>1 DEF SetUserAttribute, GetUniquePlayerId
  <2> QED
    BY <2>1, <2>2
<1>4. account # None
  BY NoneAssumption
<1>5. /\ userAccounts'[id] = account
      /\ \A k \in UniqueIds : k # id => userAccounts'[k] = userAccounts[k]
  BY <1>1, <1>3 DEF Inv, TypeOK
<1>6. notified' = None /\ UNCHANGED <<userIds, asserted>>
  BY DEF SetUserAttribute
<1>7. stable' = stable /\ shared' = shared \cup Common(userIds)
  BY <1>6 DEF Shares, Common
<1>8. TypeOK'
  BY <1>1, <1>3, <1>6, <1>7 DEF Inv, TypeOK, Common
<1>9. Linked'
  BY <1>1, <1>4, <1>5, <1>6, <1>7 DEF Inv, TypeOK, Linked
<1>10. RandomUnshared'
  <2>1. ~stable => Common(userIds) = {}
    BY NoneAssumption DEF Inv, RandomUnshared, Common
  <2> QED BY <1>6, <1>7, <2>1 DEF Inv, RandomUnshared
<1> QED
  BY <1>6, <1>7, <1>8, <1>9, <1>10 DEF Inv, Distinct, AccountFound

\* Every step keeps the invariant.
LEMMA NextInv == Inv /\ [Next]_vars => Inv'
<1> SUFFICES ASSUME Inv, [Next]_vars PROVE Inv'
  OBVIOUS
<1>1. CASE UNCHANGED vars
  BY <1>1 DEF vars, maps, Inv, TypeOK, Distinct, Linked, RandomUnshared, AccountFound
<1>2. CASE Next
  <2>1. PICK u \in Numbers : \/ \E emptyId \in BOOLEAN : Login(u, emptyId)
                             \/ Logout(u)
                             \/ \E a \in Attributes : SetUserAttribute(u, a)
    BY <1>2 DEF Next
  <2>2. u \in Int
    BY PlayersAssumption DEF Numbers
  <2>3. Shares
    BY <1>2 DEF Next, Shares
  <2>4. ASSUME NEW emptyId \in BOOLEAN, LoginRefused(u, emptyId) PROVE Inv'
    <3>1. notified' \in Notifications /\ UNCHANGED maps /\ asserted' = asserted
      BY <2>2, <2>4 DEF LoginRefused, Trigger, Notifications, maps
    <3>2. AccountFound' /\ asserted' \in BOOLEAN
      BY <2>3, <3>1 DEF Inv, AccountFound, TypeOK, Shares
    <3> QED
      BY <2>3, <3>1, <3>2, SameMapsInv
  <2>5. CASE LoginNew(u)
    BY <2>3, <2>5, LoginNewInv
  <2>6. CASE LoginAgain(u)
    BY <2>3, <2>6, LoginAgainInv
  <2>7. CASE Logout(u)
    BY <2>2, <2>3, <2>7, LogoutInv
  <2>8. ASSUME NEW a \in Attributes, SetUserAttribute(u, a) PROVE Inv'
    BY <2>3, <2>8, SetUserAttributeInv
  <2> QED
    BY <2>1, <2>4, <2>5, <2>6, <2>7, <2>8 DEF Login
<1> QED
  BY <1>1, <1>2

\* The invariant holds in every reachable state, with stable and with random ids.
THEOREM Invariance == Spec => []Inv
<1> QED
  BY InitInv, NextInv, PTL DEF Spec

\* UserIds and UserAccounts map local players to ids and ids to accounts.
THEOREM TypeCorrect == Spec => []TypeOK
<1>1. Inv => TypeOK
  BY DEF Inv
<1> QED
  BY Invariance, <1>1, PTL

\* The two maps of FOnlineIdentityPython agree, however many players log in and out, as
\* far as players do not share an id.
THEOREM MapsAlwaysAgree == Spec => []MapsAgree
<1> QED
  BY Invariance, InvMapsAgree, PTL

\* check(TempPtr) in Login fails only with the stable id, after two players shared it.
THEOREM AccountAlwaysFound == Spec => []AccountFound
<1>1. Inv => AccountFound
  BY DEF Inv
<1> QED
  BY Invariance, <1>1, PTL

\* What a step of one player may not do to another.
Independent ==
  \A u \in LocalPlayers :
    notified' # None /\ notified'.user # u /\ userIds[u] # None /\ userIds[u] \notin shared'
      => userAccounts'[userIds[u]] = userAccounts[userIds[u]]

\* A player that shares its id with nobody has an account that no step of another reaches.
LEMMA IndependentStep == Inv /\ Next => Independent
<1> SUFFICES ASSUME Inv, Next,
                    NEW u \in LocalPlayers,
                    notified' # None, notified'.user # u, userIds[u] # None,
                    userIds[u] \notin shared'
             PROVE  userAccounts'[userIds[u]] = userAccounts[userIds[u]]
  BY DEF Independent
<1>1. userIds[u] \in UniqueIds /\ userIds[u] \notin shared
  BY DEF Inv, TypeOK, Next
<1>2. PICK w \in Numbers : \/ \E emptyId \in BOOLEAN : Login(w, emptyId)
                           \/ Logout(w)
                           \/ \E a \in Attributes : SetUserAttribute(w, a)
  BY DEF Next
<1>3. ASSUME NEW emptyId \in BOOLEAN, LoginRefused(w, emptyId) \/ LoginAgain(w)
      PROVE  userAccounts' = userAccounts
  BY <1>3 DEF LoginRefused, LoginAgain
<1>4. CASE LoginNew(w)
  <2>1. PICK id \in UniqueIds : /\ userIds' = [userIds EXCEPT ![w] = id]
                                /\ userAccounts' = [userAccounts EXCEPT ![id] = NewAccount]
    BY <1>4 DEF LoginNew, GeneratedIds, UniqueIds
  <2>2. w \in LocalPlayers /\ w # u
    BY <1>4 DEF LoginNew, Trigger
  <2>3. userIds'[w] = id /\ userIds'[u] = userIds[u]
    BY <2>1, <2>2 DEF Inv, TypeOK
  <2>4. Common(userIds') \subseteq shared'
    BY DEF Next
  <2>5. userIds[u] # id
    BY <1>1, <2>2, <2>3, <2>4 DEF Common
  <2> QED
    BY <1>1, <2>1, <2>5 DEF Inv, TypeOK
<1>5. CASE Logout(w)
  <2>1. CASE GetUniquePlayerId(w) = None
    BY <1>5, <2>1 DEF Logout
  <2>2. CASE GetUniquePlayerId(w) # None
    <3>1. w \in LocalPlayers /\ userIds[w] # None
      BY <2>2 DEF GetUniquePlayerId
    <3>2. /\ userAccounts' = [userAccounts EXCEPT ![userIds[w]] = None]
          /\ notified'.user = w
      BY <1>5, <2>2, <3>1 DEF Logout, Trigger, GetUniquePlayerId
    <3>3. userIds[u] # userIds[w]
      BY <1>1, <3>1, <3>2 DEF Inv, Distinct
    <3> QED
      BY <1>1, <3>2, <3>3 DEF Inv, TypeOK
  <2> QED
    BY <2>1, <2>2
<1>6. ASSUME NEW a \in Attributes, SetUserAttribute(w, a)
      PROVE  FALSE
  BY <1>6 DEF SetUserAttribute
<1> QED
  BY <1>2, <1>3, <1>4, <1>5, <1>6 DEF Login

\* One player's login gives it an account and its logout removes its own: those of the
\* other local players, unless they have the same id, stay as they are.
THEOREM PlayersAlwaysIndependent == Spec => PlayersIndependent
<1>1. Inv /\ [Next]_vars => [Independent]_vars
  BY IndependentStep
<1> QED
  BY Invariance, <1>1, PTL DEF Spec, PlayersIndependent, Independent

-----------------------------------------------------------------------------
(* The connections by themselves *)

\* A player that registers makes the finite set of registered players one larger, a
\* player that unregisters makes it one smaller; nobody is registered at first.
LEMMA RegisteredCount ==
  ASSUME IsFiniteSet(registered)
  PROVE  /\ Cardinality(registered) \in Nat
         /\ \A p \in Players : p \notin registered =>
              /\ IsFiniteSet(registered \cup {p})
              /\ Cardinality(registered \cup {p}) = Cardinality(registered) + 1
         /\ \A p \in registered :
              /\ IsFiniteSet(registered \ {p})
              /\ Cardinality(registered \ {p}) = Cardinality(registered) - 1
              /\ Cardinality(registered) > 0
<1>1. Cardinality(registered) \in Nat
  BY FS_CardinalityType
<1>2. ASSUME NEW p \in Players, p \notin registered
      PROVE  /\ IsFiniteSet(registered \cup {p})
             /\ Cardinality(registered \cup {p}) = Cardinality(registered) + 1
  BY <1>2, FS_AddElement
<1>3. ASSUME NEW p \in registered
      PROVE  /\ IsFiniteSet(registered \ {p})
             /\ Cardinality(registered \ {p}) = Cardinality(registered) - 1
             /\ Cardinality(registered) > 0
  <2>1. /\ IsFiniteSet(registered \ {p})
        /\ Cardinality(registered \ {p}) = Cardinality(registered) - 1
    BY FS_RemoveElement
  <2>2. Cardinality(registered \ {p}) \in Nat
    BY <2>1, FS_CardinalityType
  <2> QED
    BY <1>1, <2>1, <2>2
<1> QED
  BY <1>1, <1>2, <1>3

\* What every step has to preserve: the open connections can only be exact if the
\* numbers they are counted against are numbers.
SlotsInv == SlotsTypeOK /\ SlotsExact

\* A session starts empty with all its connections open.
LEMMA SlotsInitInv == SlotsInit => SlotsInv
<1> SUFFICES ASSUME SlotsInit PROVE SlotsInv
  OBVIOUS
<1>1. IsFiniteSet({}) /\ Cardinality({}) = 0
  BY FS_EmptySet
<1>2. numPublic \in Nat /\ numPrivate \in Nat
  BY MaxSlotsAssumption DEF SlotsInit, Slots
<1>3. SlotsTypeOK
  BY <1>1 DEF SlotsInit, SlotsTypeOK
<1>4. SlotsExact
  BY <1>1, <1>2 DEF SlotsInit, SlotsExact, Taken
<1> QED
  BY <1>3, <1>4 DEF SlotsInv

\* RegisterPlayers, one player: a connection of either kind is taken, or the session
\* is overbooked from now on.
LEMMA RegisterInv ==
  ASSUME SlotsInv, NEW p \in Players, Register(p)
  PROVE  SlotsInv'
<1> USE MaxSlotsAssumption DEF Slots
<1>1. /\ Cardinality(registered) \in Nat
      /\ IsFiniteSet(registered')
      /\ Cardinality(registered') = Cardinality(registered) + 1
  BY RegisteredCount DEF SlotsInv, SlotsTypeOK, Register
<1>2. SlotsTypeOK'
  <2>1. openPublic' \in Slots /\ openPrivate' \in Slots
    BY DEF SlotsInv, SlotsTypeOK, Register
  <2>2. overbooked' \in BOOLEAN
    BY DEF SlotsInv, SlotsTypeOK, Register
  <2> QED
    BY <1>1, <2>1, <2>2 DEF SlotsInv, SlotsTypeOK, Register
<1>3. SlotsExact'
  BY <1>1 DEF SlotsInv, SlotsTypeOK, SlotsExact, Taken, Register
<1> QED
  BY <1>2, <1>3 DEF SlotsInv

\* UnregisterPlayers, one player: if no connection of either kind is taken although a
\* player was registered, the session has been overbooked before.
LEMMA UnregisterInv ==
  ASSUME SlotsInv, NEW p \in Players, Unregister(p)
  PROVE  SlotsInv'
<1> USE MaxSlotsAssumption DEF Slots
<1>1. /\ Cardinality(registered) \in Nat
      /\ Cardinality(registered) > 0
      /\ IsFiniteSet(registered')
      /\ Cardinality(registered') = Cardinality(registered) - 1
  BY RegisteredCount DEF SlotsInv, SlotsTypeOK, Unregister
<1>2. SlotsTypeOK'
  BY <1>1 DEF SlotsInv, SlotsTypeOK, Unregister
<1>3. SlotsExact'
  BY <1>1 DEF SlotsInv, SlotsTypeOK, SlotsExact, Taken, Unregister
<1> QED
  BY <1>2, <1>3 DEF SlotsInv

\* UpdateSession: either the numbers stay or the session counts as resized.
LEMMA UpdateInv ==
  ASSUME SlotsInv, UpdateSession
  PROVE  SlotsInv'
<1>1. SlotsTypeOK'
  BY DEF SlotsInv, SlotsTypeOK, UpdateSession
<1>2. SlotsExact'
  <2>1. CASE resized'
    BY <2>1 DEF SlotsExact
  <2>2. CASE ~resized'
    <3>1. ~resized /\ numPublic' = numPublic /\ numPrivate' = numPrivate
      BY <2>2 DEF UpdateSession
    <3> QED
      BY <3>1 DEF SlotsInv, SlotsExact, Taken, UpdateSession
  <2> QED
    BY <2>1, <2>2
<1> QED
  BY <1>1, <1>2 DEF SlotsInv

\* Every step keeps the invariant.
LEMMA SlotsNextInv == SlotsInv /\ [SlotsNext]_slotvars => SlotsInv'
<1> SUFFICES ASSUME SlotsInv, [SlotsNext]_slotvars PROVE SlotsInv'
  OBVIOUS
<1>1. ASSUME NEW p \in Players, Register(p) PROVE SlotsInv'
  BY <1>1, RegisterInv
<1>2. ASSUME NEW p \in Players, Unregister(p) PROVE SlotsInv'
  BY <1>2, UnregisterInv
<1>3. CASE UpdateSession
  BY <1>3, UpdateInv
<1>4. CASE UNCHANGED slotvars
  BY <1>4 DEF slotvars, SlotsInv, SlotsTypeOK, SlotsExact, Taken
<1> QED
  BY <1>1, <1>2, <1>3, <1>4 DEF SlotsNext

\* The invariant holds in every reachable state.
THEOREM SlotsInvariance == SlotsSpec => []SlotsInv
<1> QED
  BY SlotsInitInv, SlotsNextInv, PTL DEF SlotsSpec

\* RegisteredPlayers and the connection counts stay within their types, in particular
\* no count of open connections goes below zero or above what any session can have.
THEOREM SlotsTypeCorrect == SlotsSpec => []SlotsTypeOK
<1>1. SlotsInv => SlotsTypeOK
  BY DEF SlotsInv
<1> QED
  BY SlotsInvariance, <1>1, PTL

\* RegisterPlayers and UnregisterPlayers keep the open connections exact, over any
\* sequence of players joining and leaving, until a session is overbooked or resized.
THEOREM SlotsAlwaysExact == SlotsSpec => []SlotsExact
<1>1. SlotsInv => SlotsExact
  BY DEF SlotsInv
<1> QED
  BY SlotsInvariance, <1>1, PTL

-----------------------------------------------------------------------------
(* The voice, whatever the ids of the players are made of *)

\* Before the voice interface has been asked for, nobody has registered.
Silent == voice = "unused" => registered = {} /\ remoteTalkers = {}

TalkInv == Silent /\ TalkersMatch

\* At first nobody talks.
LEMMA InitTalkInv == PlayersInit => TalkInv
  BY DEF PlayersInit, SlotsInit, TalkInv, Silent, TalkersMatch

\* A login or a logout makes a registered player local or remote: what is said of it
\* from then on is nothing.
LEMMA LoginTalkInv ==
  ASSUME TalkInv,
         LET changed == (LocalIds(userIds) \cup LocalIds(userIds'))
                          \ (LocalIds(userIds) \cap LocalIds(userIds'))
         IN  switched' = switched \cup (changed \cap registered),
         UNCHANGED <<slotvars, voice, localTalkers, remoteTalkers>>
  PROVE  TalkInv'
<1>1. registered' = registered
  BY DEF slotvars
<1>2. Silent'
  BY <1>1 DEF TalkInv, Silent
<1>3. TalkersMatch'
  <2> SUFFICES ASSUME voice' = "on", NEW p \in Players, p \notin switched'
               PROVE  p \in remoteTalkers' <=> p \in registered' /\ p \notin LocalIds(userIds')
    BY DEF TalkersMatch, LocalIds
  <2> QED BY <1>1 DEF TalkInv, TalkersMatch
<1> QED BY <1>2, <1>3 DEF TalkInv

\* Registering asks for the voice interface and puts a remote player on the air.
LEMMA RegisterTalkInv ==
  ASSUME TalkInv, NEW p \in Players, RegisterPlayer(p), UNCHANGED userIds
  PROVE  TalkInv'
<1>1. /\ registered' = registered \cup {p} /\ switched' = switched
      /\ GetVoiceInterface
      /\ remoteTalkers' = IF voice' = "on" /\ p \notin LocalIds(userIds)
                          THEN remoteTalkers \cup {p} ELSE remoteTalkers
  BY DEF RegisterPlayer, RegisterVoice, Register, slotvars
<1>2. voice' # "unused" /\ (voice' = "on" => voice \in {"on", "unused"})
  BY <1>1 DEF GetVoiceInterface
<1>3. LocalIds(userIds') = LocalIds(userIds)
  OBVIOUS
<1>4. TalkersMatch'
  <2> SUFFICES ASSUME voice' = "on", NEW q \in Players, q \notin switched
               PROVE  q \in remoteTalkers' <=> q \in registered' /\ q \notin LocalIds(userIds)
    BY <1>1, <1>3 DEF TalkersMatch, LocalIds
  <2>1. q \in remoteTalkers <=> q \in registered /\ q \notin LocalIds(userIds)
    BY <1>2 DEF TalkInv, TalkersMatch, Silent
  <2> QED BY <1>1, <2>1
<1> QED BY <1>2, <1>4 DEF TalkInv, Silent

\* Unregistering takes a remote player off the air.
LEMMA UnregisterTalkInv ==
  ASSUME TalkInv, NEW p \in Players, UnregisterPlayer(p), UNCHANGED userIds
  PROVE  TalkInv'
<1>1. /\ p \in registered /\ registered' = registered \ {p} /\ switched' = switched
      /\ GetVoiceInterface
      /\ remoteTalkers' = IF voice' = "on" /\ p \notin LocalIds(userIds)
                          THEN remoteTalkers \ {p} ELSE remoteTalkers
  BY DEF UnregisterPlayer, UnregisterVoice, Unregister
<1>2. voice' # "unused" /\ (voice' = "on" => voice = "on")
  BY <1>1 DEF GetVoiceInterface, TalkInv, Silent
<1>3. TalkersMatch'
  <2> SUFFICES ASSUME voice' = "on", NEW q \in Players, q \notin switched
               PROVE  q \in remoteTalkers' <=> q \in registered' /\ q \notin LocalIds(userIds)
    BY <1>1 DEF TalkersMatch, LocalIds
  <2>1. q \in remoteTalkers <=> q \in registered /\ q \notin LocalIds(userIds)
    BY <1>2 DEF TalkInv, TalkersMatch
  <2> QED BY <1>1, <2>1
<1> QED BY <1>2, <1>3 DEF TalkInv, Silent

\* Registering the local players, and a new number of connections, leave the remote
\* players alone.
LEMMA OtherTalkInv ==
  ASSUME TalkInv, UNCHANGED <<userIds, registered, remoteTalkers, switched>>,
         GetVoiceInterface \/ UNCHANGED voice
  PROVE  TalkInv'
<1>1. voice' = voice \/ (voice = "unused" /\ voice' # "unused")
  BY DEF GetVoiceInterface
<1>2. TalkersMatch'
  BY <1>1 DEF TalkInv, Silent, TalkersMatch, LocalIds
<1> QED BY <1>1, <1>2 DEF TalkInv, Silent

\* Every step keeps the remote talkers right.
LEMMA NextTalkInv ==
  TalkInv /\ [PlayersNext]_<<vars, slotvars, talkvars>> => TalkInv'
<1> SUFFICES ASSUME TalkInv, [PlayersNext]_<<vars, slotvars, talkvars>> PROVE TalkInv'
  OBVIOUS
<1>1. ASSUME LET changed == (LocalIds(userIds) \cup LocalIds(userIds'))
                              \ (LocalIds(userIds) \cap LocalIds(userIds'))
             IN  switched' = switched \cup (changed \cap registered),
             UNCHANGED <<slotvars, voice, localTalkers, remoteTalkers>>
      PROVE  TalkInv'
  BY <1>1, LoginTalkInv
<1>2. ASSUME NEW p \in Players, RegisterPlayer(p) \/ UnregisterPlayer(p), UNCHANGED userIds
      PROVE  TalkInv'
  BY <1>2, RegisterTalkInv, UnregisterTalkInv
<1>3. CASE RegisterLocalPlayers /\ UNCHANGED userIds
  BY <1>3, OtherTalkInv DEF RegisterLocalPlayers, slotvars
<1>4. CASE UpdateSession /\ UNCHANGED talkvars /\ UNCHANGED userIds
  BY <1>4, OtherTalkInv DEF UpdateSession, talkvars
<1>5. CASE UNCHANGED <<vars, slotvars, talkvars>>
  BY <1>5, OtherTalkInv DEF vars, maps, slotvars, talkvars
<1> QED BY <1>1, <1>2, <1>3, <1>4, <1>5 DEF PlayersNext, maps

\* The remote talkers are the registered players that play elsewhere, for any number
\* of players, local players and connections, and with stable ids as well.
THEOREM TalkersAlwaysMatch == PlayersSpec => []TalkersMatch
<1>1. TalkInv => TalkersMatch
  BY DEF TalkInv
<1> QED BY InitTalkInv, NextTalkInv, <1>1, PTL DEF PlayersSpec

-----------------------------------------------------------------------------
(* The local players and the connections next to each other *)

VoiceTypeOK ==
  /\ voice \in {"unused", "on", "none"}
  /\ localTalkers \subseteq LocalPlayers
  /\ remoteTalkers \subseteq Players
  /\ switched \subseteq Players

PlayersInv == Inv /\ SlotsInv /\ VoiceTypeOK

\* A step of the composition is one of the identity interface, or one of the
\* connections, or it is neither's.
LEMMA PlayersStep ==
  ASSUME [PlayersNext]_<<vars, slotvars, talkvars>>
  PROVE  /\ \/ [Next]_vars
            \/ notified' = None /\ UNCHANGED <<stable, maps, asserted, shared>>
         /\ [SlotsNext]_slotvars
<1>1. CASE PlayersNext
  <2>1. ASSUME NEW p \in Players, RegisterPlayer(p) \/ UnregisterPlayer(p)
        PROVE  [SlotsNext]_slotvars
    BY <2>1 DEF RegisterPlayer, UnregisterPlayer, SlotsNext
  <2> QED BY <1>1, <2>1 DEF PlayersNext, RegisterLocalPlayers, SlotsNext
<1>2. CASE UNCHANGED <<vars, slotvars, talkvars>>
  BY <1>2
<1> QED BY <1>1, <1>2

\* A completion that is not broadcast leaves the two maps alone.
LEMMA QuietInv ==
  ASSUME Inv, notified' = None, UNCHANGED <<stable, maps, asserted, shared>>
  PROVE  Inv'
  BY DEF maps, Inv, TypeOK, Distinct, Linked, RandomUnshared, AccountFound

\* The talkers are players.
LEMMA VoiceType ==
  ASSUME SlotsTypeOK, VoiceTypeOK, [PlayersNext]_<<vars, slotvars, talkvars>>
  PROVE  VoiceTypeOK'
<1>1. ASSUME NEW p \in Players, RegisterPlayer(p) \/ UnregisterPlayer(p)
      PROVE  VoiceTypeOK'
  BY <1>1 DEF RegisterPlayer, UnregisterPlayer, RegisterVoice, UnregisterVoice,
              GetVoiceInterface, VoiceTypeOK
<1>2. CASE RegisterLocalPlayers
  BY <1>2 DEF RegisterLocalPlayers, GetVoiceInterface, VoiceTypeOK
<1>3. CASE UNCHANGED talkvars
  BY <1>3 DEF talkvars, VoiceTypeOK
<1>4. ASSUME NEW changed, switched' = switched \cup (changed \cap registered),
             UNCHANGED <<voice, localTalkers, remoteTalkers>>
      PROVE  VoiceTypeOK'
  BY <1>4 DEF SlotsTypeOK, VoiceTypeOK
<1> QED BY <1>1, <1>2, <1>3, <1>4 DEF PlayersNext

\* Both invariants hold of the composition.
THEOREM PlayersInvariance == PlayersSpec => []PlayersInv
<1>1. PlayersInit => PlayersInv
  BY InitInv, SlotsInitInv DEF PlayersInit, PlayersInv, VoiceTypeOK
<1>2. PlayersInv /\ [PlayersNext]_<<vars, slotvars, talkvars>> => PlayersInv'
  <2> SUFFICES ASSUME PlayersInv, [PlayersNext]_<<vars, slotvars, talkvars>>
               PROVE  PlayersInv'
    OBVIOUS
  <2>1. Inv'
    BY PlayersStep, NextInv, QuietInv DEF PlayersInv
  <2>2. SlotsInv'
    BY PlayersStep, SlotsNextInv DEF PlayersInv
  <2>3. VoiceTypeOK'
    BY VoiceType DEF PlayersInv, SlotsInv
  <2> QED BY <2>1, <2>2, <2>3 DEF PlayersInv
<1> QED BY <1>1, <1>2, PTL DEF PlayersSpec

\* The players of a session and their voice are well-typed.
THEOREM PlayersTypeCorrect == PlayersSpec => []PlayersTypeOK
<1>1. PlayersInv => PlayersTypeOK
  BY DEF PlayersInv, Inv, SlotsInv, VoiceTypeOK, PlayersTypeOK
<1> QED BY PlayersInvariance, <1>1, PTL

\* Logins, registrations and voice together: the maps of the identity interface agree,
\* check(TempPtr) never fails, and the open connections are exact.
THEOREM PlayersAlwaysRight == PlayersSpec => [](MapsAgree /\ AccountFound /\ SlotsExact)
<1>1. PlayersInv => MapsAgree /\ AccountFound /\ SlotsExact
  BY InvMapsAgree DEF PlayersInv, Inv, SlotsInv
<1> QED BY PlayersInvariance, <1>1, PTL

\* No registration of a player in a session touches an account either.
THEOREM PlayersStayIndependent == PlayersSpec => PlayersIndependent
<1>1. PlayersInv /\ [PlayersNext]_<<vars, slotvars, talkvars>> => [Independent]_vars
  BY PlayersStep, IndependentStep DEF PlayersInv, Independent
<1> QED BY PlayersInvariance, <1>1, PTL DEF PlayersSpec, PlayersIndependent, Independent
=============================================================================
