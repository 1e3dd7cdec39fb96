---------------------------- MODULE PlayerSlots ----------------------------
(***************************************************************************)
(* The players and open connections of one named session: RegisterPlayers, *)
(* UnregisterPlayers and the settings they are counted against.            *)
(*                                                                         *)
(* RegisterPlayers and UnregisterPlayers treat the players of their list   *)
(* one by one; an action is one of those iterations, a batch a run of      *)
(* them.  The order of RegisteredPlayers is never looked at.               *)
(***************************************************************************)
EXTENDS Integers, FiniteSets

CONSTANTS
  Players,  \* players that may join
  MaxSlots  \* bounds the connections a session is created with

ASSUME MaxSlotsAssumption == MaxSlots \in Nat

Slots == 0 .. MaxSlots

VARIABLES
  registered,  \* RegisteredPlayers
  numPublic,   \* SessionSettings.NumPublicConnections
  numPrivate,  \* SessionSettings.NumPrivateConnections
  openPublic,  \* NumOpenPublicConnections
  openPrivate, \* NumOpenPrivateConnections
  overbooked,  \* history: has a player been registered without an open connection?
  resized      \* history: has UpdateSession changed the number of connections?

slotvars == <<registered, numPublic, numPrivate, openPublic, openPrivate, overbooked, resized>>

SlotsTypeOK ==
  /\ registered \in SUBSET Players
  /\ IsFiniteSet(registered)
  /\ numPublic \in Slots
  /\ numPrivate \in Slots
  /\ openPublic \in Slots
  /\ openPrivate \in Slots
  /\ overbooked \in BOOLEAN
  /\ resized \in BOOLEAN

\* CreateSession opens all connections; "local player will register later".
SlotsInit ==
  /\ registered = {}
  /\ numPublic \in Slots /\ numPrivate \in Slots
  /\ openPublic = numPublic /\ openPrivate = numPrivate
  /\ overbooked = FALSE
  /\ resized = FALSE

\* A player takes a public connection, else a private one, else none: nothing
\* refuses a player when the session is full.
Register(p) ==
  /\ p \notin registered
  /\ registered' = registered \cup {p}
  /\ \/ /\ openPublic > 0
        /\ openPublic' = openPublic - 1
        /\ UNCHANGED <<openPrivate, overbooked>>
     \/ /\ openPublic = 0 /\ openPrivate > 0
        /\ openPrivate' = openPrivate - 1
        /\ UNCHANGED <<openPublic, overbooked>>
     \/ /\ openPublic = 0 /\ openPrivate = 0
        /\ overbooked' = TRUE
        /\ UNCHANGED <<openPublic, openPrivate>>
  /\ UNCHANGED <<numPublic, numPrivate, resized>>

\* Mutant: a player that leaves always frees a public connection.
UnregisterPublic(p) ==
  /\ p \in registered
  /\ registered' = registered \ {p}
  /\ openPublic' = openPublic + 1
  /\ UNCHANGED <<openPrivate, numPublic, numPrivate, overbooked, resized>>

\* A player that leaves frees a public connection if one is taken, else a private
\* one, whichever it had.
Unregister(p) ==
  /\ p \in registered
  /\ registered' = registered \ {p}
  /\ \/ /\ openPublic < numPublic
        /\ openPublic' = openPublic + 1
        /\ UNCHANGED openPrivate
     \/ /\ openPublic >= numPublic /\ openPrivate < numPrivate
        /\ openPrivate' = openPrivate + 1
        /\ UNCHANGED openPublic
     \/ /\ openPublic >= numPublic /\ openPrivate >= numPrivate
        /\ UNCHANGED <<openPublic, openPrivate>>
  /\ UNCHANGED <<numPublic, numPrivate, overbooked, resized>>

\* UpdateSession replaces the settings and leaves the open connections alone.
UpdateSession ==
  /\ numPublic' \in Slots /\ numPrivate' \in Slots
  /\ resized' = (resized \/ <<numPublic', numPrivate'>> # <<numPublic, numPrivate>>)
  /\ UNCHANGED <<registered, openPublic, openPrivate, overbooked>>

SlotsNext == (\E p \in Players : Register(p) \/ Unregister(p)) \/ UpdateSession

SlotsSpec == SlotsInit /\ [][SlotsNext]_slotvars

-----------------------------------------------------------------------------
(* Properties *)

Taken == (numPublic + numPrivate) - (openPublic + openPrivate)

\* As long as the number of connections has not been changed: the open connections
\* never claim fewer free places than there are, each kind stays within its own
\* number, and while nobody was registered into a full session they are exact -
\* although a leaving player may free a connection of the other kind than it took.
SlotsExact ==
  ~resized =>
    /\ openPublic <= numPublic /\ openPrivate <= numPrivate
    /\ Taken <= Cardinality(registered)
    /\ ~overbooked => Taken = Cardinality(registered)
=============================================================================
