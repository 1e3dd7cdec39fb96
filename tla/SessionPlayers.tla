--------------------------- MODULE SessionPlayers ---------------------------
(***************************************************************************)
(* The players of one session with their voice: RegisterPlayers and        *)
(* UnregisterPlayers keep the talkers of the voice interface next to the   *)
(* connections, and ask the identity interface, at that moment, which      *)
(* players are local.                                                      *)
(***************************************************************************)
EXTENDS Identity, PlayerSlots

VARIABLES
  voice,         \* the voice interface: not asked for yet, initialised, or none
  localTalkers,  \* external: its local talkers
  remoteTalkers, \* external: its remote talkers
  switched       \* history: players that logged in or out while registered

talkvars == <<voice, localTalkers, remoteTalkers, switched>>

PlayersTypeOK ==
  /\ TypeOK
  /\ SlotsTypeOK
  /\ voice \in {"unused", "on", "none"}
  /\ localTalkers \subseteq LocalPlayers
  /\ remoteTalkers \subseteq Players
  /\ switched \subseteq Players

PlayersInit ==
  /\ Init
  /\ SlotsInit
  /\ voice = "unused"
  /\ localTalkers = {}
  /\ remoteTalkers = {}
  /\ switched = {}

\* IsLocalPlayer (external): is it the id of a local player?
LocalIds(ids) == {ids[u] : u \in LocalPlayers} \ {None}

\* GetVoiceInterface initialises it when it is asked for the first time.
GetVoiceInterface ==
  IF voice = "unused" THEN voice' \in {"on", "none"} ELSE UNCHANGED voice

\* Every player number is registered as a local talker, logged in or not.
RegisterLocalPlayers ==
  /\ GetVoiceInterface
  /\ localTalkers' = IF voice' = "on" THEN LocalPlayers ELSE localTalkers
  /\ UNCHANGED <<remoteTalkers, switched, slotvars>>

RegisterVoice(p) ==
  /\ GetVoiceInterface
  /\ remoteTalkers' = IF voice' = "on" /\ p \notin LocalIds(userIds)
                      THEN remoteTalkers \cup {p} ELSE remoteTalkers
  /\ UNCHANGED localTalkers

\* Mutant: a player that leaves is not taken off the air.
UnregisterVoiceNever(p) == GetVoiceInterface /\ UNCHANGED <<localTalkers, remoteTalkers>>

UnregisterVoice(p) ==
  /\ GetVoiceInterface
  /\ remoteTalkers' = IF voice' = "on" /\ p \notin LocalIds(userIds)
                      THEN remoteTalkers \ {p} ELSE remoteTalkers
  /\ UNCHANGED localTalkers

\* A player that is registered already gets its voice once more.
RegisterPlayer(p) ==
  /\ Register(p) \/ (p \in registered /\ UNCHANGED slotvars)
  /\ RegisterVoice(p)
  /\ UNCHANGED switched

UnregisterPlayer(p) ==
  /\ Unregister(p)
  /\ UnregisterVoice(p)
  /\ UNCHANGED switched

PlayersNext ==
  \/ /\ Next
     /\ LET changed == (LocalIds(userIds) \cup LocalIds(userIds'))
                         \ (LocalIds(userIds) \cap LocalIds(userIds'))
        IN  switched' = switched \cup (changed \cap registered)
     /\ UNCHANGED <<slotvars, voice, localTalkers, remoteTalkers>>
  \/ /\ ~asserted
     /\ \/ RegisterLocalPlayers
        \/ \E p \in Players : RegisterPlayer(p) \/ UnregisterPlayer(p)
        \/ UpdateSession /\ UNCHANGED talkvars
     /\ notified' = None
     /\ UNCHANGED <<stable, maps, asserted, shared>>

PlayersSpec == PlayersInit /\ [][PlayersNext]_<<vars, slotvars, talkvars>>

-----------------------------------------------------------------------------
(* Properties *)

\* The remote talkers are the registered players that play elsewhere, however
\* players register repeatedly, leave, and log in and out on this machine; only of a
\* player that once logged in or out while it was registered nothing is said.
TalkersMatch ==
  voice = "on" =>
    \A p \in Players \ switched :
      p \in remoteTalkers <=> p \in registered /\ p \notin LocalIds(userIds)
=============================================================================
