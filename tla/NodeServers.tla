----------------------------- MODULE NodeServers -----------------------------
(***************************************************************************)
(* lnd's sub-servers and the calls of one of them: requests are routed to  *)
(* the peers sub-server while lnd serves, those it has begun are finished  *)
(* while lnd stops, and the end of the process drops the others.  What was *)
(* announced is kept in lnd's graph over a restart.  What the watchtower   *)
(* client sub-server tells is a function of what its client manager knows: *)
(* it is checked for every answer lnd may give, where it is built in.      *)
(***************************************************************************)
EXTENDS SubServers, NodeAnnouncement, Watchtowers

vars == <<serverVars, annVars>>

Init == ServersInit /\ AnnInit

\* lnd lets requests through once it serves.
Route(c) ==
    /\ lnd = "serving" /\ "PeersRPC" \in registered
    /\ GetNodeAnnouncement(c)
    /\ UNCHANGED serverVars

Finish(c) ==
    /\ lnd \in {"serving", "stopping"}
    /\ UpdateNodeAnnouncement(c)
    /\ UNCHANGED serverVars

Next ==
    \/ (Boot \/ Running) /\ UNCHANGED annVars
    \/ (Exit \/ Crash) /\ DropUpdates
    \/ \E c \in Callers : Route(c) \/ Finish(c)

Spec == Init /\ [][Next]_vars

\* Types, and a call is only under way in a sub-server that was started.
TypeOK ==
    /\ ServersTypeOK
    /\ AnnTypeOK
    /\ \A c \in Callers :
          update[c] # NoUpdate => "PeersRPC" \in registered
                                  /\ shell["PeersRPC"] \in {"started", "stopped"}

\* Failures, crashes and overlapping calls leave nothing half done that somebody
\* relies on: macaroon files are whole and the announcement is consistent.
NothingHalfDone == MacaroonsWholeUnlessSpoiled /\ AnnouncementValid

\* A build with the watchtower client tells of its towers right, whatever
\* sessions there are and in whatever order the clients' map is iterated.
TowersTold == "WatchtowerClientRPC" \in registered => TowersToldRight
=============================================================================
