------------------------------ MODULE Watchtowers ------------------------------
(***************************************************************************)
(* What the watchtower client RPCs tell of towers and of the sessions      *)
(* negotiated with them (wtclientrpc/wtclient.go).                         *)
(*                                                                         *)
(* lnd's client manager is outside this repository. It runs one client per *)
(* policy; each knows every tower, and has sessions of its own with it. It *)
(* answers with a Go map from policies to towers, which is iterated in any *)
(* order: the handlers merge what the clients say.                         *)
(***************************************************************************)
EXTENDS Integers, Sequences, SequencesExt, FiniteSets

CONSTANTS
    Towers,        \* towers that were added and not removed
    Policies,      \* the clients that run: LEGACY, ANCHOR, TAPROOT
    SessionIds,    \* bound: sessions there may be
    MaxBackups     \* Policy.MaxUpdates of a session

\* A client runs for the legacy policy at least.
ASSUME TowerAssumption ==
    /\ SessionIds \subseteq Nat /\ IsFiniteSet(SessionIds) /\ MaxBackups \in Nat
    /\ IsFiniteSet(Policies) /\ Policies # {}

-----------------------------------------------------------------------------
(* The client manager and its database: external. *)

\* The updates of a session: the tower has acknowledged them, for a channel or
\* for one that has been closed meanwhile (rogue), or has yet to (committed).
Sessions ==
    {s \in [tower : Towers, policy : Policies, acked : 0 .. MaxBackups,
            rogue : 0 .. MaxBackups, committed : 0 .. MaxBackups] :
        s.acked + s.rogue + s.committed <= MaxBackups}

\* What the database may hold: the negotiated sessions, by their ids.
Databases == UNION {[ids -> Sessions] : ids \in SUBSET SessionIds}

SeqNum(s) == s.acked + s.rogue + s.committed

\* wtclient.ExhaustedSessionFilter.
Exhausted(s) == SeqNum(s) = MaxBackups /\ s.committed = 0

SessionsOf(db, t, p) == {i \in DOMAIN db : db[i].tower = t /\ db[i].policy = p}

TowerRequests ==
    [include_sessions : BOOLEAN, exclude_exhausted_sessions : BOOLEAN]

-----------------------------------------------------------------------------
(* ListTowers and GetTowerInfo *)

\* Faulty: the filter forgets what is pending.
FetchedMutant(db, t, p, req) ==
    {i \in SessionsOf(db, t, p) :
        req.include_sessions /\ req.exclude_exhausted_sessions
            => SeqNum(db[i]) < MaxBackups}

\* constructFunctionalOptions: sessions are only filtered if they are listed.
Fetched(db, t, p, req) ==
    {i \in SessionsOf(db, t, p) :
        req.include_sessions /\ req.exclude_exhausted_sessions
            => ~ Exhausted(db[i])}

\* What the callbacks of constructFunctionalOptions count.
TowerSession(db, i) ==
    [id |-> i, num_backups |-> db[i].acked + db[i].rogue,
     num_pending_backups |-> db[i].committed]

\* Sessions are listed in the order of their ids.
Ascending(ids) == \A m, n \in DOMAIN ids : m < n => ids[m] < ids[n]
InOrder(ids) == CHOOSE s \in SetToSeqs(ids) : Ascending(s)

\* The fields beside session_info are there for older clients.
MarshallTower(db, t, p, req) ==
    LET ids == Fetched(db, t, p, req)
        listed == IF req.include_sessions THEN InOrder(ids) ELSE << >>
        sessions == [k \in DOMAIN listed |-> TowerSession(db, listed[k])]
    IN  [pubkey |-> t, num_sessions |-> Cardinality(ids), sessions |-> sessions,
         session_info |-> <<[policy_type |-> p, num_sessions |-> Cardinality(ids),
                             sessions |-> sessions]>>]

\* Faulty: the list beside session_info is the first client's.
MergedMutant(a, b) == [a EXCEPT !.session_info = @ \o b.session_info]

\* What another client knows is added to what is known of a tower.
Merged(a, b) ==
    [a EXCEPT !.session_info = @ \o b.session_info, !.sessions = @ \o b.sessions]

\* A tower as ListTowers and GetTowerInfo tell it when the policies are met in
\* this order.
Told(db, t, req, order) ==
    LET Of(k) == MarshallTower(db, t, order[k], req)
        told[k \in DOMAIN order] == IF k = 1 THEN Of(1) ELSE Merged(told[k - 1], Of(k))
    IN  told[Len(order)]

\* ListTowers: each tower keeps the place in the map that its first policy gave.
ListTowers(db, req, order) == {Told(db, t, req, order) : t \in Towers}

-----------------------------------------------------------------------------
(* What is told *)

\* Whatever the order, each session of a tower is told once, in the info of its
\* policy, in the order of the ids, and once in the list that joins the policies.
SessionsToldOnce(db, req, tower) ==
    LET info == tower.session_info
        all == UNION {ToSet(info[k].sessions) : k \in DOMAIN info}
    IN  /\ Len(info) = Cardinality(Policies)
        /\ {info[k].policy_type : k \in DOMAIN info} = Policies
        /\ \A k \in DOMAIN info :
              LET ids == [n \in DOMAIN info[k].sessions |-> info[k].sessions[n].id] IN
              /\ Ascending(ids)
              /\ ToSet(ids) \subseteq SessionsOf(db, tower.pubkey, info[k].policy_type)
              /\ req.include_sessions => info[k].num_sessions = Len(ids)
        /\ ToSet(tower.sessions) = all /\ Len(tower.sessions) = Cardinality(all)

\* Who asks for sessions sees every backup that is still pending, whatever is
\* left out, and of a session that is listed how many backups the tower has.
BackupsTold(db, req, tower) ==
    req.include_sessions =>
        \A i \in {j \in DOMAIN db : db[j].tower = tower.pubkey} :
            LET told == {s \in ToSet(tower.sessions) : s.id = i} IN
            /\ db[i].committed > 0 \/ ~ req.exclude_exhausted_sessions => told # {}
            /\ \A s \in told :
                  /\ s.num_pending_backups = db[i].committed
                  /\ s.num_backups + s.num_pending_backups = SeqNum(db[i])

TowersToldRight ==
    \A db \in Databases, req \in TowerRequests, order \in SetToSeqs(Policies) :
        LET answer == ListTowers(db, req, order) IN
        /\ {tower.pubkey : tower \in answer} = Towers
        /\ \A tower \in answer :
              SessionsToldOnce(db, req, tower) /\ BackupsTold(db, req, tower)

\* Tower.num_sessions: "The number of sessions that have been negotiated with
\* the watchtower." It is that of the policy that is met first.
NumSessionsTold ==
    \A db \in Databases, req \in TowerRequests, order \in SetToSeqs(Policies) :
        \A tower \in ListTowers(db, req, order) : ~ req.include_sessions =>
            tower.num_sessions
                = Cardinality({i \in DOMAIN db : db[i].tower = tower.pubkey})
=============================================================================
