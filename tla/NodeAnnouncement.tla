-------------------------- MODULE NodeAnnouncement --------------------------
(***************************************************************************)
(* UpdateNodeAnnouncement of the peers sub-server (peersrpc/peers_server.  *)
(* go).  A call reads the node's announcement, computes a feature vector   *)
(* and modifiers from it, and hands them to lnd, which announces them: a   *)
(* read and a write with no lock around them, so calls overlap.            *)
(***************************************************************************)
EXTENDS Integers, Sequences, SequencesExt, FiniteSets

CONSTANTS
    Callers,       \* concurrent clients of UpdateNodeAnnouncement
    NumBits,       \* 2^w, for feature bits of w bits (2^16)
    Requires,      \* Requires[b]: the bits that bit b depends on
    Unparsable,    \* addresses, colours and aliases that do not parse
    InitAnn,       \* the announcement lnd starts with
    Requests,      \* NodeAnnouncementUpdateRequests a client may send
    MaxUpdates     \* bound on the calls

Bits == 0 .. NumBits - 1

\* lnwire.FeatureBit of a request's int32, a uint16.
FeatureBit(n) == n % NumBits

ASSUME RequiresAssumption ==
    NumBits \in Nat \ {0} /\ Requires \in [Bits -> SUBSET Bits]

\* A request updates features and addresses one after another.
ASSUME RequestsAssumption ==
    \A r \in Requests :
        /\ r.features \in Seq(ToSet(r.features)) /\ r.addrs \in Seq(ToSet(r.addrs))
        /\ \A u \in ToSet(r.features) : u.bit \in Int

\* The announcement has four parts; lnd starts with features that go together,
\* and with the addresses that it parsed and of which it dropped duplicates.
ASSUME InitAnnAssumption ==
    /\ DOMAIN InitAnn = {"features", "addrs", "color", "alias"}
    /\ InitAnn.features \subseteq Bits
    /\ \A b \in InitAnn.features : Requires[b] \subseteq InitAnn.features
    /\ InitAnn.addrs \in Seq(ToSet(InitAnn.addrs)) /\ IsInjective(InitAnn.addrs)
    /\ ToSet(InitAnn.addrs) \cap Unparsable = {}

ASSUME MaxUpdatesAssumption == MaxUpdates \in Nat

VARIABLES
    ann,      \* the announcement: features, addrs, color and alias
    update,   \* update[c]: the call of c that has read and not yet written
    updates   \* number of calls made

annVars == <<ann, update, updates>>

\* A colour, an alias or a modifier is optional: {} or a singleton.
Else(option, old) == IF option = {} THEN old ELSE CHOOSE x \in option : TRUE

-----------------------------------------------------------------------------
(* The new announcement *)

\* feature.ValidateDeps
ValidFeatures(set) == \A b \in set : Requires[b] \subseteq set

\* The actions on features are applied in order to a copy of the vector;
\* setting a set bit or unsetting an unset one is an error ({}).
ApplyFeature(vectors, u) ==
    LET bit == FeatureBit(u.bit) IN
    IF u.action = "add" THEN {v \cup {bit} : v \in {w \in vectors : bit \notin w}}
    ELSE IF u.action = "remove" THEN {v \ {bit} : v \in {w \in vectors : bit \in w}}
    ELSE {}

\* What the actions make of the vector, one after another.
AppliedFeatures(current, us) ==
    LET after[n \in 0 .. Len(us)] ==
            IF n = 0 THEN {current} ELSE ApplyFeature(after[n - 1], us[n])
    IN  after[Len(us)]

\* Faulty: dependencies are not looked at.
UpdateFeaturesUnvalidated(current, us) == AppliedFeatures(current, us)

\* {the new vector}, or {} for an error.
UpdateFeatures(current, us) == {v \in AppliedFeatures(current, us) : ValidFeatures(v)}

AddrsOf(us, action) == {us[i].addr : i \in {j \in DOMAIN us : us[j].action = action}}

AddressError(us) ==
    \/ \E i \in DOMAIN us : us[i].addr \in Unparsable \/ us[i].action \notin {"add", "remove"}
    \/ AddrsOf(us, "add") \cap AddrsOf(us, "remove") # {}

AddNew(addrs, u) ==
    IF u.action # "add" \/ Contains(addrs, u.addr) THEN addrs ELSE Append(addrs, u.addr)

\* The current addresses but those to remove, in their order.
KeptAddresses(current, us) ==
    LET kept[n \in 0 .. Len(current)] ==
            IF n = 0 THEN << >>
            ELSE IF current[n] \in AddrsOf(us, "remove") THEN kept[n - 1]
            ELSE Append(kept[n - 1], current[n])
    IN  kept[Len(current)]

\* The addresses with each that is to be added.
WithAdded(addrs, us) ==
    LET added[n \in 0 .. Len(us)] ==
            IF n = 0 THEN addrs ELSE AddNew(added[n - 1], us[n])
    IN  added[Len(us)]

\* {the new address list}, or {} for an error.
UpdateAddresses(current, us) ==
    IF AddressError(us) THEN {} ELSE {WithAdded(KeptAddresses(current, us), us)}

\* Faulty: what the request leaves alone is set to what was read.
NewAnnouncementComplete(r, read) ==
    [features : IF r.features = << >> THEN {read.features}
                ELSE UpdateFeatures(read.features, r.features),
     addrs : IF r.addrs = << >> THEN {{read.addrs}}
             ELSE {{a} : a \in UpdateAddresses(read.addrs, r.addrs)},
     color : {{Else(r.color, read.color)}},
     alias : {{Else(r.alias, read.alias)}}]

\* {the feature vector and the modifiers handed to lnd when read was announced},
\* or {} for an error or if nothing changes.  A colour or an alias that is
\* announced already gives no modifier; the vector is handed over even if no
\* feature was updated.
NewAnnouncement(r, read) ==
    {m \in [features : IF r.features = << >> THEN {read.features}
                       ELSE UpdateFeatures(read.features, r.features),
            addrs : IF r.addrs = << >> THEN {{}}
                    ELSE {{a} : a \in UpdateAddresses(read.addrs, r.addrs)},
            color : {r.color \ {read.color}},
            alias : {r.alias \ {read.alias}}] :
        /\ (r.color \cup r.alias) \cap Unparsable = {}
        /\ r.features # << >> \/ m.addrs # {} \/ m.color # {} \/ m.alias # {}}

-----------------------------------------------------------------------------
(* Calls *)

NoUpdate == [req |-> {}, read |-> {}, new |-> {}]

AnnInit ==
    /\ ann = InitAnn
    /\ update = [c \in Callers |-> NoUpdate]
    /\ updates = 0

\* Faulty: the call goes on after an error.
GetNodeAnnouncementUnchecked(c) ==
    /\ update[c] = NoUpdate /\ updates < MaxUpdates
    /\ updates' = updates + 1
    /\ \E r \in Requests :
          update' = [update EXCEPT ![c] =
              [req |-> {r}, read |-> {ann}, new |-> NewAnnouncement(r, ann)]]
    /\ UNCHANGED ann

\* The announcement is read and the new one computed; an error ends the call.
GetNodeAnnouncement(c) ==
    /\ update[c] = NoUpdate /\ updates < MaxUpdates
    /\ updates' = updates + 1
    /\ \E r \in Requests :
          LET new == NewAnnouncement(r, ann) IN
          update' = [update EXCEPT ![c] =
              IF new = {} THEN NoUpdate ELSE [req |-> {r}, read |-> {ann}, new |-> new]]
    /\ UNCHANGED ann

\* lnd sets the vector and applies the modifiers, or fails.
UpdateNodeAnnouncement(c) ==
    /\ update[c] # NoUpdate
    /\ \/ \E m \in update[c].new :
             ann' = [features |-> m.features, addrs |-> Else(m.addrs, ann.addrs),
                     color |-> Else(m.color, ann.color), alias |-> Else(m.alias, ann.alias)]
       \/ UNCHANGED ann
    /\ update' = [update EXCEPT ![c] = NoUpdate]
    /\ UNCHANGED updates

AnnNext == \E c \in Callers : GetNodeAnnouncement(c) \/ UpdateNodeAnnouncement(c)

\* The process dies with the calls it was handling.
DropUpdates ==
    /\ update' = [c \in Callers |-> NoUpdate]
    /\ UNCHANGED <<ann, updates>>

-----------------------------------------------------------------------------
(* Properties *)

AnnTypeOK ==
    /\ ann.features \subseteq Bits
    /\ \A c \in Callers :
          /\ update[c].req \subseteq Requests
          /\ (update[c].new = {}) = (update[c] = NoUpdate)
          /\ \A m \in update[c].new : m.features \subseteq Bits
    /\ updates \in 0 .. MaxUpdates

\* However calls overlap, the announced features include all that they depend
\* on and no address is announced twice: each call checks a whole vector and a
\* whole list and announces that vector and that list, never a difference.
AnnouncementValid ==
    /\ ValidFeatures(ann.features)
    /\ IsInjective(ann.addrs)
    /\ ToSet(ann.addrs) \cap Unparsable = {}

Asked(r, f) ==
    CASE f = "features" -> r.features # << >>
      [] f = "addrs" -> r.addrs # << >>
      [] f = "color" -> r.color # {}
      [] f = "alias" -> r.alias # {}

\* A call changes a part of the announcement that its request does not name
\* only if that part is the feature vector and another call has announced other
\* features since this one read them.
UnaskedChangeNeedsOverlap ==
    [][\A c \in Callers : \A r \in update[c].req, read \in update[c].read :
          update'[c] = NoUpdate =>
              \A f \in DOMAIN ann : ann'[f] # ann[f] =>
                  Asked(r, f) \/ (f = "features" /\ ann.features # read.features)]_annVars

\* What peersrpc/config_active.go says of the call: "If no feature updates are
\* required, a nil feature vector should be provided", so an update without
\* feature updates leaves the announced features alone.
FeaturesOnlyIfAsked ==
    [][\A c \in Callers : \A r \in update[c].req :
          update'[c] = NoUpdate /\ r.features = << >> =>
              ann'.features = ann.features]_annVars
=============================================================================
