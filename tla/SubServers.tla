------------------------------ MODULE SubServers ------------------------------
(***************************************************************************)
(* The life of lnd's gRPC sub-servers: each package registers a driver     *)
(* (sub_server.go), lnd puts an empty shell for each into its gRPC server, *)
(* fills it with CreateSubServer, which checks the configuration and bakes *)
(* a macaroon file if there is none, and starts and stops what it created. *)
(* lnd may crash at any step, also while a file is being written, and is   *)
(* started again on the files it left.                                     *)
(***************************************************************************)
EXTENDS Integers, FiniteSets

CONSTANTS
    MaxRegistered,  \* bound on the drivers that a build registers
    MaxBoots        \* bound on the starts of lnd

ASSUME MaxBootsAssumption == MaxBoots \in Nat

-----------------------------------------------------------------------------
(* The drivers: the configuration fields that must be set and, of a package *)
(* that bakes a macaroon, whether the directory for it must be.            *)

AutopilotRPC == [needs |-> {"Manager"}, bakes |-> FALSE, needsDir |-> FALSE]
ChainRPC == [needs |-> {"ChainNotifier", "Chain"}, bakes |-> TRUE, needsDir |-> TRUE]
DevRPC == [needs |-> {"ActiveNetParams", "GraphDB"}, bakes |-> FALSE, needsDir |-> FALSE]
InvoicesRPC == [needs |-> {}, bakes |-> TRUE, needsDir |-> FALSE]
NeutrinoKitRPC == [needs |-> {}, bakes |-> FALSE, needsDir |-> FALSE]
PeersRPC == [needs |-> {}, bakes |-> FALSE, needsDir |-> FALSE]
RouterRPC == [needs |-> {"Router"}, bakes |-> TRUE, needsDir |-> FALSE]
SignRPC == [needs |-> {"Signer"}, bakes |-> TRUE, needsDir |-> TRUE]
WalletKitRPC == [needs |-> {"FeeEstimator", "Wallet", "KeyRing", "Sweeper", "Chain"},
                 bakes |-> TRUE, needsDir |-> TRUE]
WatchtowerRPC == [needs |-> {}, bakes |-> FALSE, needsDir |-> FALSE]
WatchtowerClientRPC == [needs |-> {"Resolver"}, bakes |-> FALSE, needsDir |-> FALSE]

\* VersionRPC has a server but no configuration to look for.
Drivers == [AutopilotRPC |-> AutopilotRPC, ChainRPC |-> ChainRPC, DevRPC |-> DevRPC,
            InvoicesRPC |-> InvoicesRPC, NeutrinoKitRPC |-> NeutrinoKitRPC,
            PeersRPC |-> PeersRPC, RouterRPC |-> RouterRPC, SignRPC |-> SignRPC,
            WalletKitRPC |-> WalletKitRPC, WatchtowerRPC |-> WatchtowerRPC,
            WatchtowerClientRPC |-> WatchtowerClientRPC]

Names == DOMAIN Drivers \cup {"VersionRPC"}
Bakers == {s \in DOMAIN Drivers : Drivers[s].bakes}
Fields(s) == IF s \in DOMAIN Drivers THEN Drivers[s].needs \cup {"config"} ELSE {}

VARIABLES
    registered,  \* the drivers that the packages of the build registered
    config,      \* what this start of lnd was configured with
    lnd,         \* "down", "creating", "starting", "serving", "stopping"
    shell,       \* shell[s]: "empty", "filled", "started" or "stopped"
    baking,      \* the servers whose macaroon file is being written
    file,        \* file[s]: "absent", "partial" or "whole"
    spoiled,     \* history: the servers whose file a crash or a failed removal
                 \* left half-written, or could not be looked up
    boots        \* number of starts of lnd

serverVars == <<registered, config, lnd, shell, baking, file, spoiled, boots>>

\* mac: no macaroons, macaroons in files, or a stateless start that writes none.
\* missing: at most one field that some server finds unset or of another type.
Configs == [mac : {"none", "files", "stateless"}, dir : BOOLEAN,
            missing : {{}} \cup {{<<s, f>>} : s \in registered, f \in UNION {Fields(t) : t \in Names}}]

NoShells == [s \in registered |-> "empty"]

ServersInit ==
    /\ registered \in {set \in SUBSET Names : Cardinality(set) \in 1 .. MaxRegistered}
    /\ config = [mac |-> "none", dir |-> FALSE, missing |-> {}]
    /\ lnd = "down"
    /\ shell = NoShells
    /\ baking = {}
    /\ file = [s \in registered \cap Bakers |-> "absent"]
    /\ spoiled = {}
    /\ boots = 0

-----------------------------------------------------------------------------
(* Start-up *)

\* lnd registers a shell of each driver with its gRPC and REST servers.
Boot ==
    /\ lnd = "down" /\ boots < MaxBoots
    /\ boots' = boots + 1
    /\ config' \in {c \in Configs : \A m \in c.missing : m[2] \in Fields(m[1])}
    /\ lnd' = "creating"
    /\ shell' = NoShells
    /\ UNCHANGED <<registered, baking, file, spoiled>>

\* createNewSubServer: the configuration is found, of the right type, and
\* complete; with macaroons some drivers insist on a directory.
Configured(s) ==
    /\ \A f \in Fields(s) : <<s, f>> \notin config.missing
    /\ s \in Bakers /\ config.mac # "none" /\ Drivers[s].needsDir => config.dir

\* Faulty: the file is written again at every start.
NeedsMacaroonAlways(s) == s \in Bakers /\ config.mac = "files"

\* A file of that name counts, whatever is in it.  lnrpc.FileExists also answers
\* yes if the file cannot be looked up.
NeedsMacaroon(s) == s \in Bakers /\ config.mac = "files" /\ file[s] = "absent"

\* lnd gives up and stops what it has created.
StartupFails ==
    /\ lnd' = "stopping"
    /\ UNCHANGED <<registered, config, shell, boots>>

CreateSubServer(s) ==
    /\ lnd = "creating" /\ baking = {} /\ shell[s] = "empty"
    /\ \/ /\ Configured(s)
          /\ shell' = [shell EXCEPT ![s] = "filled"]
          /\ spoiled' = IF NeedsMacaroon(s) THEN spoiled \cup {s} ELSE spoiled
          /\ UNCHANGED <<registered, config, lnd, baking, file, boots>>
       \/ /\ Configured(s) /\ NeedsMacaroon(s)
          /\ baking' = {s}
          /\ file' = [file EXCEPT ![s] = "partial"]
          /\ UNCHANGED <<registered, config, lnd, shell, spoiled, boots>>
       \/ /\ ~ Configured(s) \/ NeedsMacaroon(s)  \* or NewMacaroon fails
          /\ StartupFails
          /\ UNCHANGED <<baking, file, spoiled>>

\* os.WriteFile returns and the server is created.
WriteMacaroon(s) ==
    /\ s \in baking
    /\ file' = [file EXCEPT ![s] = "whole"]
    /\ baking' = {}
    /\ shell' = [shell EXCEPT ![s] = "filled"]
    /\ UNCHANGED <<registered, config, lnd, spoiled, boots>>

\* Faulty: what was written is left behind.
WriteMacaroonFailsLeaving(s) ==
    /\ s \in baking
    /\ baking' = {}
    /\ StartupFails
    /\ UNCHANGED <<file, spoiled>>

\* os.WriteFile fails: the file is removed, if that does not fail too.
WriteMacaroonFails(s) ==
    /\ s \in baking
    /\ baking' = {}
    /\ \/ file' = [file EXCEPT ![s] = "absent"] /\ UNCHANGED spoiled
       \/ spoiled' = spoiled \cup {s} /\ UNCHANGED file
    /\ StartupFails

AllCreated ==
    /\ lnd = "creating"
    /\ \A s \in registered : shell[s] = "filled"
    /\ lnd' = "starting"
    /\ UNCHANGED <<registered, config, shell, baking, file, spoiled, boots>>

\* Start: only the autopilot's manager may fail.
Start(s) ==
    /\ lnd = "starting" /\ shell[s] = "filled"
    /\ \/ /\ shell' = [shell EXCEPT ![s] = "started"]
          /\ UNCHANGED lnd
       \/ /\ s = "AutopilotRPC"
          /\ lnd' = "stopping"
          /\ UNCHANGED shell
    /\ UNCHANGED <<registered, config, baking, file, spoiled, boots>>

Serve ==
    /\ lnd = "starting"
    /\ \A s \in registered : shell[s] = "started"
    /\ lnd' = "serving"
    /\ UNCHANGED <<registered, config, shell, baking, file, spoiled, boots>>

-----------------------------------------------------------------------------
(* Shutdown and crash *)

Shutdown ==
    /\ lnd = "serving"
    /\ lnd' = "stopping"
    /\ UNCHANGED <<registered, config, shell, baking, file, spoiled, boots>>

\* Stop closes the server's quit channel, if it has one.  It is called once
\* for each server that was created.
Stop(s) ==
    /\ lnd = "stopping" /\ shell[s] \in {"filled", "started"}
    /\ shell' = [shell EXCEPT ![s] = "stopped"]
    /\ UNCHANGED <<registered, config, lnd, baking, file, spoiled, boots>>

Exit ==
    /\ lnd = "stopping"
    /\ \A s \in registered : shell[s] \in {"empty", "stopped"}
    /\ lnd' = "down"
    /\ shell' = NoShells
    /\ UNCHANGED <<registered, config, baking, file, spoiled, boots>>

\* The files stay as they are.
Crash ==
    /\ lnd # "down"
    /\ lnd' = "down"
    /\ shell' = NoShells
    /\ spoiled' = spoiled \cup baking
    /\ baking' = {}
    /\ UNCHANGED <<registered, config, file, boots>>

\* The steps that leave lnd's process alive.
Running ==
    \/ \E s \in registered : CreateSubServer(s) \/ WriteMacaroon(s) \/ WriteMacaroonFails(s)
    \/ AllCreated
    \/ \E s \in registered : Start(s)
    \/ Serve
    \/ Shutdown
    \/ \E s \in registered : Stop(s)

-----------------------------------------------------------------------------
(* Properties *)

ServersTypeOK ==
    /\ registered \subseteq Names
    /\ config \in Configs
    /\ lnd \in {"down", "creating", "starting", "serving", "stopping"}
    /\ shell \in [registered -> {"empty", "filled", "started", "stopped"}]
    /\ baking \subseteq registered \cap Bakers /\ Cardinality(baking) <= 1
    /\ file \in [registered \cap Bakers -> {"absent", "partial", "whole"}]
    /\ spoiled \subseteq registered \cap Bakers
    /\ boots \in 0 .. MaxBoots

\* "If we're unable to locate, or create the macaroons we need, then we'll
\* return with an error" (New of each baking package): when lnd serves with
\* macaroon files, each baking server has a whole one, unless a crash in the
\* middle of a write or a failed removal left a part of one, which later starts
\* take for a macaroon, or the file could not be looked up and was taken to be
\* there.  Nothing else leaves a part of a file.
MacaroonsWholeUnlessSpoiled ==
    /\ lnd = "serving" /\ config.mac = "files" =>
          \A s \in registered \cap Bakers : file[s] = "whole" \/ s \in spoiled
    /\ \A s \in registered \cap Bakers : file[s] = "partial" => s \in baking \cup spoiled

\* A start writes macaroon files only if it is told to keep macaroons in files,
\* and never replaces a file that it finds, over crashes and restarts: a user's
\* macaroon stays valid.
MacaroonsNotReplaced ==
    [][\A s \in registered \cap Bakers : file'[s] # file[s] =>
          config.mac = "files" /\ (file[s] = "absent" \/ s \in baking)]_serverVars
=============================================================================
