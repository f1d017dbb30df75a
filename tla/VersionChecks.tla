--------------------------- MODULE VersionChecks ---------------------------
(***************************************************************************)
(* Two ways to refuse an update that was made without knowing another:     *)
(*                                                                         *)
(*   "database" Database of version_vector.cpp: an update names the        *)
(*              version that it was made from                              *)
(*   "replicas" Replica of conflict3.cpp: an update comes with a version   *)
(*              vector                                                     *)
(*                                                                         *)
(* The objects of a database share nothing, so one stands for all.  Data   *)
(* are represented by the updates they include: a client changes what it   *)
(* has read.                                                               *)
(***************************************************************************)
EXTENDS Naturals, FiniteSetsExt

CONSTANTS Clients,
          Sites,       \* the replicas
          MaxUpdates   \* bound on the updates made, and on versions sent

ASSUME ChecksAssumption == MaxUpdates \in Nat \ {0}

VARIABLES checker,     \* which of the two it is
          object,      \* the object of the database, a set of at most one
          known,       \* what each client last read, likewise
          made,        \* history: the number of updates made
          accepted,    \* history: those of them that were accepted
          vectors,     \* versionVector of each replica
          held         \* databaseObject of each replica, with the vector that
                       \* it came with (history)

databaseVars == <<object, known, made, accepted>>
replicaVars == <<vectors, held>>
checksVars == <<checker, databaseVars, replicaVars>>

Zero == [j \in Sites |-> 0]

-----------------------------------------------------------------------------
(* addObject, with the version 1 or the one of a builder; it fails if      *)
(* there is an object already.                                             *)
AddObject(version) ==
    /\ checker = "database" /\ object = {}
    /\ object' = {[version |-> version, includes |-> {}]}
    /\ UNCHANGED <<checker, known, made, accepted, replicaVars>>

(* readObject, which shows the data with their version.                    *)
ReadObject(c) ==
    /\ checker = "database"
    /\ known' = [known EXCEPT ![c] = object]
    /\ UNCHANGED <<checker, object, made, accepted, replicaVars>>

(* The version stays the same.                                             *)
BugNextVersion(version) == version

NextVersion(version) == version + 1

(* updateObject of what client c has read.  The update is accepted if the  *)
(* version is still the same; the answer is true in either case.           *)
UpdateObject(c) ==
    /\ checker = "database" /\ made < MaxUpdates
    /\ made' = made + 1
    /\ \E old \in known[c], now \in object :
          IF old.version = now.version
          THEN /\ object' = {[version  |-> NextVersion(now.version),
                              includes |-> old.includes \cup {made'}]}
               /\ accepted' = accepted \cup {made'}
          ELSE UNCHANGED <<object, accepted>>
    /\ UNCHANGED <<checker, known, replicaVars>>

CheckConflicts(v, other) == \E j \in Sites : v[j] < other[j]

(* processUpdate: the replica's own entry is raised to the version of the  *)
(* update, whether or not the update is then rejected.                     *)
ProcessUpdate(i, version, received) ==
    /\ checker = "replicas"
    /\ vectors' = [vectors EXCEPT ![i][i] = Max({@, version})]
    /\ held' = IF CheckConflicts(vectors'[i], received) THEN held
               ELSE [held EXCEPT ![i] = [version |-> version, vector |-> received]]
    /\ UNCHANGED <<checker, databaseVars>>

-----------------------------------------------------------------------------
ChecksInit(checkers) ==
    /\ checker \in checkers
    /\ object = {} /\ known = [c \in Clients |-> {}]
    /\ made = 0 /\ accepted = {}
    /\ vectors = [i \in Sites |-> Zero]
    /\ held = [i \in Sites |-> [version |-> 1, vector |-> Zero]]

DatabaseNext ==
    \/ \E version \in {1, 2} : AddObject(version)
    \/ \E c \in Clients : ReadObject(c) \/ UpdateObject(c)

(* Updates come with an empty vector, as in main, or with the vector of a  *)
(* replica.                                                                *)
ReplicasNext ==
    \E i \in Sites, version \in 1..MaxUpdates,
       received \in {Zero} \cup {vectors[j] : j \in Sites} :
       ProcessUpdate(i, version, received)

ChecksNext == DatabaseNext \/ ReplicasNext

ChecksSpec == ChecksInit({"database", "replicas"}) /\ [][ChecksNext]_checksVars

Objects == [version : Nat, includes : SUBSET (1..MaxUpdates)]

ChecksTypeOK ==
    /\ checker \in {"database", "replicas"}
    /\ object \in SUBSET Objects /\ known \in [Clients -> SUBSET Objects]
    /\ \A a, b \in object : a = b
    /\ \A c \in Clients : \A a, b \in known[c] : a = b
    /\ made \in 0..MaxUpdates /\ accepted \subseteq 1..made
    /\ vectors \in [Sites -> [Sites -> 0..MaxUpdates]]
    /\ held \in [Sites -> [version : 1..MaxUpdates, vector : [Sites -> 0..MaxUpdates]]]

-----------------------------------------------------------------------------
(* Of the updates made from the same version one gets through, and none    *)
(* that was accepted is lost, however old the versions are that clients    *)
(* have read and however often they try.                                   *)
NoUpdateLost == \A now \in object : now.includes = accepted

(* A replica never takes data that come with the vector of another one     *)
(* that has recorded an update: its entries for the others stay 0.  So     *)
(* conflicts are caught, and with them every update from elsewhere.        *)
ReplicasStayApart ==
    \A i, j \in Sites :
        held[i].vector[j] <= (IF i = j THEN vectors[i][i] ELSE 0)

(* Both schemes refuse what was made without knowing an accepted update.   *)
ConflictsAreCaught == NoUpdateLost /\ ReplicasStayApart
=============================================================================
