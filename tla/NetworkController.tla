------------------------- MODULE NetworkController --------------------------
(***************************************************************************)
(* The ClusterIPPool half of the network controller:                       *)
(* cmd/network-controller.go wires an informer without resync to           *)
(* OnAddClusterIPPool of pkg/controllers/network/clusterippool.go.         *)
(*                                                                         *)
(* The informer calls the handlers one after the other, so at most one     *)
(* handler is between its Get and its Status().Update.  Nothing requeues:  *)
(* a handler that fails has consumed the only event of its pool.           *)
(***************************************************************************)
EXTENDS KubeApi

VARIABLES
    alive,        \* the controller process runs
    queue,        \* pools with an Add event not yet handled
    handling,     \* the pools (at most one) whose handler is past its Get
    read          \* the object that handler has read

controllerVars == <<alive, queue, handling, read>>

ControllerTypeOK ==
    /\ alive \in BOOLEAN
    /\ queue \subseteq Pools
    /\ handling \subseteq Pools
    /\ read \in PoolObjects

ControllerInit ==
    /\ alive = FALSE
    /\ queue = {}
    /\ handling = {}
    /\ read = NoPool

\* Mutant of Handles: the objects of the initial list are handled as well.
HandlesAll(isInInitialList) == TRUE

\* The first lines of OnAddClusterIPPool.
Handles(isInInitialList) == ~isInInitialList

\* The status OnAddClusterIPPool computes for the object it has read.
ObservedStatus(p, object) ==
    LET cidr == SpecOf[p].cidr
    IN  IF Parses(cidr)
        THEN [object EXCEPT !.total = CountUsableIPs(cidr),
                            !.free = CountUsableIPs(cidr)]
        ELSE [object EXCEPT !.invalid = TRUE]

-----------------------------------------------------------------------------
\* The process starts; the informer lists the pools there are.
StartController ==
    /\ ~alive
    /\ alive' = TRUE
    /\ queue' = IF Handles(TRUE) THEN {p \in Pools : Exists(pools[p])} ELSE {}
    /\ UNCHANGED <<handling, read, apiVars>>

CrashController ==
    /\ alive
    /\ alive' = FALSE
    /\ queue' = {}
    /\ handling' = {}
    /\ read' = NoPool
    /\ UNCHANGED apiVars

\* A pool is created; a running informer delivers the Add event.
PoolAdded(p) ==
    /\ CreatePool(p)
    /\ queue' = IF alive /\ Handles(FALSE) THEN queue \cup {p} ELSE queue
    /\ UNCHANGED <<alive, handling, read>>

\* The handler of the next event reads its pool.
GetAddedPool(p) ==
    /\ alive /\ handling = {} /\ p \in queue
    /\ queue' = queue \ {p}
    /\ handling' = {p}
    /\ read' = pools[p]
    /\ UNCHANGED <<alive, apiVars>>

EndHandler ==
    /\ handling' = {}
    /\ read' = NoPool
    /\ UNCHANGED <<alive, queue>>

\* The handler writes the status, unless it would write what it has read.
UpdatePoolStatus(p) ==
    /\ p \in handling
    /\ Fresh(pools[p], read)
    /\ IF ObservedStatus(p, read) = read
       THEN UNCHANGED pools
       ELSE StatusUpdate(p, ObservedStatus(p, read))
    /\ EndHandler
    /\ UNCHANGED cips

\* The write is refused: the pool has changed since the Get.  Only logged.
UpdatePoolConflict(p) ==
    /\ p \in handling
    /\ ~Fresh(pools[p], read)
    /\ EndHandler
    /\ UNCHANGED apiVars

\* The API server cannot be reached: the Get or the update fails.  Only logged.
ControllerCallFails(p) ==
    \/ /\ alive /\ handling = {} /\ p \in queue
       /\ queue' = queue \ {p}
       /\ UNCHANGED <<alive, handling, read, apiVars>>
    \/ /\ p \in handling
       /\ EndHandler
       /\ UNCHANGED apiVars

ControllerNext ==
    \/ StartController
    \/ CrashController
    \/ \E p \in Pools :
          \/ PoolAdded(p)
          \/ GetAddedPool(p)
          \/ UpdatePoolStatus(p)
          \/ UpdatePoolConflict(p)
          \/ ControllerCallFails(p)
=============================================================================
