--------------------------- MODULE AddressLedger ----------------------------
(***************************************************************************)
(* What address management promises, without pools' counters, API calls or *)
(* processes: a ledger in which an entry, once made, stays as it is, every *)
(* entry holds an address a host can use, and no two hold the same one.    *)
(***************************************************************************)
CONSTANTS
    Names,            \* holders of an address
    Pools,            \* address blocks
    HostAddresses     \* for each block, the addresses a host can use

VARIABLE ledger

Init == ledger = {}

Grant(n, p, a) ==
    /\ \A e \in ledger : e.name # n
    /\ \A e \in ledger : ~(e.pool = p /\ e.address = a)
    /\ ledger' = ledger \cup {[name |-> n, pool |-> p, address |-> a]}

Next == \E n \in Names, p \in Pools : \E a \in HostAddresses[p] : Grant(n, p, a)

Spec == Init /\ [][Next]_ledger
=============================================================================
