-------------------------------- MODULE Dhcp --------------------------------
(***************************************************************************)
(* The DHCP server (pkg/daemons/dhcp/dhcpv4.go) and the interfaces of the  *)
(* virtual machines as its clients.                                        *)
(*                                                                         *)
(* The server keeps nothing: every packet is handled in a goroutine of its *)
(* own, from the ClusterIP found by the sender's MAC.  One List decides    *)
(* what is sent; a reply sent late is a reply that arrives late.  Packets  *)
(* are never taken out of the sets below, which stands for packets lost,   *)
(* duplicated and reordered.  A DISCOVER says nothing and is not recorded. *)
(***************************************************************************)
EXTENDS VmController

VARIABLES
    offers,       \* OFFERs, REQUESTs and ACKs on the network
    requests,
    acks,
    leases        \* the address each client has been acknowledged last

dhcpVars == <<offers, requests, acks, leases>>

\* The interfaces of the machines.  All of a machine's have the MAC that is
\* generated from its resource; a client knows its packets by their XID.
Clients == VMs \X (Ifaces \ {NoIface})

Packets == [client : Clients, address : Int]

DhcpTypeOK ==
    /\ offers \subseteq Packets
    /\ requests \subseteq Packets
    /\ acks \subseteq Packets
    /\ leases \in [Clients -> Int]

DhcpInit ==
    /\ offers = {}
    /\ requests = {}
    /\ acks = {}
    /\ leases = [c \in Clients |-> NoAddress]

\* FindClusterIPbyFamilyandMAC.  A released ClusterIP has no MAC.
WithMacOf(v) ==
    {n \in ClusterIPsOf(v) : cips[n].family = "v4" /\ cips[n].iface # NoIface}

(***************************************************************************)
(* applyCommonOptions: the address of the first ClusterIP with the MAC.    *)
(* When there is none, or the look-up of it or of its pool fails, the      *)
(* packet goes out with the address it had.                                *)
(***************************************************************************)
applyCommonOptions(v, address) ==
    LET found == {cips[n].address : n \in WithMacOf(v)}
    IN  IF MayFail \/ found = {} THEN found \cup {address} ELSE found

-----------------------------------------------------------------------------
\* A DISCOVER of c is handled.  Clients drop an OFFER without an address.
handleDiscover(c) ==
    /\ Exist(c[1])
    /\ \E a \in applyCommonOptions(c[1], NoAddress) :
          offers' = IF a = NoAddress THEN offers
                    ELSE offers \cup {[client |-> c, address |-> a]}
    /\ UNCHANGED <<requests, acks, leases>>

\* A client asks for what it was offered, or had before its reboot.
SendRequest(c) ==
    /\ Exist(c[1])
    /\ \E a \in {m.address : m \in {o \in offers : o.client = c}}
                  \cup ({leases[c]} \ {NoAddress}) :
          requests' = requests \cup {[client |-> c, address |-> a]}
    /\ UNCHANGED <<offers, acks, leases>>

\* An ACK starts out with the address of the REQUEST.
handleRequest(m) ==
    /\ \E a \in applyCommonOptions(m.client[1], m.address) :
          acks' = acks \cup {[m EXCEPT !.address = a]}
    /\ UNCHANGED <<offers, requests, leases>>

ReceiveAck(m) ==
    /\ Exist(m.client[1])
    /\ leases' = [leases EXCEPT ![m.client] = m.address]
    /\ UNCHANGED <<offers, requests, acks>>

DhcpNext ==
    \/ \E c \in Clients : handleDiscover(c) \/ SendRequest(c)
    \/ \E m \in requests : handleRequest(m)
    \/ \E m \in acks : ReceiveAck(m)
=============================================================================
