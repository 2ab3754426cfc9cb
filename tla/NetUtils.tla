------------------------------ MODULE NetUtils ------------------------------
(***************************************************************************)
(* The address arithmetic of pkg/net_utils/ip.go.                          *)
(*                                                                         *)
(* A CIDR is a family and the number of addresses of its block (2^hostBits *)
(* for a block net.ParseCIDR accepts); size 0 stands for a string that     *)
(* net.ParseCIDR rejects.  An address is its offset from the network       *)
(* address of the block: offset 0 is the network address and size - 1 the  *)
(* broadcast address.  The code computes with big.Int, so there is no      *)
(* width to overflow here either.                                          *)
(***************************************************************************)
EXTENDS Integers

Families == {"v4", "v6"}

CIDRs == [family : Families, size : Nat]

\* The error result of the Go functions.
NoAddress == -1

Parses(cidr) == cidr.size > 0

\* IPv4 blocks other than /31 and /32 have a network and a broadcast address.
HasBroadcast(cidr) == cidr.family = "v4" /\ cidr.size > 2

\* Mutant of FirstOffset: the index is used as the offset in every block.
FirstOffsetZero(cidr) == 0

FirstOffset(cidr) == IF HasBroadcast(cidr) THEN 1 ELSE 0

\* The largest index the range checks let through.
LastIndex(cidr) == IF HasBroadcast(cidr) THEN cidr.size - 2 ELSE cidr.size - 1

PickUsableIPFromCIDRIndex(cidr, index) ==
    IF Parses(cidr) /\ index \in 0 .. LastIndex(cidr)
    THEN FirstOffset(cidr) + index
    ELSE NoAddress

CountUsableIPs(cidr) ==
    IF HasBroadcast(cidr) THEN cidr.size - 2 ELSE cidr.size

\* Reference definition: the addresses a host may be given.
Usable(cidr) ==
    IF HasBroadcast(cidr) THEN 1 .. cidr.size - 2 ELSE 0 .. cidr.size - 1
=============================================================================
