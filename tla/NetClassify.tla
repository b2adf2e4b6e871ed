------------------------------ MODULE NetClassify ------------------------------
(***************************************************************************)
(* What kind of network a connect goes to: classify_net_destination and    *)
(* its helpers (dev/host/asic_main.c), as operators on a destination       *)
(* [family, addr], addr being the bytes of the address in network order.   *)
(***************************************************************************)
EXTENDS Integers, Sequences

Zeros(n) == [i \in 1 .. n |-> 0]

Class(scope) ==
    [scope |-> scope, is_private |-> scope = "private", is_loopback |-> scope = "loopback"]

\* A slip: the upper bound of 172.16.0.0/12 is one short.
IsPrivateV4_OneShort(a) ==
    \/ a[1] = 10
    \/ a[1] = 172 /\ a[2] \in 16 .. 30
    \/ a[1] = 192 /\ a[2] = 168

IsPrivateV4(a) ==
    \/ a[1] = 10
    \/ a[1] = 172 /\ a[2] \in 16 .. 31
    \/ a[1] = 192 /\ a[2] = 168

classify_ipv4_addr(a) ==
    Class(CASE a[1] = 0 -> "unspecified"
            [] a[1] = 127 -> "loopback"
            [] IsPrivateV4(a) -> "private"
            [] a[1] = 169 /\ a[2] = 254 -> "link-local"
            [] a[1] \in 224 .. 239 -> "multicast"
            [] OTHER -> "public")

ipv6_is_unspecified(a) == a = Zeros(16)
ipv6_is_loopback(a) == a = Zeros(15) \o <<1>>
ipv6_is_v4_mapped(a) == SubSeq(a, 1, 12) = Zeros(10) \o <<255, 255>>

\* The masks of the code keep the upper seven bits of the first byte and the upper
\* two of the second.
classify_net_destination(dst) ==
    LET a == dst.addr IN
    CASE dst.family = "AF_INET" -> classify_ipv4_addr(a)
      [] dst.family = "AF_INET6" /\ ipv6_is_v4_mapped(a) -> classify_ipv4_addr(SubSeq(a, 13, 16))
      [] dst.family = "AF_INET6" /\ ~ipv6_is_v4_mapped(a) ->
            Class(CASE ipv6_is_unspecified(a) -> "unspecified"
                    [] ipv6_is_loopback(a) -> "loopback"
                    [] a[1] \div 2 = 126 -> "private"
                    [] a[1] = 254 /\ a[2] \div 64 = 2 -> "link-local"
                    [] a[1] = 255 -> "multicast"
                    [] OTHER -> "public")
      [] OTHER -> Class("")

-------------------------------------------------------------------------------
(* The same, as the ranges the address registries give. *)

\* The upper 16 bits of an address.
Prefix16(a) == 256 * a[1] + a[2]

V4Scope(a) ==
    LET n == Prefix16(a) IN
    CASE n \in 0 .. 255 -> "unspecified"
      [] n \in (2560 .. 2815) \cup (44048 .. 44063) \cup {49320} -> "private"
      [] n \in 32512 .. 32767 -> "loopback"
      [] n = 43518 -> "link-local"
      [] n \in 57344 .. 61439 -> "multicast"
      [] OTHER -> "public"

V6Scope(a) ==
    CASE a = Zeros(16) -> "unspecified"
      [] a = [Zeros(16) EXCEPT ![16] = 1] -> "loopback"
      [] Prefix16(a) \in 64512 .. 65023 -> "private"
      [] Prefix16(a) \in 65152 .. 65215 -> "link-local"
      [] Prefix16(a) >= 65280 -> "multicast"
      [] OTHER -> "public"

\* An IPv4 address and its mapped form are the same destination.
ReferenceScope(dst) ==
    IF dst.family = "AF_INET" THEN V4Scope(dst.addr)
    ELSE IF \A i \in 1 .. 12 : dst.addr[i] = (IF i > 10 THEN 255 ELSE 0)
         THEN V4Scope(SubSeq(dst.addr, 13, 16)) ELSE V6Scope(dst.addr)
===============================================================================
