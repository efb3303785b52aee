------------------------------ MODULE Address -------------------------------
(***************************************************************************)
(* Addresses (src/code/address.{h,cc}): masks and prefixes of IPv4 and     *)
(* IPv6, the text of an IPv6 address, how Lookup splits a host, and the    *)
(* order of addresses.                                                     *)
(*                                                                         *)
(* An address is the set of its bits that are 1, bit 1 the most            *)
(* significant: |, & and ~ are union, intersection and complement, and the *)
(* byte swaps on both sides of them cancel out.  A host is a sequence over *)
(* "[", "]", ":" and "x" for the other characters.                         *)
(***************************************************************************)
EXTENDS Integers, Sequences, FiniteSets

CONSTANTS Bits4,        \* of an IPv4 address; 32 in the code
          Bytes6,       \* of an IPv6 address; 16 in the code
          ByteWidth,    \* bits of a byte of an IPv6 address; 8 in the code
          Groups6,      \* groups in the text of an IPv6 address; 8 in the code
          MaxHost       \* bound: characters of a host

ASSUME AddressAssumption ==
    /\ Bits4 \in Nat \ {0} /\ Bytes6 \in Nat \ {0} /\ ByteWidth \in Nat \ {0}
    /\ Groups6 \in Nat \ {0} /\ MaxHost \in Nat

VARIABLE probe          \* the question put to the functions below

Bits6 == Bytes6 * ByteWidth
NoProbe == [about |-> "nothing"]

(***************************************************************************)
(* Masks.                                                                  *)
(***************************************************************************)
\* CreateMask: the bits behind the first ones, (1 << (width - bits)) - 1.  For
\* an IPv4 address and bits = 0 the shift is as wide as the int: undefined,
\* the count wraps to 0 or the constant is folded.
CreateMask(width, bits) == (bits + 1) .. width
Masks4(prefix_len) == IF prefix_len = 0 THEN {{}, 1 .. Bits4} ELSE {CreateMask(Bits4, prefix_len)}

\* IPv4Address.
broadCastAddress4(a, mask) == a \union mask
networkAddress4(a, mask) == a \intersect mask
noComplement(mask) == mask
subnetMask4(mask) == (1 .. Bits4) \ mask

\* IPv6Address: the byte that the prefix ends in, and the ones around it.
\* prefix_len = Bits6 writes behind the array and is left out.
EndByte(prefix_len) == prefix_len \div ByteWidth
Behind(prefix_len) == ((EndByte(prefix_len) + 1) * ByteWidth + 1) .. Bits6
Before(prefix_len) == 1 .. EndByte(prefix_len) * ByteWidth
MaskAt(prefix_len) ==
    {EndByte(prefix_len) * ByteWidth + b : b \in CreateMask(ByteWidth, prefix_len % ByteWidth)}
NotMaskAt(prefix_len) ==
    {EndByte(prefix_len) * ByteWidth + b : b \in 1 .. (prefix_len % ByteWidth)}
broadCastAddress6(a, prefix_len) == a \union NotMaskAt(prefix_len) \union Behind(prefix_len)
networkAddress6(a, prefix_len) == a \intersect (Before(prefix_len) \union MaskAt(prefix_len))
subnetMask6(prefix_len) == NotMaskAt(prefix_len) \union Before(prefix_len)

\* CountBytes: value &= value - 1 clears the lowest 1 until none is left.
CountBytes(value) ==
    LET Lowest(v) == CHOOSE b \in v : \A c \in v : c <= b
        count[v \in SUBSET value] == IF v = {} THEN 0 ELSE 1 + count[v \ {Lowest(v)}]
    IN count[value]
\* GetInterfaceAddress: the prefix of an interface, over the bytes for IPv6.
PrefixOf4(netmask) == CountBytes(netmask)
PrefixOf6(netmask) ==
    LET sum[i \in 0 .. Bytes6] ==
          IF i = 0 THEN 0
          ELSE sum[i - 1] + CountBytes(netmask \intersect (((i - 1) * ByteWidth + 1) .. i * ByteWidth))
    IN sum[Bytes6]

(***************************************************************************)
(* IPv6Address::insert: groups "0" and "1", and the colons between.        *)
(***************************************************************************)
insert(addr) ==
    LET turn[i \in 0 .. Groups6] ==
          IF i = 0 THEN [os |-> <<>>, used_zeros |-> FALSE]
          ELSE LET t == turn[i - 1]
                   elided == i > 1 /\ addr[IF i > 1 THEN i - 1 ELSE i] = "0" /\ ~t.used_zeros
               IN IF addr[i] = "0" /\ ~t.used_zeros THEN t
                  ELSE [os |-> t.os \o (IF elided THEN <<":">> ELSE <<>>)
                                    \o (IF i > 1 THEN <<":">> ELSE <<>>) \o <<addr[i]>>,
                        used_zeros |-> t.used_zeros \/ elided]
        end == turn[Groups6]
    IN IF ~end.used_zeros /\ addr[Groups6] = "0" THEN end.os \o <<":", ":">> ELSE end.os

(***************************************************************************)
(* Address::Lookup: the node and the service passed to getaddrinfo.  The   *)
(* service is where it starts in host, 0 for nullptr.                      *)
(***************************************************************************)
\* memchr over the characters from .. to: the first place, or 0.
memchr(host, ch, from, to) ==
    LET at == {i \in from .. to : host[i] = ch}
    IN IF at = {} THEN 0 ELSE CHOOSE i \in at : \A j \in at : i <= j
Lookup(host) ==
    LET n == Len(host)
        endipv6 == IF n > 0 /\ host[1] = "[" THEN memchr(host, "]", 1, n - 1) ELSE 0
        node6 == SubSeq(host, 2, endipv6 - 1)
        first == memchr(host, ":", 1, n)
        node4 == IF first > 0 /\ memchr(host, ":", first + 1, n) = 0 THEN SubSeq(host, 1, first - 1) ELSE <<>>
    IN IF endipv6 > 0 /\ node6 # <<>>
       THEN [node |-> node6, service |-> IF host[endipv6 + 1] = ":" THEN endipv6 + 2 ELSE 0]
       ELSE [node |-> IF node4 = <<>> THEN host ELSE node4,
             service |-> IF first > 0 /\ memchr(host, ":", first + 1, n) = 0 THEN first + 1 ELSE first]

(***************************************************************************)
(* Address::operator< and ==, over the bytes of two addresses.             *)
(***************************************************************************)
Less(x, y) ==
    LET n == IF Len(x) < Len(y) THEN Len(x) ELSE Len(y)
        differ == {i \in 1 .. n : x[i] # y[i]}
        i == CHOOSE i \in differ : \A j \in differ : i <= j
    IN IF differ = {} THEN Len(x) < Len(y) ELSE x[i] < y[i]
Equal(x, y) == Len(x) = Len(y) /\ \A i \in 1 .. Len(x) : x[i] = y[i]

Hosts == UNION {[1 .. n -> {"[", "]", ":", "x"}] : n \in 0 .. MaxHost}
Memory == UNION {[1 .. n -> {0, 1}] : n \in 0 .. 3}
Ask ==
    /\ probe = NoProbe
    /\ \/ \E a \in SUBSET (1 .. Bits4), p \in 0 .. Bits4 : \E mask \in Masks4(p) :
             probe' = [about |-> "v4", addr |-> a, prefix_len |-> p, mask |-> mask]
       \/ \E a \in SUBSET (1 .. Bits6), p \in 0 .. (Bits6 - 1) :
             probe' = [about |-> "v6", addr |-> a, prefix_len |-> p]
       \/ \E a \in [1 .. Groups6 -> {"0", "1"}] : probe' = [about |-> "text", addr |-> a]
       \/ \E h \in Hosts : probe' = [about |-> "host", host |-> h]
       \/ \E x, y \in Memory : probe' = [about |-> "order", x |-> x, y |-> y]

(***************************************************************************)
(* Properties.                                                             *)
(***************************************************************************)
\* How inet_pton reads the text: groups with a colon between each two, and at
\* most one :: for the missing ones.
Listed(text) ==
    text # <<>> => Len(text) % 2 = 1 /\ \A i \in 1 .. Len(text) : text[i] = ":" <=> i % 2 = 0
GroupsIn(text) == [i \in 1 .. ((Len(text) + 1) \div 2) |-> text[2 * i - 1]]
Gaps(text) == {i \in 1 .. (Len(text) - 1) : text[i] = ":" /\ text[i + 1] = ":"}
Reads(text, addr) ==
    IF Gaps(text) = {} THEN Listed(text) /\ GroupsIn(text) = addr
    ELSE LET g == CHOOSE i \in Gaps(text) : TRUE
             before == SubSeq(text, 1, g - 1)
             after == SubSeq(text, g + 2, Len(text))
             missing == Groups6 - Len(GroupsIn(before)) - Len(GroupsIn(after))
         IN /\ Gaps(text) = {g} /\ Listed(before) /\ Listed(after) /\ missing >= 1
            /\ GroupsIn(before) \o [i \in 1 .. missing |-> "0"] \o GroupsIn(after) = addr

\* The prefix is counted back out of the subnet mask it gives, for both
\* families, and an IPv4 broadcast address is the last one of its subnet.
\* For IPv6 the whole bytes of
\* the prefix are the same in both.  (networkAddress keeps the host's bits,
\* broadCastAddress of IPv6 sets those of the network in the byte between,
\* and CreateMask of 0 bits is undefined for IPv4.)
MasksAgree ==
    /\ probe.about = "v4" /\ probe.prefix_len > 0 =>
         /\ PrefixOf4(subnetMask4(probe.mask)) = probe.prefix_len
         /\ broadCastAddress4(probe.addr, probe.mask)
              = (probe.addr \intersect (1 .. probe.prefix_len)) \union ((probe.prefix_len + 1) .. Bits4)
    /\ probe.about = "v6" =>
         /\ PrefixOf6(subnetMask6(probe.prefix_len)) = probe.prefix_len
         /\ \A b \in Before(probe.prefix_len) :
              b \in networkAddress6(probe.addr, probe.prefix_len)
                  <=> b \in broadCastAddress6(probe.addr, probe.prefix_len)

\* An IPv6 address is read back from its text, whatever zeros were left out.
TextReadsBack == probe.about = "text" => Reads(insert(probe.addr), probe.addr)

\* A host is split at the right places: a name or an IPv4 address alone, with
\* a service behind a colon, and an IPv6 address in brackets with a service.
\* (A bare IPv6 address, or one in brackets without a service, is not.)
LookupSplits ==
    probe.about = "host" /\ probe.host # <<>> =>
        LET h == probe.host
            colons == {i \in 1 .. Len(h) : h[i] = ":"}
            close == {i \in 1 .. Len(h) : h[i] = "]"}
        IN /\ h[1] # "[" /\ colons = {} => Lookup(h) = [node |-> h, service |-> 0]
           /\ \A c \in colons :
                h[1] # "[" /\ colons = {c} /\ c > 1 =>
                    Lookup(h) = [node |-> SubSeq(h, 1, c - 1), service |-> c + 1]
           /\ \A c \in close :
                /\ h[1] = "[" /\ c > 2 /\ (\A d \in close : c <= d)
                /\ c + 1 \in colons
                => Lookup(h) = [node |-> SubSeq(h, 2, c - 1), service |-> c + 2]

\* < is a strict order that goes with ==: of two addresses exactly one is
\* less, or they are equal.
OrderTotal ==
    probe.about = "order" =>
        Cardinality({r \in {"lt", "gt", "eq"} :
            \/ r = "lt" /\ Less(probe.x, probe.y)
            \/ r = "gt" /\ Less(probe.y, probe.x)
            \/ r = "eq" /\ Equal(probe.x, probe.y)}) = 1

\* AddressesAgree: masks and prefixes give each other back, IPv6 text reads
\* back, hosts are split where they should be, and the order is total
\* (address.cc:24-39, 65-133, 242-258, 325-347, 394-463).
AddressesAgree == MasksAgree /\ TextReadsBack /\ LookupSplits /\ OrderTotal
=============================================================================
