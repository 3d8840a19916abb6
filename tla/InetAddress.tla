----------------------------- MODULE InetAddress -----------------------------
(***************************************************************************)
(* muti::InetAddress: an IPv4 address and a port, which it keeps in        *)
(* network order.  The machine is little-endian, so that htons() and       *)
(* ntohs() swap the bytes.                                                 *)
(*                                                                         *)
(* The dotted form of an address is taken as the address itself, which     *)
(* inet_pton() and inet_ntop() are inverse on.                             *)
(***************************************************************************)
EXTENDS Integers, Sequences

CONSTANTS
  Ip,          \* the values of ip_
  Malformed    \* what inet_pton() does not accept, and no address at all

PortCount == 65536   \* the range of uint16_t
Ports == 0..(PortCount - 1)
Addresses == [ip : Ip, port : Ports]

(* htons() and ntohs() *)
Htons(n) == 256 * (n % 256) + (n \div 256)
Ntohs(n) == Htons(n)

(* InetAddress(const std::string&): a text has a colon or not, what comes  *)
(* before it, and the number atoi() makes of what comes after it, of which *)
(* the cast to uint16_t keeps the lower bits.  Malformed stands for the    *)
(* exception.                                                              *)
Texts == [colon : BOOLEAN, ip : Ip \cup {Malformed}, port : Int]
Parse(text) ==
  IF ~text.colon \/ text.ip = Malformed
  THEN Malformed
  ELSE [ip |-> text.ip, port |-> Htons(text.port % PortCount)]

HostPort(addr) == Ntohs(addr.port)

ToString(addr) == [colon |-> TRUE, ip |-> addr.ip, port |-> HostPort(addr)]

(* resolve(): the results of getaddrinfo(), none when it fails, each with  *)
(* the address, whether its ai_family is AF_INET, whether socket() gave a  *)
(* descriptor and whether connect() on it succeeded.  rp[i] is where the   *)
(* loop ends that has come to the i-th result: at the first that connects, *)
(* or past the last, where rp is NULL.                                     *)
Results ==
  Seq([addr : Addresses, inet : BOOLEAN, socket : BOOLEAN, connects : BOOLEAN])
Connects(result) == result.socket /\ result.connects
LoopEnd(results) ==
  LET rp[i \in 1..(Len(results) + 1)] ==
        IF i > Len(results) \/ Connects(results[i]) THEN i ELSE rp[i + 1]
  IN  rp[1]

(* addr is what the caller passed. *)
Resolve(results, addr) ==
  LET end == LoopEnd(results)
  IN  IF end <= Len(results) /\ results[end].inet
      THEN [success |-> TRUE, addr |-> results[end].addr]
      ELSE [success |-> FALSE, addr |-> addr]
==============================================================================
