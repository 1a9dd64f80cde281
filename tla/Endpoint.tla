------------------------------- MODULE Endpoint ------------------------------
(***************************************************************************)
(* util_lib/tcp: the hosts and ports that a tcp_client or a tcp_server is  *)
(* told, what it makes of them, and what the connections it hands over say *)
(* of their two ends.  Tcp has the descriptors and the bytes.              *)
(*                                                                         *)
(* A port is two digits to the base Base, for two bytes: htons() swaps     *)
(* them.  A text is digits, a name or empty.  Left out are the names that  *)
(* the lookups find, which are shown only, and the end of the program when *)
(* such a name is a null pointer.                                          *)
(***************************************************************************)
EXTENDS Integers, Functions

CONSTANTS Base,
          Hosts, Ports,     (* sets: texts of hosts and ports                *)
          Known,            (* the address of each host with a name          *)
          Services,         (* the port of each service                      *)
          Peers,            (* set: who connects to the server               *)
          Ephemeral         (* set: the ports that the kernel gives clients  *)

VARIABLES owner,            (* "client" or "server"                          *)
          remote,           (* m_remote_host_ip, m_remote_port_number        *)
          local,            (* m_local_port_number                           *)
          addr,             (* m_connect_addr, m_listen_addr                 *)
          pending,          (* an attempt to connect, or the listening       *)
          given,            (* the connection the last call handed over, its *)
                            (* peer, own, told, texts and latest as history  *)
          (* history, read by properties only *)
          asked,            (* the texts that the caller gave last ...       *)
          used              (* ... and those when the address was made       *)

endpoint == <<owner, remote, local, addr, pending, given, asked, used>>

Wide   == Base * Base
htons(n) == LET low == n % Wide IN (low % Base) * Base + low \div Base
Nobody == [ip |-> 0, port |-> -1]
Empty  == [kind |-> "none", value |-> 0]
NoTexts == [host |-> Empty, port |-> Empty]
Nothing == [by |-> "none", remote |-> Nobody, local |-> -1, peer |-> Nobody, own |-> -1,
            told |-> FALSE, texts |-> NoTexts, latest |-> NoTexts]

Init ==
  /\ owner \in {"client", "server"}
  /\ remote = Nobody /\ local = -1 /\ addr = Nobody /\ pending = FALSE
  /\ given = Nothing /\ asked = NoTexts /\ used = NoTexts

-----------------------------------------------------------------------------
(* What a lookup by name finds.  It returns 0 also when there is no entry,  *)
(* which the code does not notice: it takes what the lookup looked at last. *)
Found(entries, key) ==
  IF key \in DOMAIN entries THEN {entries[key]} ELSE Range(entries)

(* pri_set_host_info() clears the address first.                            *)
HostInfo(text) ==
  CASE text.kind = "none"    -> {0}
    [] text.kind = "address" -> {text.value}
    [] text.kind = "name"    ->
         Found(Known, text.value) \cup (IF text.value \in DOMAIN Known THEN {} ELSE {0})

(* pri_set_port_info(): a number out of range is refused but kept; the port *)
(* of a service is kept as its entry has it, in the network's byte order.   *)
s_port(p) == htons(p)
PortInfo(text) ==
  CASE text.kind = "none"   -> {-1}
    [] text.kind = "digits" -> {text.value}
    [] text.kind = "name"   ->
         {s_port(p) : p \in Found(Services, text.value)}
           \cup (IF text.value \in DOMAIN Services THEN {} ELSE {-1})

(* The calls may come at any time, between those of one attempt as well.    *)
set_remote_host(text) ==
  /\ owner = "client" /\ \E ip \in HostInfo(text) : remote' = [remote EXCEPT !.ip = ip]
  /\ asked' = [asked EXCEPT !.host = text] /\ given' = Nothing
  /\ UNCHANGED <<owner, local, addr, pending, used>>
set_remote_port(text) ==
  /\ owner = "client" /\ \E port \in PortInfo(text) : remote' = [remote EXCEPT !.port = port]
  /\ asked' = [asked EXCEPT !.port = text] /\ given' = Nothing
  /\ UNCHANGED <<owner, local, addr, pending, used>>
set_listen_port(text) ==
  /\ owner = "server" /\ local' \in PortInfo(text)
  /\ asked' = [asked EXCEPT !.port = text] /\ given' = Nothing
  /\ UNCHANGED <<owner, remote, addr, pending, used>>

-----------------------------------------------------------------------------
(* p_set_connect_addr() and p_set_listen_addr()                             *)
Target == IF owner = "client" THEN remote ELSE [ip |-> 0, port |-> local]
FirstTarget == IF addr = Nobody THEN Target ELSE addr                  (* variant *)
Address == Target
SetAddress == addr' = Address /\ used' = asked

(* The object's data are copied, when connect() or listen() hands it over.  *)
HandedOver(peer, own, told) ==
  given' = [by |-> owner, remote |-> remote', local |-> local', peer |-> peer, own |-> own,
            told |-> told, texts |-> used', latest |-> asked]

(* The client is connected: p_set_local_port_info() asks the kernel for its *)
(* port.                                                                    *)
p_set_local_port_info(told, own) == local' = IF told THEN own ELSE local
Connected ==
  \E told \in BOOLEAN, own \in Ephemeral :
    /\ p_set_local_port_info(told, own) /\ UNCHANGED remote /\ pending' = FALSE
    /\ HandedOver([addr' EXCEPT !.port = @ % Wide], own, told)
NotYet(state) == pending' = state /\ given' = Nothing /\ UNCHANGED <<remote, local>>

(* p_connect_block(), and the first call of p_connect_non_block(): the      *)
(* attempt succeeds, fails or goes on.                                      *)
Connect ==
  /\ owner = "client" /\ SetAddress
  /\ Connected \/ \E state \in BOOLEAN : NotYet(state)
  /\ UNCHANGED <<owner, asked>>
ConnectAgain ==
  /\ owner = "client" /\ pending /\ UNCHANGED <<addr, used>>
  /\ Connected \/ NotYet(FALSE)
  /\ UNCHANGED <<owner, asked>>

(* p_listen_block(), p_listen_non_block(): the first call opens the socket  *)
(* and binds it.                                                            *)
Listen ==
  /\ owner = "server" /\ ~pending /\ SetAddress /\ \E state \in BOOLEAN : NotYet(state)
  /\ UNCHANGED <<owner, asked>>

(* It accepts a peer, who may be gone before p_set_remote_host_port_info()  *)
(* asks for its name: the object then keeps that of the peer before it.     *)
p_set_remote_host_port_info(told, peer) == remote' = IF told THEN peer ELSE remote
Accept(peer) ==
  /\ owner = "server" /\ pending /\ UNCHANGED <<owner, local, addr, pending, asked, used>>
  /\ \E told \in BOOLEAN :
       p_set_remote_host_port_info(told, peer) /\ HandedOver(peer, addr.port % Wide, told)

(* close(), by the caller or after an error                                 *)
Close == pending /\ NotYet(FALSE) /\ UNCHANGED <<owner, addr, asked, used>>

Next ==
  \/ \E text \in Hosts : set_remote_host(text)
  \/ \E text \in Ports : set_remote_port(text) \/ set_listen_port(text)
  \/ Connect \/ ConnectAgain \/ Listen \/ Close
  \/ \E peer \in Peers : Accept(peer)

-----------------------------------------------------------------------------
Number(text) == text.kind = "digits" /\ text.value \in 1 .. Wide - 1
Sure(text, entries) == text.kind = "name" => text.value \in DOMAIN entries

(* A client is connected to what was asked for when the attempt began,      *)
(* whatever was asked before and since, but for a service, the bytes of     *)
(* whose port are swapped; a server hands over what came to its port.       *)
WhereAsked ==
  LET text == given.texts IN
  /\ given.by = "client" =>
       /\ text.host.kind = "address" => given.peer.ip = text.host.value
       /\ text.host.kind = "name" /\ Sure(text.host, Known) => given.peer.ip = Known[text.host.value]
       /\ Number(text.port) => given.peer.port = text.port.value
       /\ text.port.kind = "name" /\ Sure(text.port, Services) =>
            given.peer.port = htons(Services[text.port.value])
  /\ given.by = "server" /\ Number(text.port) => given.own = text.port.value

(* What a connection says of its ends is so, when the kernel told and       *)
(* nothing else was asked for while it was made: otherwise it says what was *)
(* asked since, or what was so of the connection before.                    *)
EndsTold ==
  LET text == given.texts
      Stood(field) == text[field] = given.latest[field]
  IN /\ given.by = "client" =>
          /\ Stood("host") /\ Sure(text.host, Known) => given.remote.ip = given.peer.ip
          /\ Stood("port") /\ Sure(text.port, Services) => given.remote.port % Wide = given.peer.port
          /\ given.told => given.local = given.own
     /\ given.by = "server" =>
          /\ Stood("port") /\ Sure(text.port, Services) => given.local % Wide = given.own
          /\ given.told => given.remote = given.peer
=============================================================================
