--------------------------- MODULE UtilitiesProofs --------------------------
(***************************************************************************)
(* Theorems about the parts of the program that work alone.                *)
(*                                                                         *)
(* Endpoint.  The object's data fit the texts that were given last, and an *)
(* address fits those it was made from.  Two numbers that fit one text are *)
(* the same where the text leaves no choice, which is what a connection    *)
(* says of its ends when nothing else was asked for meanwhile.  Fields,    *)
(* LogBuffer and HexDump, FileConfig, Clock and Latency have sections of   *)
(* their own.                                                              *)
(***************************************************************************)
EXTENDS MCUtilities, Recursions, SequenceTheorems, FiniteSetTheorems, TLAPS

(* Every step is a step of Endpoint or leaves it alone.                     *)
LEMMA EndpointMoves == [Next]_<<component, fields, log, config, clock, latency, stats, prompts,
                                json, hexdump, endpoint>> => [E!Next]_E!endpoint
  BY DEF Next, endpoint, E!endpoint

-----------------------------------------------------------------------------
(* What pri_set_host_info() and pri_set_port_info() keep for a text         *)
HostFits(ip, text) ==
  /\ text.kind \in {"none", "address", "name"}
  /\ text.kind = "none" => ip = 0
  /\ text.kind = "address" => ip = text.value
  /\ text.kind = "name" /\ E!Sure(text, Known) => ip = Known[text.value]
PortFits(port, text) ==
  /\ text.kind \in {"none", "digits", "name"}
  /\ text.kind = "none" => port = -1
  /\ text.kind = "digits" => port = text.value
  /\ text.kind = "name" /\ E!Sure(text, Services) => port = E!htons(Services[text.value])

Records == /\ owner = "client" => remote = [ip |-> remote.ip, port |-> remote.port]
           /\ addr = [ip |-> addr.ip, port |-> addr.port]
           /\ asked = [host |-> asked.host, port |-> asked.port]
           /\ owner \in {"client", "server"}

(* The server asks for no host, and the client's own port is the kernel's.  *)
DataFit ==
  /\ owner = "client" => HostFits(remote.ip, asked.host) /\ PortFits(remote.port, asked.port)
  /\ owner = "server" => PortFits(local, asked.port)
AddressFits ==
  pending =>
    /\ owner = "client" => HostFits(addr.ip, used.host) /\ PortFits(addr.port, used.port)
    /\ owner = "server" => PortFits(addr.port, used.port)
Fitting == Records /\ DataFit /\ AddressFits

(* pri_set_host_info() keeps what fits the text.                            *)
LEMMA HostKept == ASSUME NEW text \in Hosts, NEW ip \in E!HostInfo(text) PROVE HostFits(ip, text)
<1>1. text.kind \in {"none", "address", "name"}
  BY EndpointAssumption
<1>2. CASE text.kind = "none"
  BY <1>2 DEF E!HostInfo, HostFits
<1>3. CASE text.kind = "address"
  BY <1>3 DEF E!HostInfo, HostFits
<1>4. CASE text.kind = "name"
  BY <1>4 DEF E!HostInfo, E!Found, E!Sure, HostFits
<1> QED
  BY <1>1, <1>2, <1>3, <1>4

(* So does pri_set_port_info() of a port.                                   *)
LEMMA PortKept ==
  ASSUME NEW text \in Ports, NEW port \in E!PortInfo(text) PROVE PortFits(port, text)
<1>1. text.kind \in {"none", "digits", "name"}
  BY EndpointAssumption
<1>2. CASE text.kind = "none"
  BY <1>2 DEF E!PortInfo, PortFits
<1>3. CASE text.kind = "digits"
  BY <1>3 DEF E!PortInfo, PortFits
<1>4. CASE text.kind = "name"
  BY <1>4 DEF E!PortInfo, E!Found, E!Sure, E!s_port, PortFits
<1> QED
  BY <1>1, <1>2, <1>3, <1>4

(* htons() of a port is a port of two digits.                               *)
LEMMA SwappedIsShort == ASSUME NEW n \in Nat PROVE E!htons(n) \in 0 .. E!Wide - 1
<1> DEFINE low == n % E!Wide
           quotient == low \div Base
           digit == low % Base
<1>1. Base \in Nat /\ Base > 0 /\ E!Wide \in Nat /\ E!Wide > 0
  BY EndpointAssumption DEF E!Wide
<1>2. low \in Nat /\ low < Base * Base
  BY <1>1 DEF E!Wide
<1>3. digit \in 0 .. Base - 1 /\ quotient \in Nat /\ low = Base * quotient + digit
  BY <1>1, <1>2
<1>4. quotient < Base
  <2>1. SUFFICES ASSUME quotient >= Base PROVE FALSE
    BY <1>1, <1>3
  <2>2. Base * quotient >= Base * Base
    BY <1>1, <1>3, <2>1
  <2> QED
    BY <1>1, <1>2, <1>3, <2>2
<1>5. digit * Base <= (Base - 1) * Base
  BY <1>1, <1>3
<1>6. digit * Base + quotient \in Nat /\ digit * Base + quotient <= Base * Base - 1
  BY <1>1, <1>3, <1>4, <1>5
<1> QED
  BY <1>1, <1>6 DEF E!htons, E!Wide

(* A number of two digits is its own remainder.                             *)
LEMMA ShortIsKept == ASSUME NEW n \in 0 .. E!Wide - 1 PROVE n % E!Wide = n
  BY EndpointAssumption DEF E!Wide

-----------------------------------------------------------------------------
(* Fitting holds of the first state and after every step.                   *)
LEMMA FittingInit == E!Init => Fitting
  BY DEF E!Init, Fitting, Records, DataFit, AddressFits, HostFits, PortFits,
         E!Nobody, E!NoTexts, E!Empty

LEMMA FittingStep == Fitting /\ [E!Next]_E!endpoint => Fitting'
<1> SUFFICES ASSUME Fitting, [E!Next]_E!endpoint PROVE Fitting'
  OBVIOUS
<1> USE DEF Fitting, Records, DataFit, AddressFits
<1>1. CASE UNCHANGED E!endpoint
  BY <1>1 DEF E!endpoint, HostFits, PortFits, E!Sure, E!htons, E!Wide
<1>2. ASSUME NEW text \in Hosts, E!set_remote_host(text) PROVE Fitting'
  BY <1>2, HostKept DEF E!set_remote_host
<1>3. ASSUME NEW text \in Ports, E!set_remote_port(text) PROVE Fitting'
  BY <1>3, PortKept DEF E!set_remote_port
<1>4. ASSUME NEW text \in Ports, E!set_listen_port(text) PROVE Fitting'
  BY <1>4, PortKept DEF E!set_listen_port
<1>5. CASE E!Connect
  BY <1>5 DEF E!Connect, E!SetAddress, E!Address, E!Target, E!Connected, E!NotYet
<1>6. CASE E!ConnectAgain
  BY <1>6 DEF E!ConnectAgain, E!Connected, E!NotYet
<1>7. CASE E!Listen
  BY <1>7 DEF E!Listen, E!SetAddress, E!Address, E!Target, E!NotYet
<1>8. CASE E!Close
  BY <1>8 DEF E!Close, E!NotYet
<1>9. ASSUME NEW peer \in Peers, E!Accept(peer) PROVE Fitting'
  BY <1>9 DEF E!Accept, E!p_set_remote_host_port_info
<1> QED
  BY <1>1, <1>2, <1>3, <1>4, <1>5, <1>6, <1>7, <1>8, <1>9 DEF E!Next
-----------------------------------------------------------------------------
(* A connection that is handed over tells its ends.  What is handed over is *)
(* described by E!HandedOver, of what holds before the step.                *)
Handing == E!WhereAsked /\ E!EndsTold

(* Two numbers that fit one text agree where the text leaves no choice.     *)
LEMMA FitsAgree ==
  ASSUME NEW text, NEW x, NEW y
  PROVE  /\ HostFits(x, text) /\ HostFits(y, text) /\ E!Sure(text, Known) => x = y
         /\ PortFits(x, text) /\ PortFits(y, text) /\ E!Sure(text, Services) => x = y
  BY DEF HostFits, PortFits

(* The port of an address is the number asked for, or a service's, swapped. *)
LEMMA PortAsked ==
  ASSUME NEW port, NEW text, PortFits(port, text)
  PROVE  /\ E!Number(text) => port % E!Wide = text.value
         /\ text.kind = "name" /\ E!Sure(text, Services) =>
              port % E!Wide = E!htons(Services[text.value])
<1>1. E!Number(text) => port % E!Wide = text.value
  BY ShortIsKept, EndpointAssumption DEF PortFits, E!Number, E!Wide
<1>2. ASSUME text.kind = "name", E!Sure(text, Services)
      PROVE  port % E!Wide = E!htons(Services[text.value])
  <2>1. Services[text.value] \in Nat
    BY <1>2, EndpointAssumption DEF E!Sure
  <2> QED
    BY <1>2, <2>1, SwappedIsShort, ShortIsKept DEF PortFits
<1> QED
  BY <1>1, <1>2

(* connect() hands over a connection to the address, as the texts were when *)
(* the address was made.                                                    *)
LEMMA ConnectedTells ==
  ASSUME Fitting, owner = "client", E!Connected,
         addr' = [ip |-> addr'.ip, port |-> addr'.port],
         HostFits(addr'.ip, used'.host), PortFits(addr'.port, used'.port)
  PROVE  Handing'
<1>1. PICK told_ \in BOOLEAN, own \in Ephemeral :
        /\ E!p_set_local_port_info(told_, own) /\ remote' = remote
        /\ E!HandedOver([addr' EXCEPT !.port = @ % E!Wide], own, told_)
  BY DEF E!Connected
<1>2. [addr' EXCEPT !.port = @ % E!Wide] = [ip |-> addr'.ip, port |-> addr'.port % E!Wide]
  OBVIOUS
<1>3. /\ given'.by = "client" /\ given'.remote = remote /\ given'.local = local'
      /\ given'.peer.ip = addr'.ip /\ given'.peer.port = addr'.port % E!Wide
      /\ given'.own = own /\ given'.told = told_
      /\ given'.texts = used' /\ given'.latest = asked
  BY <1>1, <1>2 DEF E!HandedOver
<1>4. E!WhereAsked'
  BY <1>3, PortAsked DEF E!WhereAsked, HostFits
<1>5. used'.host = asked.host /\ E!Sure(used'.host, Known) => remote.ip = addr'.ip
  BY FitsAgree DEF Fitting, DataFit
<1>6. used'.port = asked.port /\ E!Sure(used'.port, Services) => remote.port = addr'.port
  BY FitsAgree DEF Fitting, DataFit
<1>7. given'.told => given'.local = given'.own
  BY <1>1, <1>3 DEF E!p_set_local_port_info
<1> QED
  BY <1>3, <1>4, <1>5, <1>6, <1>7 DEF Handing, E!EndsTold

(* listen() hands over a connection that came to the port of the address.   *)
LEMMA AcceptTells ==
  ASSUME Fitting, NEW peer \in Peers, E!Accept(peer) PROVE Handing'
<1>1. PICK told_ \in BOOLEAN : /\ E!p_set_remote_host_port_info(told_, peer)
                             /\ E!HandedOver(peer, addr.port % E!Wide, told_)
  BY DEF E!Accept
<1>2. /\ given'.by = "server" /\ given'.remote = remote' /\ given'.local = local
      /\ given'.peer = peer /\ given'.own = addr.port % E!Wide /\ given'.told = told_
      /\ given'.texts = used /\ given'.latest = asked
  BY <1>1 DEF E!HandedOver, E!Accept
<1>3. PortFits(addr.port, used.port) /\ PortFits(local, asked.port)
  BY DEF E!Accept, Fitting, AddressFits, DataFit
<1>4. E!WhereAsked'
  BY <1>2, <1>3, PortAsked DEF E!WhereAsked
<1>5. used.port = asked.port /\ E!Sure(used.port, Services) => local = addr.port
  BY <1>3, FitsAgree
<1>6. given'.told => given'.remote = given'.peer
  BY <1>1, <1>2 DEF E!p_set_remote_host_port_info
<1> QED
  BY <1>2, <1>4, <1>5, <1>6 DEF Handing, E!EndsTold

(* Nothing is handed over by the other steps.                               *)
LEMMA NothingTells == given' = E!Nothing => Handing'
  BY DEF Handing, E!WhereAsked, E!EndsTold, E!Nothing, E!Nobody, E!NoTexts, E!Empty

LEMMA HandingStep == Fitting /\ Handing /\ [E!Next]_E!endpoint => Handing'
<1> SUFFICES ASSUME Fitting, Handing, [E!Next]_E!endpoint PROVE Handing'
  OBVIOUS
<1>1. CASE UNCHANGED E!endpoint
  BY <1>1 DEF E!endpoint, Handing, E!WhereAsked, E!EndsTold, E!Sure, E!Number, E!htons, E!Wide
<1>2. ASSUME NEW text, \/ E!set_remote_host(text) \/ E!set_remote_port(text)
                       \/ E!set_listen_port(text)
      PROVE  Handing'
  BY <1>2, NothingTells DEF E!set_remote_host, E!set_remote_port, E!set_listen_port
<1>3. CASE E!Connect
  <2>1. /\ owner = "client" /\ used' = asked /\ addr' = remote
        /\ E!Connected \/ given' = E!Nothing
    BY <1>3 DEF E!Connect, E!SetAddress, E!Address, E!Target, E!NotYet
  <2> QED
    BY <2>1, NothingTells, ConnectedTells DEF Fitting, Records, DataFit
<1>4. CASE E!ConnectAgain
  <2>1. /\ owner = "client" /\ pending /\ used' = used /\ addr' = addr
        /\ E!Connected \/ given' = E!Nothing
    BY <1>4 DEF E!ConnectAgain, E!NotYet
  <2> QED
    BY <2>1, NothingTells, ConnectedTells DEF Fitting, Records, AddressFits
<1>5. CASE E!Listen \/ E!Close
  BY <1>5, NothingTells DEF E!Listen, E!Close, E!NotYet
<1>6. ASSUME NEW peer \in Peers, E!Accept(peer) PROVE Handing'
  BY <1>6, AcceptTells
<1> QED
  BY <1>1, <1>2, <1>3, <1>4, <1>5, <1>6 DEF E!Next

(* A connection goes where the texts said when it was asked for, and what   *)
(* it says of its ends is so while nothing else is asked for: for any hosts, *)
(* ports, services and peers (tcp_client::p_copy_tcp_connection_info() and   *)
(* tcp_server::listen()).                                                   *)
THEOREM PeersAreTold == Spec => []PeersTold
<1>1. Init => Fitting /\ Handing
  <2>1. Init => E!Init
    BY DEF Init
  <2>2. E!Init => Handing
    BY DEF E!Init, Handing, E!WhereAsked, E!EndsTold, E!Nothing, E!Nobody, E!NoTexts, E!Empty
  <2> QED
    BY <2>1, <2>2, FittingInit
<1>2. Fitting /\ Handing /\ [Next]_<<component, fields, log, config, clock, latency, stats,
                                     prompts, json, hexdump, endpoint>>
        => (Fitting /\ Handing)'
  BY EndpointMoves, FittingStep, HandingStep
<1>3. Handing => PeersTold
  BY DEF Handing, PeersTold
<1> QED
  BY <1>1, <1>2, <1>3, PTL DEF Spec

-----------------------------------------------------------------------------
(* Fields.  Every step is a step of Fields or leaves it alone.              *)
LEMMA FieldsMoves == [Next]_<<component, fields, log, config, clock, latency, stats, prompts,
                              json, hexdump, endpoint>> => [F!Next]_F!vars
  BY DEF Next, fields, F!vars

Kinds == {"basic", "variable", "fixed", "bytes"}
Field == [kind : Kinds, value : Seq(Nat)]
FieldTypes ==
  /\ buffer \in Seq(Nat) /\ iterator \in Nat
  /\ added \in Seq(Field) /\ got \in Seq(Seq(Nat)) /\ aligned \in BOOLEAN
  /\ Len(buffer) <= MaxLen /\ iterator <= Len(buffer)

(* The bytes of a field, and where each field of the buffer begins          *)
Code(f) == IF f.kind = "variable" THEN F!Packed(f.value) ELSE f.value
Laid(at) ==
  /\ at \in [1 .. Len(added) + 1 -> 0 .. Len(buffer)]
  /\ at[1] = 0 /\ at[Len(added) + 1] = Len(buffer)
  /\ \A i \in 1 .. Len(added) :
       /\ at[i + 1] = at[i] + Len(Code(added[i]))
       /\ \A j \in 1 .. Len(Code(added[i])) : buffer[at[i] + j] = Code(added[i])[j]
       /\ added[i].kind = "basic" => Len(added[i].value) = Width
Aligned(at) ==
  aligned => /\ Len(got) <= Len(added) /\ iterator = at[Len(got) + 1]
             /\ \A i \in 1 .. Len(got) : got[i] = added[i].value
FieldsLaid == FieldTypes /\ \E at : Laid(at) /\ Aligned(at)

(* The bytes of a field are a sequence, longer by one with a length.        *)
LEMMA CodeOfField ==
  ASSUME NEW f \in Field
  PROVE  /\ Code(f) \in Seq(Nat)
         /\ f.kind = "variable" =>
              /\ Len(Code(f)) = Len(f.value) + 1 /\ Code(f)[1] = Len(f.value)
              /\ \A j \in 1 .. Len(f.value) : Code(f)[j + 1] = f.value[j]
         /\ f.kind # "variable" => Code(f) = f.value
<1>1. f.value \in Seq(Nat) /\ Len(f.value) \in Nat
  BY DEF Field
<1>2. <<Len(f.value)>> \in Seq(Nat) /\ Len(<<Len(f.value)>>) = 1 /\ <<Len(f.value)>>[1] = Len(f.value)
  BY <1>1
<1>3. /\ F!Packed(f.value) \in Seq(Nat) /\ Len(F!Packed(f.value)) = Len(f.value) + 1
      /\ \A i \in 1 .. 1 + Len(f.value) : F!Packed(f.value)[i] =
           IF i <= 1 THEN Len(f.value) ELSE f.value[i - 1]
  BY <1>1, <1>2, ConcatProperties DEF F!Packed
<1>4. CASE f.kind # "variable"
  BY <1>1, <1>4 DEF Code
<1>5. CASE f.kind = "variable"
  <2>1. Code(f) = F!Packed(f.value)
    BY <1>5 DEF Code
  <2>2. F!Packed(f.value)[1] = Len(f.value)
    BY <1>1, <1>3
  <2>3. ASSUME NEW j \in 1 .. Len(f.value) PROVE F!Packed(f.value)[j + 1] = f.value[j]
    <3>1. j + 1 \in 1 .. 1 + Len(f.value) /\ ~(j + 1 <= 1) /\ (j + 1) - 1 = j
      BY <1>1
    <3> QED
      BY <1>3, <3>1
  <2> QED
    BY <1>3, <1>5, <2>1, <2>2, <2>3
<1> QED
  BY <1>4, <1>5

(* A field that is put after the others is laid after them.                 *)
LEMMA PutLays ==
  ASSUME FieldsLaid, NEW bytes \in Seq(Nat), NEW value \in Seq(Nat), NEW kind \in Kinds,
         bytes = Code([kind |-> kind, value |-> value]),
         kind = "basic" => Len(value) = Width,
         Len(buffer) + Len(bytes) <= MaxLen,
         F!Put(bytes, kind, value)
  PROVE  FieldsLaid'
<1> DEFINE f == [kind |-> kind, value |-> value]
           n == Len(added)
<1>1. PICK at : Laid(at) /\ Aligned(at)
  BY DEF FieldsLaid
<1>2. /\ buffer \in Seq(Nat) /\ added \in Seq(Field) /\ f \in Field /\ n \in Nat
      /\ Len(buffer) \in Nat /\ Len(bytes) \in Nat
  BY DEF FieldsLaid, FieldTypes, Field
<1>2a. n \in Nat
  BY <1>2
<1> HIDE DEF n
<1>3. /\ buffer' \in Seq(Nat) /\ Len(buffer') = Len(buffer) + Len(bytes)
      /\ \A i \in 1 .. Len(buffer) : buffer'[i] = buffer[i]
      /\ \A i \in 1 .. Len(bytes) : buffer'[Len(buffer) + i] = bytes[i]
  <2>1. buffer' = buffer \o bytes
    BY DEF F!Put
  <2> QED
    BY <1>2, <2>1, ConcatProperties
<1>4. /\ added' \in Seq(Field) /\ Len(added') = n + 1
      /\ \A i \in 1 .. n : added'[i] = added[i]
      /\ added'[n + 1] = f
  BY <1>2 DEF F!Put, n
<1>5. UNCHANGED <<iterator, got, aligned>>
  BY DEF F!Put
<1>6. FieldTypes'
  BY <1>2, <1>3, <1>4, <1>5 DEF FieldsLaid, FieldTypes
<1>7. /\ at \in [1 .. n + 1 -> 0 .. Len(buffer)] /\ at[1] = 0 /\ at[n + 1] = Len(buffer)
  BY <1>1 DEF Laid, n
<1>8. PICK next : /\ next \in [1 .. n + 2 -> 0 .. Len(buffer')]
                  /\ \A i \in 1 .. n + 1 : next[i] = at[i]
                  /\ next[n + 2] = Len(buffer')
  <2> DEFINE new == [i \in 1 .. n + 2 |-> IF i = n + 2 THEN Len(buffer') ELSE at[i]]
  <2>1. new \in [1 .. n + 2 -> 0 .. Len(buffer')]
    <3>1. Len(buffer') \in 0 .. Len(buffer')
      BY <1>2, <1>3
    <3>2. ASSUME NEW i \in 1 .. n + 2, i # n + 2 PROVE at[i] \in 0 .. Len(buffer')
      <4>1. i \in 1 .. n + 1
        BY <1>2a, <3>2
      <4>2. at[i] \in 0 .. Len(buffer)
        BY <1>7, <4>1
      <4> QED
        BY <1>2, <1>3, <4>2
    <3> QED
      BY <3>1, <3>2
  <2>2. (\A i \in 1 .. n + 1 : new[i] = at[i]) /\ new[n + 2] = Len(buffer')
    BY <1>2
  <2> QED
    BY <2>1, <2>2
<1>9. ASSUME NEW i \in 1 .. n + 1
      PROVE  /\ next[i + 1] = next[i] + Len(Code(added'[i]))
             /\ \A j \in 1 .. Len(Code(added'[i])) : buffer'[next[i] + j] = Code(added'[i])[j]
             /\ added'[i].kind = "basic" => Len(added'[i].value) = Width
  <2>1. CASE i = n + 1
    <3>1. added'[i] = f /\ Code(added'[i]) = bytes /\ next[i] = Len(buffer)
      BY <1>2, <1>4, <1>7, <1>8, <2>1
    <3>2. f.kind = kind /\ f.value = value
      OBVIOUS
    <3>3. next[i + 1] = Len(buffer) + Len(bytes)
      BY <1>2, <1>3, <1>7, <1>8, <2>1
    <3> QED
      BY <1>3, <3>1, <3>2, <3>3
  <2>2. CASE i # n + 1
    <3>1. i \in 1 .. n /\ i + 1 \in 1 .. n + 1
      BY <1>2a, <2>2
    <3>2. added'[i] = added[i] /\ next[i] = at[i] /\ next[i + 1] = at[i + 1]
      BY <1>2, <1>4, <1>7, <1>8, <3>1
    <3>3. /\ at[i + 1] = at[i] + Len(Code(added[i]))
          /\ \A j \in 1 .. Len(Code(added[i])) : buffer[at[i] + j] = Code(added[i])[j]
          /\ added[i].kind = "basic" => Len(added[i].value) = Width
      BY <1>1, <3>1 DEF Laid, n
    <3>4. Len(Code(added[i])) \in Nat /\ at[i] \in Nat /\ at[i + 1] <= Len(buffer)
      <4>1. added[i] \in Field
        BY <1>2, <3>1, ElementOfSeq DEF n
      <4>2. Code(added[i]) \in Seq(Nat)
        BY <4>1, CodeOfField
      <4>3. at[i] \in 0 .. Len(buffer) /\ at[i + 1] \in 0 .. Len(buffer)
        <5>1. i \in 1 .. n + 1
          OBVIOUS
        <5> QED
          BY <1>7, <3>1, <5>1
      <4> QED
        BY <1>2, <4>2, <4>3
    <3>5. ASSUME NEW j \in 1 .. Len(Code(added[i]))
          PROVE  buffer'[at[i] + j] = Code(added[i])[j]
      <4> DEFINE m == Len(Code(added[i]))
      <4>0. j \in 1 .. m /\ m \in Nat /\ at[i + 1] = at[i] + m
        BY <3>3, <3>4
      <4> HIDE DEF m
      <4>1. at[i] + j \in 1 .. Len(buffer)
        <5>1. ASSUME NEW x \in Nat, NEW l \in Nat, x + m <= l PROVE x + j \in 1 .. l
          BY <4>0, <5>1
        <5>2. at[i] + m <= Len(buffer)
          BY <3>4, <4>0
        <5> QED
          BY <1>2, <3>4, <5>1, <5>2
      <4> QED
        BY <1>3, <3>3, <4>1
    <3> QED
      BY <3>2, <3>3, <3>5
  <2> QED
    BY <2>1, <2>2
<1>10. Laid(next)'
  <2>1. Len(added') = n + 1 /\ Len(added') + 1 = n + 2
    BY <1>2a, <1>4
  <2>2. next[1] = 0
    <3>1. 1 \in 1 .. n + 1
      BY <1>2a
    <3> QED
      BY <1>7, <1>8, <3>1
  <2> QED
    BY <1>8, <1>9, <2>1, <2>2 DEF Laid
<1>11. Aligned(next)'
  <2>1. got \in Seq(Seq(Nat)) /\ Len(got) \in Nat
    BY DEF FieldsLaid, FieldTypes
  <2>2. aligned => /\ Len(got) <= n /\ iterator = at[Len(got) + 1]
                   /\ \A i \in 1 .. Len(got) : got[i] = added[i].value
    BY <1>1 DEF Aligned, n
  <2>3. aligned => next[Len(got) + 1] = at[Len(got) + 1]
    BY <1>2, <1>7, <1>8, <2>1, <2>2
  <2>4. aligned => \A i \in 1 .. Len(got) : added'[i] = added[i]
    BY <1>2, <1>4, <2>1, <2>2
  <2> QED
    <3>1. Len(added') = n + 1 /\ (Len(got) <= n => Len(got) <= n + 1)
      BY <1>2a, <1>4, <2>1
    <3>2. aligned => \A i \in 1 .. Len(got) : got[i] = added'[i].value
      BY <2>2, <2>4
    <3> QED
      BY <1>5, <2>2, <2>3, <3>1, <3>2 DEF Aligned
<1> QED
  BY <1>6, <1>10, <1>11 DEF FieldsLaid

(* A call that takes n bytes after skip of them takes the next field, if it *)
(* is the call for that field.                                              *)
LEMMA TakeReads ==
  ASSUME FieldsLaid, NEW skip \in {0, 1}, NEW n \in Nat, NEW kind \in Kinds,
         skip = (IF kind = "variable" THEN 1 ELSE 0),
         kind = "basic" => n = Width,
         kind = "variable" => n = buffer[iterator + 1],
         kind # "bytes",
         iterator + skip + n <= Len(buffer),
         F!Take(skip, n, kind)
  PROVE  FieldsLaid'
<1>1. PICK at : Laid(at) /\ Aligned(at)
  BY DEF FieldsLaid
<1>2. /\ buffer \in Seq(Nat) /\ added \in Seq(Field) /\ got \in Seq(Seq(Nat))
      /\ Len(buffer) \in Nat /\ Len(added) \in Nat /\ Len(got) \in Nat
      /\ iterator \in Nat /\ aligned \in BOOLEAN
  BY DEF FieldsLaid, FieldTypes
<1> DEFINE next == Len(got) + 1
           taken == SubSeq(buffer, iterator + skip + 1, iterator + skip + n)
<1>3. /\ iterator' = iterator + skip + n /\ buffer' = buffer /\ added' = added
      /\ aligned' = (/\ aligned /\ next <= Len(added) /\ added[next].kind = kind
                     /\ kind = "fixed" => n = Len(added[next].value))
      /\ got' = IF aligned' THEN Append(got, taken) ELSE <<>>
  BY DEF F!Take
<1>4. aligned' \in BOOLEAN
  BY <1>3
<1>5. /\ taken \in Seq(Nat) /\ Len(taken) = n
      /\ \A i \in 1 .. n : taken[i] = buffer[iterator + skip + i]
  <2> DEFINE from == iterator + skip + 1
             to == iterator + skip + n
  <2>1. from \in Int /\ to \in Int /\ \A i \in from .. to : i \in 1 .. Len(buffer)
    BY <1>2
  <2>2. \A i \in from .. to : buffer[i] \in Nat
    BY <1>2, <2>1, ElementOfSeq
  <2>3. (IF from <= to THEN to - from + 1 ELSE 0) = n /\ to - from + 1 = n
    BY <1>2
  <2>4. \A i \in 1 .. n : from + i - 1 = iterator + skip + i
    BY <1>2
  <2> HIDE DEF from, to
  <2>5. /\ SubSeq(buffer, from, to) \in Seq(Nat)
        /\ Len(SubSeq(buffer, from, to)) = IF from <= to THEN to - from + 1 ELSE 0
        /\ \A i \in 1 .. to - from + 1 : SubSeq(buffer, from, to)[i] = buffer[from + i - 1]
    BY <2>1, <2>2, SubSeqProperties
  <2>6. taken = SubSeq(buffer, from, to)
    BY DEF from, to
  <2> QED
    BY <2>3, <2>4, <2>5, <2>6
<1>5a. next \in Nat
  BY <1>2
<1> HIDE DEF taken, next
<1>6. got' \in Seq(Seq(Nat))
  BY <1>2, <1>3, <1>5
<1>7. FieldTypes'
  BY <1>2, <1>3, <1>4, <1>6 DEF FieldsLaid, FieldTypes
<1>8. Laid(at)'
  BY <1>1, <1>3 DEF Laid
<1>9. ASSUME aligned' PROVE Aligned(at)'
  <2>1. /\ aligned /\ next \in 1 .. Len(added) /\ added[next].kind = kind
        /\ kind = "fixed" => n = Len(added[next].value)
    <3>1. next >= 1
      BY <1>2 DEF next
    <3> QED
      <4>1. /\ aligned /\ next <= Len(added) /\ added[next].kind = kind
            /\ kind = "fixed" => n = Len(added[next].value)
        BY <1>3, <1>9
      <4>2. next \in 1 .. Len(added)
        BY <1>2, <1>5a, <3>1, <4>1
      <4> QED
        BY <4>1, <4>2
  <2>2. /\ iterator = at[next] /\ \A i \in 1 .. Len(got) : got[i] = added[i].value
    BY <1>1, <2>1 DEF Aligned, next
  <2> DEFINE f == added[next]
  <2>3. f \in Field /\ f.value \in Seq(Nat) /\ Len(f.value) \in Nat
    <3>1. f \in Field
      BY <1>2, <2>1, ElementOfSeq
    <3> HIDE DEF f
    <3> QED
      BY <3>1 DEF Field
  <2>4. /\ at[next + 1] = iterator + Len(Code(f))
        /\ \A j \in 1 .. Len(Code(f)) : buffer[iterator + j] = Code(f)[j]
        /\ f.kind = "basic" => Len(f.value) = Width
    BY <1>1, <2>1, <2>2 DEF Laid
  <2>4a. f.kind = kind /\ (kind = "fixed" => n = Len(f.value))
    BY <2>1
  <2> HIDE DEF f
  <2>5. n = Len(f.value)
    <3>1. CASE kind = "variable"
      <4>1. Len(Code(f)) = Len(f.value) + 1 /\ Code(f)[1] = Len(f.value)
        BY <2>3, <2>4a, <3>1, CodeOfField
      <4>2. 1 \in 1 .. Len(Code(f))
        BY <2>3, <4>1
      <4> QED
        BY <2>4, <3>1, <4>1, <4>2
    <3>2. CASE kind \in {"basic", "fixed"}
      BY <2>4, <2>4a, <3>2
    <3> QED
      BY <3>1, <3>2 DEF Kinds
  <2>6. Len(Code(f)) = skip + n
    <3>1. CASE kind = "variable"
      BY <2>3, <2>4a, <2>5, <3>1, CodeOfField
    <3>2. CASE kind # "variable"
      BY <2>3, <2>4a, <2>5, <3>2, CodeOfField
    <3> QED
      BY <3>1, <3>2
  <2>7. \A i \in 1 .. n : buffer[iterator + skip + i] = f.value[i]
    <3>1. CASE kind = "variable"
      <4>1. \A j \in 1 .. n : Code(f)[j + 1] = f.value[j]
        BY <2>3, <2>4a, <2>5, <3>1, CodeOfField
      <4>2. ASSUME NEW i \in 1 .. n PROVE buffer[iterator + skip + i] = f.value[i]
        <5>1. i + 1 \in 1 .. Len(Code(f)) /\ iterator + skip + i = iterator + (i + 1)
          BY <1>2, <2>6, <3>1
        <5> QED
          BY <2>4, <4>1, <5>1
      <4> QED
        BY <4>2
    <3>2. CASE kind # "variable"
      <4>1. Code(f) = f.value
        BY <2>3, <2>4a, <3>2, CodeOfField
      <4>2. ASSUME NEW i \in 1 .. n PROVE buffer[iterator + skip + i] = f.value[i]
        <5>1. i \in 1 .. Len(Code(f)) /\ iterator + skip + i = iterator + i
          BY <1>2, <2>6, <3>2
        <5> QED
          BY <2>4, <4>1, <5>1
      <4> QED
        BY <4>2
    <3> QED
      BY <3>1, <3>2
  <2>8. taken = f.value
    BY <1>5, <2>3, <2>5, <2>7, SeqEqual
  <2>9. /\ Len(got') = next /\ got'[next] = f.value
        /\ \A i \in 1 .. Len(got) : got'[i] = got[i]
    <3>1. got' = Append(got, f.value)
      BY <1>3, <1>9, <2>8
    <3> QED
      BY <1>2, <2>3, <3>1 DEF next
  <2>10. iterator' = at[next + 1]
    BY <1>2, <1>3, <2>4, <2>6
  <2>11. ASSUME NEW i \in 1 .. next PROVE got'[i] = added[i].value
    <3>1. CASE i = next
      BY <2>9, <3>1 DEF f
    <3>2. CASE i # next
      <4>1. i \in 1 .. Len(got)
        BY <1>2, <3>2 DEF next
      <4> QED
        BY <2>2, <2>9, <4>1
    <3> QED
      BY <3>1, <3>2
  <2> QED
    BY <1>3, <1>5a, <2>1, <2>9, <2>10, <2>11 DEF Aligned
<1>10. Aligned(at)'
  BY <1>9 DEF Aligned
<1> QED
  BY <1>7, <1>8, <1>10 DEF FieldsLaid

(* A buffer of one field, or of none, is laid.                              *)
LEMMA OneFieldLaid ==
  ASSUME NEW bytes \in Seq(Nat), Len(bytes) <= MaxLen, buffer' = bytes,
         \/ added' = <<[kind |-> "bytes", value |-> bytes]>>
         \/ added' = <<>> /\ bytes = <<>>,
         iterator' = 0, got' = <<>>, aligned' = TRUE
  PROVE  FieldsLaid'
<1> DEFINE f == [kind |-> "bytes", value |-> bytes]
<1>1. f \in Field /\ Code(f) = bytes /\ Len(bytes) \in Nat /\ f.kind # "basic"
  BY DEF Field, Kinds, Code
<1>2. CASE added' = <<f>>
  <2> DEFINE at == [i \in 1 .. 2 |-> IF i = 1 THEN 0 ELSE Len(bytes)]
  <2>1. added' \in Seq(Field) /\ Len(added') = 1 /\ added'[1] = f
    BY <1>1, <1>2
  <2>2. at \in [1 .. 2 -> 0 .. Len(bytes)] /\ at[1] = 0 /\ at[2] = Len(bytes)
    BY <1>1
  <2>3. Laid(at)'
    BY <1>1, <2>1, <2>2 DEF Laid
  <2>4. Aligned(at)' /\ FieldTypes'
    BY <1>1, <2>1, <2>2 DEF Aligned, FieldTypes
  <2> QED
    BY <2>3, <2>4 DEF FieldsLaid
<1>3. CASE added' = <<>> /\ bytes = <<>>
  <2> DEFINE at == [i \in 1 .. 1 |-> 0]
  <2>1. Laid(at)' /\ Aligned(at)' /\ FieldTypes'
    BY <1>3 DEF Laid, Aligned, FieldTypes
  <2> QED
    BY <2>1 DEF FieldsLaid
<1> QED
  BY <1>2, <1>3

(* What is added is a sequence of numbers.                                  *)
LEMMA ValuesAreBytes ==
  ASSUME NEW n, NEW v \in SeqsUpTo({0, 1}, n) PROVE v \in Seq(Nat)
<1>1. PICK m \in 0 .. n : v \in [1 .. m -> {0, 1}]
  BY DEF SeqsUpTo
<1>2. m \in Nat
  BY <1>1
<1>3. v \in [1 .. m -> Nat]
  BY <1>1
<1> QED
  BY <1>2, <1>3, SeqDef

(* A basic, a variable or a fixed field, as add_field() puts it             *)
LEMMA AddBasicLays ==
  ASSUME FieldsLaid, NEW v \in Seq(Nat), F!AddBasic(v) PROVE FieldsLaid'
<1>1. F!Put(v, "basic", v) /\ Len(v) = Width /\ Len(buffer) + Len(v) <= MaxLen
  BY DEF F!AddBasic, F!Fits
<1>2. v = Code([kind |-> "basic", value |-> v]) /\ "basic" \in Kinds
  BY DEF Code, Kinds
<1> QED
  BY <1>1, <1>2, PutLays

LEMMA AddFixedLays ==
  ASSUME FieldsLaid, NEW v \in Seq(Nat), F!Fits(Len(v)), F!Put(v, "fixed", v) PROVE FieldsLaid'
<1>1. v = Code([kind |-> "fixed", value |-> v]) /\ "fixed" \in Kinds
  BY DEF Code, Kinds
<1>2. Len(buffer) + Len(v) <= MaxLen
  BY DEF F!Fits
<1> QED
  BY <1>1, <1>2, PutLays

LEMMA AddVariableLays ==
  ASSUME FieldsLaid, NEW v \in Seq(Nat), F!AddVariable(v) PROVE FieldsLaid'
<1> DEFINE f == [kind |-> "variable", value |-> v]
<1>1. f \in Field /\ f.kind = "variable" /\ f.value = v /\ "variable" \in Kinds
  BY DEF Field, Kinds
<1>2. Code(f) = F!Packed(v)
  BY DEF Code
<1> HIDE DEF f
<1>3. F!Packed(v) \in Seq(Nat) /\ Len(F!Packed(v)) = Len(v) + 1
  BY <1>1, <1>2, CodeOfField
<1>4. F!Put(F!Packed(v), "variable", v) /\ Len(buffer) + Len(F!Packed(v)) <= MaxLen
  BY <1>3 DEF F!AddVariable, F!Fits
<1>5. F!Packed(v) = Code([kind |-> "variable", value |-> v])
  BY <1>2 DEF f
<1> QED
  BY <1>1, <1>3, <1>4, <1>5, PutLays

(* A field of a given length is cut to it, or padded, as far as it fits.    *)
LEMMA AddPaddedLays ==
  ASSUME FieldsLaid, NEW v \in Seq(Nat), NEW len_ \in Nat, NEW pad \in Nat,
         F!AddPadded(v, len_, pad)
  PROVE  FieldsLaid'
<1>1. Len(v) \in Nat /\ Len(buffer) \in Nat /\ Len(buffer) <= MaxLen /\ MaxLen \in Nat
  BY FieldsAssumption DEF FieldsLaid, FieldTypes
<1>2. CASE Len(v) >= len_ /\ F!AddFixed(SubSeq(v, 1, len_))
  <2>1. \A i \in 1 .. len_ : v[i] \in Nat
    <3>1. \A i \in 1 .. len_ : i \in 1 .. Len(v)
      BY <1>1, <1>2
    <3> QED
      BY <3>1, ElementOfSeq
  <2>2. SubSeq(v, 1, len_) \in Seq(Nat)
    BY <2>1, SubSeqProperties
  <2> QED
    BY <1>2, <2>2, AddFixedLays DEF F!AddFixed
<1>3. CASE ~(Len(v) >= len_ /\ F!AddFixed(SubSeq(v, 1, len_)))
  <2> DEFINE room == MaxLen - Len(buffer)
             last_ == IF len_ <= room THEN len_ ELSE room
             padded == [i \in 1 .. last_ |-> IF i <= Len(v) THEN v[i] ELSE pad]
  <2>1. F!Put(padded, "fixed", padded)
    BY <1>3 DEF F!AddPadded
  <2>2. last_ \in Nat /\ Len(buffer) + last_ <= MaxLen
    BY <1>1
  <2> HIDE DEF last_
  <2>3. ASSUME NEW i \in 1 .. last_ PROVE (IF i <= Len(v) THEN v[i] ELSE pad) \in Nat
    <3>1. CASE i <= Len(v)
      <4>1. i \in 1 .. Len(v)
        BY <1>1, <2>2, <3>1
      <4> QED
        BY <3>1, <4>1, ElementOfSeq
    <3>2. CASE ~(i <= Len(v))
      BY <3>2
    <3> QED
      BY <3>1, <3>2
  <2>4. padded \in [1 .. last_ -> Nat]
    BY <2>3
  <2> HIDE DEF padded
  <2>5. padded \in Seq(Nat)
    BY <2>2, <2>4, SeqDef
  <2>6. Len(padded) = last_
    BY <2>2, <2>4
  <2> QED
    BY <2>1, <2>2, <2>5, <2>6, AddFixedLays DEF F!Fits
<1> QED
  BY <1>2, <1>3

(* insert() leaves the fields of a copy as they were, and one field of any  *)
(* other bytes.                                                             *)
LEMMA InsertLays ==
  ASSUME FieldsLaid, NEW bytes \in Seq(Nat), F!Insert(bytes) PROVE FieldsLaid'
<1>1. iterator' = 0 /\ got' = <<>> /\ aligned' = TRUE
  BY DEF F!Insert
<1>2. Len(bytes) \in Nat /\ MaxLen \in Nat
  BY FieldsAssumption
<1>3. CASE buffer' = buffer
  <2>1. added' = added
    BY <1>3 DEF F!Insert
  <2>2. PICK at : Laid(at)
    BY DEF FieldsLaid
  <2>3. Laid(at)' /\ at[1] = 0
    BY <1>3, <2>1, <2>2 DEF Laid
  <2>4. Len(added) \in Nat /\ Len(buffer) \in Nat
    BY DEF FieldsLaid, FieldTypes
  <2>5. Aligned(at)'
    BY <1>1, <2>1, <2>3, <2>4 DEF Aligned
  <2>6. FieldTypes'
    BY <1>1, <1>3, <2>1, <2>4 DEF FieldsLaid, FieldTypes
  <2> QED
    BY <2>3, <2>5, <2>6 DEF FieldsLaid
<1>4. CASE buffer' # buffer
  <2> DEFINE b == IF Len(bytes) > MaxLen THEN <<>> ELSE bytes
  <2>1. buffer' = b /\ added' = <<[kind |-> "bytes", value |-> b]>>
    BY <1>4 DEF F!Insert
  <2>2. b \in Seq(Nat) /\ Len(b) <= MaxLen
    BY <1>2
  <2> HIDE DEF b
  <2> QED
    BY <1>1, <2>1, <2>2, OneFieldLaid
<1> QED
  BY <1>3, <1>4

LEMMA FieldsInit == F!Init => FieldsLaid
<1> SUFFICES ASSUME F!Init PROVE FieldsLaid
  OBVIOUS
<1>1. buffer = <<>> /\ iterator = 0 /\ added = <<>> /\ got = <<>> /\ aligned = TRUE
  BY DEF F!Init
<1> DEFINE at == [i \in 1 .. 1 |-> 0]
<1>2. Laid(at) /\ Aligned(at) /\ FieldTypes
  BY <1>1, FieldsAssumption DEF Laid, Aligned, FieldTypes
<1> QED
  BY <1>2 DEF FieldsLaid

LEMMA FieldsStep == FieldsLaid /\ [F!Next]_F!vars => FieldsLaid'
<1> SUFFICES ASSUME FieldsLaid, [F!Next]_F!vars PROVE FieldsLaid'
  OBVIOUS
<1>0. /\ buffer \in Seq(Nat) /\ Len(buffer) \in Nat /\ iterator \in Nat
      /\ MaxLen \in Nat /\ MaxField \in Nat /\ Width \in Nat
  BY FieldsAssumption DEF FieldsLaid, FieldTypes
<1>1. CASE UNCHANGED F!vars
  BY <1>1 DEF F!vars, FieldsLaid, FieldTypes, Laid, Aligned
<1>2. ASSUME NEW v \in SeqsUpTo({0, 1}, MaxField + 1),
             F!AddBasic(v) \/ F!AddVariable(v) \/ F!AddFixed(v)
      PROVE  FieldsLaid'
  BY <1>2, ValuesAreBytes, AddBasicLays, AddVariableLays, AddFixedLays DEF F!AddFixed
<1>3. ASSUME NEW bytes \in SeqsUpTo({0, 1}, MaxField + 1) \cup {buffer}, F!Insert(bytes)
      PROVE  FieldsLaid'
  <2>1. bytes \in Seq(Nat)
    BY <1>0, <1>3, ValuesAreBytes
  <2> QED
    BY <1>3, <2>1, InsertLays
<1>4. ASSUME NEW v \in SeqsUpTo({0, 1}, MaxField + 1), NEW n \in 0 .. MaxField + 1,
             NEW pad \in {0, 1}, F!AddPadded(v, n, pad)
      PROVE  FieldsLaid'
  <2>1. v \in Seq(Nat) /\ n \in Nat /\ pad \in Nat
    BY <1>0, ValuesAreBytes
  <2> QED
    BY <1>4, <2>1, AddPaddedLays
<1>5. CASE F!GetBasic
  <2>1. F!Take(0, Width, "basic") /\ iterator + 0 + Width <= Len(buffer)
    BY <1>0, <1>5 DEF F!GetBasic, F!Left
  <2> QED
    BY <1>0, <2>1, TakeReads DEF Kinds
<1>6. CASE F!GetVariable
  <2>1. iterator < Len(buffer) /\ buffer[iterator + 1] \in Nat
    <3>1. iterator < Len(buffer)
      BY <1>6 DEF F!GetVariable
    <3>2. iterator + 1 \in 1 .. Len(buffer)
      BY <1>0, <3>1
    <3> QED
      BY <1>0, <3>1, <3>2, ElementOfSeq
  <2>2. CASE F!Left(1 + F!Length) /\ F!Take(1, F!Length, "variable")
    <3>1. /\ F!Take(1, buffer[iterator + 1], "variable")
          /\ iterator + 1 + buffer[iterator + 1] <= Len(buffer)
      BY <1>0, <2>1, <2>2 DEF F!Left, F!Length
    <3> QED
      BY <2>1, <3>1, TakeReads DEF Kinds
  <2>3. CASE ~(F!Left(1 + F!Length) /\ F!Take(1, F!Length, "variable"))
    <3>1. /\ iterator' = iterator + 1 /\ aligned' = FALSE /\ got' = <<>>
          /\ buffer' = buffer /\ added' = added
      BY <1>6, <2>3 DEF F!GetVariable
    <3>2. FieldTypes'
      <4>1. iterator + 1 \in Nat /\ iterator + 1 <= Len(buffer)
        BY <1>0, <2>1
      <4>2. <<>> \in Seq(Seq(Nat)) /\ FALSE \in BOOLEAN
        OBVIOUS
      <4> QED
        BY <3>1, <4>1, <4>2 DEF FieldsLaid, FieldTypes
    <3>3. PICK at : Laid(at)
      BY DEF FieldsLaid
    <3>4. Laid(at)' /\ Aligned(at)'
      BY <3>1, <3>3 DEF Laid, Aligned
    <3> QED
      BY <3>2, <3>4 DEF FieldsLaid
  <2> QED
    BY <2>2, <2>3
<1>7. ASSUME NEW n \in 0 .. MaxLen, F!GetFixed(n) PROVE FieldsLaid'
  <2>1. F!Take(0, n, "fixed") /\ iterator + 0 + n <= Len(buffer) /\ n \in Nat
    BY <1>0, <1>7 DEF F!GetFixed, F!Left
  <2> QED
    BY <2>1, TakeReads DEF Kinds
<1>8. CASE F!GetReset
  <2>1. /\ iterator' = 0 /\ got' = <<>> /\ aligned' = TRUE
        /\ buffer' = buffer /\ added' = added
    BY <1>8 DEF F!GetReset
  <2>2. FieldTypes'
    BY <1>0, <2>1 DEF FieldsLaid, FieldTypes
  <2>3. PICK at : Laid(at)
    BY DEF FieldsLaid
  <2>4. Len(added) \in Nat
    BY DEF FieldsLaid, FieldTypes
  <2>5. Laid(at)' /\ Aligned(at)'
    BY <2>1, <2>3, <2>4 DEF Laid, Aligned
  <2> QED
    BY <2>2, <2>5 DEF FieldsLaid
<1>9. CASE F!Clear
  <2>1. /\ buffer' = <<>> /\ iterator' = 0 /\ added' = <<>> /\ got' = <<>> /\ aligned' = TRUE
    BY <1>9 DEF F!Clear
  <2>2. <<>> \in Seq(Nat) /\ Len(<<>>) <= MaxLen
    BY <1>0
  <2> QED
    BY <2>1, <2>2, OneFieldLaid
<1> QED
  BY <1>1, <1>2, <1>3, <1>4, <1>5, <1>6, <1>7, <1>8, <1>9 DEF F!Next

(* Fields come out of the buffer as they went in, whatever calls fail, are  *)
(* repeated or are made for another kind of field between them, and no call *)
(* writes or reads beyond the end: for any length of the buffer and of its  *)
(* fields (fields.cpp).                                                     *)
THEOREM FieldsReadBack == Spec => []ReadBack
<1>1. Init => FieldsLaid
  BY FieldsInit DEF Init
<1>2. FieldsLaid /\ [Next]_<<component, fields, log, config, clock, latency, stats, prompts,
                            json, hexdump, endpoint>> => FieldsLaid'
  BY FieldsMoves, FieldsStep
<1>3. FieldsLaid => ReadBack
  BY DEF FieldsLaid, FieldTypes, Aligned, ReadBack, F!ReadBack, F!FieldsBounded
<1> QED
  BY <1>1, <1>2, <1>3, PTL DEF Spec

-----------------------------------------------------------------------------
(* LogBuffer.  Every step is a step of LogBuffer or leaves it alone.        *)
LEMMA LogMoves == [Next]_<<component, fields, log, config, clock, latency, stats, prompts,
                           json, hexdump, endpoint>> => [L!Next]_L!vars
  BY DEF Next, log, L!vars

(* Between messages the log stands at the end of a line; within one it does *)
(* exactly when the copy does.                                              *)
LogStands ==
  /\ cptr \in 0 .. Size - 1 /\ high \in Nat /\ (HeaderLen <= Extra => high <= Size + Extra)
  /\ IF busy THEN c = "nl" <=> last = "nl" ELSE last = "nl"
  /\ broken = FALSE

LEMMA LogStep == LogStands /\ [L!Next]_L!vars => LogStands'
<1> SUFFICES ASSUME LogStands, [L!Next]_L!vars PROVE LogStands'
  OBVIOUS
<1> USE LogAssumption DEF LogStands
<1>1. CASE UNCHANGED L!vars
  BY <1>1 DEF L!vars
<1>2. ASSUME NEW message, L!Process(message) PROVE LogStands'
  BY <1>2 DEF L!Process
<1>3. CASE L!EnableBuffered \/ L!DisableBuffered \/ L!Flush
  BY <1>3 DEF L!EnableBuffered, L!DisableBuffered, L!Flush, L!Call
<1>4. CASE L!Copy
  <2> DEFINE start == IF c = "nl" THEN HeaderLen ELSE 0
             stop  == cptr + start + 1
  <2>1. /\ busy /\ busy' = busy /\ cptr' = (IF stop >= Size THEN 0 ELSE stop)
        /\ high' = (IF stop > high THEN stop ELSE high)
        /\ broken' = (broken \/ (c = "nl") # (last = "nl"))
        /\ c' = last'
    BY <1>4 DEF L!Copy, L!Full, L!Highest
  <2>2. stop \in Nat /\ (HeaderLen <= Extra => stop <= Size + Extra)
    OBVIOUS
  <2>3. broken' = FALSE
    BY <2>1
  <2>4. cptr' \in 0 .. Size - 1
    BY <2>1, <2>2
  <2>5. high' \in Nat /\ (HeaderLen <= Extra => high' <= Size + Extra)
    BY <2>1, <2>2
  <2> QED
    BY <2>1, <2>3, <2>4, <2>5
<1>5. CASE L!Finish
  <2> DEFINE stop == IF c # "nl" THEN cptr + 1 ELSE cptr
  <2>1. /\ busy /\ busy' = FALSE /\ broken' = broken
        /\ high' = (IF stop > high THEN stop ELSE high)
        /\ cptr' \in (IF ~buffered \/ stop >= Size THEN {0} ELSE {0, stop})
        /\ last' = (IF c # "nl" THEN "nl" ELSE last)
    BY <1>5 DEF L!Finish, L!EndsLine, L!Full, L!Highest
  <2>2. stop \in 0 .. Size
    OBVIOUS
  <2>3. cptr' \in 0 .. Size - 1
    BY <2>1, <2>2
  <2>4. high' \in Nat /\ (HeaderLen <= Extra => high' <= Size + Extra)
    BY <2>1, <2>2
  <2>5. last' = "nl"
    BY <2>1
  <2> QED
    BY <2>1, <2>3, <2>4, <2>5
<1> QED
  BY <1>1, <1>2, <1>3, <1>4, <1>5 DEF L!Next

-----------------------------------------------------------------------------
(* HexDump.  Every step is a step of HexDump or leaves it alone.            *)
LEMMA DumpMoves == [Next]_<<component, fields, log, config, clock, latency, stats, prompts,
                            json, hexdump, endpoint>> => [D!Next]_D!hexdump
  BY DEF Next, hexdump, D!hexdump

(* What the cell at an index of the whole dump is to be                     *)
RowLen == 4 * width + 5
Want(i) == LET r == (i - 1) \div RowLen
           IN D!RowCell(r, D!Least(width, len - r * width), ((i - 1) % RowLen) + 1)

CellKinds == {"high", "low", "space", "blank", "unset", "char", "bar", "newline"}
Cells == [kind : CellKinds, byte : Nat]
DumpTypes ==
  /\ len \in Nat /\ width \in Nat /\ left \in Nat /\ fill_len \in Nat /\ src \in Nat
  /\ left + fill_len + src = len
  /\ dst \in Seq(Cells) /\ out \in Seq(Cells)
  /\ h \in Nat /\ a \in Nat /\ tmp \in Nat /\ reach \in Nat

(* A dump whose rows are empty or do not fit never begins.                  *)
Stuck == left = len /\ fill_len = 0 /\ src = 0 /\ dst = <<>> /\ out = <<>> /\ reach = 0

(* Another is at the end of a row as long as bytes are left, and fills the  *)
(* buffer with whole rows unless they are the last bytes.                   *)
RowsWhole ==
  /\ left + fill_len > 0 =>
       \E r \in Nat : src = r * width /\ Len(out) + Len(dst) = r * RowLen
  /\ left > 0 => \E q \in Nat : fill_len = q * width

(* The buffer holds no more rows than it has room for.                      *)
BufferHolds ==
  /\ reach <= DumpSize
  /\ \E m \in 0 .. D!Rows :
       /\ Len(dst) <= m * RowLen
       /\ fill_len > 0 => Len(dst) = m * RowLen /\ m * width + fill_len <= D!max_chars

(* Every cell is as it is to be, but for the gap of a last, short row.      *)
CellsShown ==
  /\ a = Len(dst) /\ h <= tmp /\ tmp <= a /\ (fill_len > 0 => h = tmp)
  /\ \A i \in 1 .. Len(out) : out[i] = Want(i)
  /\ \A i \in 1 .. Len(dst) : IF i \in h + 1 .. tmp THEN Want(Len(out) + i) = D!Blank
                              ELSE dst[i] = Want(Len(out) + i)
Dumping == /\ DumpTypes
           /\ D!max_chars = 0 => Stuck
           /\ D!max_chars # 0 => RowsWhole /\ BufferHolds /\ CellsShown

(* The row of a cell, and its place in it                                   *)
LEMMA RowIndex ==
  ASSUME NEW r \in Nat, NEW n \in Nat \ {0}, NEW p \in 1 .. n
  PROVE  (r * n + p - 1) \div n = r /\ ((r * n + p - 1) % n) + 1 = p
<1> DEFINE i == r * n + p - 1
           q == i \div n
           m == i % n
<1>1. r * n \in Nat /\ i \in Nat /\ i = r * n + (p - 1) /\ p - 1 \in 0 .. n - 1
  OBVIOUS
<1> HIDE DEF i
<1>2. q \in Int /\ m \in 0 .. n - 1 /\ i = n * q + m
  BY <1>1
<1> HIDE DEF q, m
<1>3. ~(q < r)
  <2> SUFFICES ASSUME q < r PROVE FALSE
    OBVIOUS
  <2>1. q + 1 <= r
    BY <1>2
  <2>2. n * (q + 1) <= n * r
    BY <1>2, <2>1
  <2>3. n * (q + 1) = n * q + n /\ n * r = r * n
    BY <1>2
  <2> QED
    BY <1>1, <1>2, <2>2, <2>3
<1>4. ~(q > r)
  <2> SUFFICES ASSUME q > r PROVE FALSE
    OBVIOUS
  <2>1. r + 1 <= q
    BY <1>2
  <2>2. n * (r + 1) <= n * q
    BY <1>2, <2>1
  <2>3. n * (r + 1) = r * n + n
    OBVIOUS
  <2> QED
    BY <1>1, <1>2, <2>2, <2>3
<1>5. q = r
  BY <1>2, <1>3, <1>4
<1>6. m = p - 1
  <2>1. n * q = r * n
    BY <1>5
  <2> QED
    BY <1>1, <1>2, <2>1
<1> QED
  BY <1>5, <1>6 DEF i, q, m

LEMMA WantInRow ==
  ASSUME width \in Nat, NEW r \in Nat, NEW p \in 1 .. RowLen
  PROVE  Want(r * RowLen + p) = D!RowCell(r, D!Least(width, len - r * width), p)
<1>1. RowLen \in Nat \ {0}
  BY DEF RowLen
<1>2. (r * RowLen + p) - 1 = r * RowLen + p - 1
  BY <1>1
<1>3. /\ ((r * RowLen + p) - 1) \div RowLen = r
      /\ (((r * RowLen + p) - 1) % RowLen) + 1 = p
  BY <1>1, <1>2, RowIndex
<1> QED
  BY <1>3 DEF Want

(* Rows in the buffer, and the 0 after them, fit it.                        *)
LEMMA RowsFit ==
  ASSUME width \in Nat, D!max_chars # 0, NEW m \in 0 .. D!Rows
  PROVE  /\ D!Rows \in Nat \ {0} /\ width > 0 /\ m * RowLen \in Nat
         /\ m * RowLen + 1 <= DumpSize
<1> DEFINE k == D!Rows
           n == width * 4 + 6
<1>1. n \in Nat /\ n > 0 /\ n = RowLen + 1 /\ RowLen \in Nat
  BY DEF RowLen
<1>2. k = DumpSize \div n
  BY DEF D!Rows
<1> HIDE DEF n
<1>3. k \in Nat /\ k * n <= DumpSize
  <2>1. k \in Int /\ (DumpSize % n) \in 0 .. n - 1 /\ DumpSize = n * k + (DumpSize % n)
    BY <1>1, <1>2, DumpAssumption
  <2>2. k >= 0
    BY <1>1, <1>2, DumpAssumption
  <2> QED
    BY <1>1, <2>1, <2>2
<1> HIDE DEF k
<1>4. k * width # 0
  BY DEF D!max_chars, k
<1>5. k > 0 /\ width > 0
  BY <1>3, <1>4
<1>6. m \in Nat /\ m <= k
  BY <1>3 DEF k
<1>7. m * RowLen <= k * RowLen
  BY <1>1, <1>3, <1>6
<1>8. k * n = k * RowLen + k
  BY <1>1, <1>3
<1>9. m * RowLen \in Nat /\ k * RowLen \in Nat
  BY <1>1, <1>3, <1>6
<1>10. m * RowLen + 1 <= DumpSize
  BY <1>3, <1>5, <1>7, <1>8, <1>9, DumpAssumption
<1> QED
  BY <1>3, <1>5, <1>9, <1>10 DEF k

(* The parts of a sequence of six, one after the other                      *)
LEMMA Joined ==
  ASSUME NEW Items, NEW s \in Seq(Items), NEW t \in Seq(Items)
  PROVE  /\ s \o t \in Seq(Items) /\ Len(s \o t) = Len(s) + Len(t)
         /\ \A i \in 1 .. Len(s) : (s \o t)[i] = s[i]
         /\ \A i \in 1 .. Len(t) : (s \o t)[Len(s) + i] = t[i]
<1>1. Len(s) \in Nat /\ Len(t) \in Nat
  OBVIOUS
<1>2. ASSUME NEW i \in 1 .. Len(s) PROVE (s \o t)[i] = s[i]
  <2>1. i \in 1 .. Len(s) + Len(t) /\ i <= Len(s)
    BY <1>1
  <2> QED
    BY <2>1, ConcatProperties
<1>3. ASSUME NEW i \in 1 .. Len(t) PROVE (s \o t)[Len(s) + i] = t[i]
  <2>1. /\ Len(s) + i \in 1 .. Len(s) + Len(t) /\ ~(Len(s) + i <= Len(s))
        /\ (Len(s) + i) - Len(s) = i
    BY <1>1
  <2> QED
    BY <2>1, ConcatProperties
<1> QED
  BY <1>2, <1>3, ConcatProperties

SixKept(Items, d, hex, gap, bars, chars, ends) ==
  LET s1 == d \o hex   s2 == s1 \o gap   s3 == s2 \o bars   s4 == s3 \o chars
      row == s4 \o ends
  IN
  /\ row \in Seq(Items)
  /\ Len(s1) = Len(d) + Len(hex) /\ Len(s2) = Len(s1) + Len(gap)
  /\ Len(s3) = Len(s2) + Len(bars) /\ Len(s4) = Len(s3) + Len(chars)
  /\ Len(row) = Len(s4) + Len(ends)
  /\ \A i \in 1 .. Len(d) : row[i] = d[i]
  /\ \A i \in 1 .. Len(hex) : row[Len(d) + i] = hex[i]
  /\ \A i \in 1 .. Len(bars) : row[Len(s2) + i] = bars[i]
  /\ \A i \in 1 .. Len(chars) : row[Len(s3) + i] = chars[i]
  /\ \A i \in 1 .. Len(ends) : row[Len(s4) + i] = ends[i]

LEMMA SixJoined ==
  ASSUME NEW Items, NEW d \in Seq(Items), NEW hex \in Seq(Items), NEW gap \in Seq(Items),
         NEW bars \in Seq(Items), NEW chars \in Seq(Items), NEW ends \in Seq(Items)
  PROVE  SixKept(Items, d, hex, gap, bars, chars, ends)
<1> DEFINE s1 == d \o hex   s2 == s1 \o gap   s3 == s2 \o bars   s4 == s3 \o chars
           row == s4 \o ends
<1>0. /\ s1 = d \o hex /\ s2 = s1 \o gap /\ s3 = s2 \o bars /\ s4 = s3 \o chars
      /\ row = s4 \o ends
  OBVIOUS
<1> HIDE DEF s1, s2, s3, s4, row
<1>1. /\ s1 \in Seq(Items) /\ Len(s1) = Len(d) + Len(hex)
      /\ \A i \in 1 .. Len(d) : s1[i] = d[i]
      /\ \A i \in 1 .. Len(hex) : s1[Len(d) + i] = hex[i]
  BY <1>0, Joined
<1>2. /\ s2 \in Seq(Items) /\ Len(s2) = Len(s1) + Len(gap)
      /\ \A i \in 1 .. Len(s1) : s2[i] = s1[i]
  BY <1>0, <1>1, Joined
<1>3. /\ s3 \in Seq(Items) /\ Len(s3) = Len(s2) + Len(bars)
      /\ \A i \in 1 .. Len(s2) : s3[i] = s2[i]
      /\ \A i \in 1 .. Len(bars) : s3[Len(s2) + i] = bars[i]
  BY <1>0, <1>2, Joined
<1>4. /\ s4 \in Seq(Items) /\ Len(s4) = Len(s3) + Len(chars)
      /\ \A i \in 1 .. Len(s3) : s4[i] = s3[i]
      /\ \A i \in 1 .. Len(chars) : s4[Len(s3) + i] = chars[i]
  BY <1>0, <1>3, Joined
<1>5. /\ row \in Seq(Items) /\ Len(row) = Len(s4) + Len(ends)
      /\ \A i \in 1 .. Len(s4) : row[i] = s4[i]
      /\ \A i \in 1 .. Len(ends) : row[Len(s4) + i] = ends[i]
  BY <1>0, <1>4, Joined
<1>6. /\ Len(d) \in Nat /\ Len(hex) \in Nat /\ Len(gap) \in Nat /\ Len(bars) \in Nat
      /\ Len(chars) \in Nat /\ Len(s1) \in Nat /\ Len(s2) \in Nat /\ Len(s3) \in Nat
      /\ Len(s4) \in Nat
  BY <1>1, <1>2, <1>3, <1>4
<1>7. /\ Len(d) <= Len(s1) /\ Len(s1) <= Len(s2) /\ Len(s2) <= Len(s3) /\ Len(s3) <= Len(s4)
  BY <1>1, <1>2, <1>3, <1>4, <1>6
<1>8. \A i \in 1 .. Len(s3) : row[i] = s3[i]
  <2>1. \A i \in 1 .. Len(s3) : i \in 1 .. Len(s4)
    BY <1>6, <1>7
  <2> QED
    BY <1>4, <1>5, <2>1
<1>9. \A i \in 1 .. Len(s2) : row[i] = s2[i]
  <2>1. \A i \in 1 .. Len(s2) : i \in 1 .. Len(s3)
    BY <1>6, <1>7
  <2> QED
    BY <1>3, <1>8, <2>1
<1>10. \A i \in 1 .. Len(s1) : row[i] = s1[i]
  <2>1. \A i \in 1 .. Len(s1) : i \in 1 .. Len(s2)
    BY <1>6, <1>7
  <2> QED
    BY <1>2, <1>9, <2>1
<1>11. \A i \in 1 .. Len(d) : row[i] = d[i]
  <2>1. \A i \in 1 .. Len(d) : i \in 1 .. Len(s1)
    BY <1>6, <1>7
  <2> QED
    BY <1>1, <1>10, <2>1
<1>12. \A i \in 1 .. Len(hex) : row[Len(d) + i] = hex[i]
  <2>1. \A i \in 1 .. Len(hex) : Len(d) + i \in 1 .. Len(s1)
    BY <1>1, <1>6
  <2> QED
    BY <1>1, <1>10, <2>1
<1>13. \A i \in 1 .. Len(bars) : row[Len(s2) + i] = bars[i]
  <2>1. \A i \in 1 .. Len(bars) : Len(s2) + i \in 1 .. Len(s3)
    BY <1>3, <1>6
  <2> QED
    BY <1>3, <1>8, <2>1
<1>14. \A i \in 1 .. Len(chars) : row[Len(s3) + i] = chars[i]
  <2>1. \A i \in 1 .. Len(chars) : Len(s3) + i \in 1 .. Len(s4)
    BY <1>4, <1>6
  <2> QED
    BY <1>4, <1>5, <2>1
<1> QED
  BY <1>1, <1>2, <1>3, <1>4, <1>5, <1>11, <1>12, <1>13, <1>14 DEF SixKept, s1, s2, s3, s4, row

(* The parts of a row are cells.                                            *)
HexPart(x, from) == [i \in 1 .. 3 * x |->
                       D!Cell(D!Part[((i - 1) % 3) + 1], from + (i + 2) \div 3)]
GapPart(k) == [i \in 1 .. k |-> D!Unset]
CharPart(x, from) == [i \in 1 .. x |-> D!Cell("char", from + i)]
BarPart == <<D!Blank, D!Blank, D!Cell("bar", 0)>>
EndPart == <<D!Cell("bar", 0), D!Cell("newline", 0)>>

LEMMA CellType == ASSUME NEW kind \in CellKinds, NEW byte \in Nat PROVE D!Cell(kind, byte) \in Cells
  BY DEF D!Cell, Cells

LEMMA HexType ==
  ASSUME NEW x \in Nat, NEW from \in Nat
  PROVE  HexPart(x, from) \in Seq(Cells) /\ Len(HexPart(x, from)) = 3 * x
<1> DEFINE n == 3 * x
<1>1. n \in Nat
  OBVIOUS
<1> HIDE DEF n
<1>2. ASSUME NEW i \in 1 .. n
      PROVE  D!Cell(D!Part[((i - 1) % 3) + 1], from + (i + 2) \div 3) \in Cells
  <2> DEFINE j == ((i - 1) % 3) + 1
             b == from + (i + 2) \div 3
  <2>1. j \in {1, 2, 3}
    BY <1>1
  <2>2. b \in Nat
    BY <1>1
  <2> HIDE DEF j, b
  <2>3. D!Part[j] \in CellKinds
    BY <2>1 DEF D!Part, CellKinds
  <2>4. D!Cell(D!Part[j], b) \in Cells
    BY <2>2, <2>3, CellType
  <2> QED
    BY <2>4 DEF j, b
<1> DEFINE f == [i \in 1 .. n |-> D!Cell(D!Part[((i - 1) % 3) + 1], from + (i + 2) \div 3)]
<1>3. f \in [1 .. n -> Cells]
  BY <1>2
<1>4. f = HexPart(x, from)
  BY DEF HexPart, n
<1> HIDE DEF f
<1>5. f \in Seq(Cells)
  BY <1>1, <1>3, SeqDef
<1>6. Len(f) = n
  BY <1>1, <1>3
<1> QED
  BY <1>4, <1>5, <1>6 DEF n

LEMMA CharType ==
  ASSUME NEW x \in Nat, NEW from \in Nat
  PROVE  CharPart(x, from) \in Seq(Cells) /\ Len(CharPart(x, from)) = x
<1>1. ASSUME NEW i \in 1 .. x PROVE D!Cell("char", from + i) \in Cells
  BY CellType DEF CellKinds
<1>2. CharPart(x, from) \in [1 .. x -> Cells]
  BY <1>1 DEF CharPart
<1> QED
  BY <1>2, SeqDef

LEMMA GapType ==
  ASSUME NEW k \in Nat PROVE GapPart(k) \in Seq(Cells) /\ Len(GapPart(k)) = k
<1>1. D!Unset \in Cells
  BY CellType DEF D!Unset, CellKinds
<1>2. GapPart(k) \in [1 .. k -> Cells]
  BY <1>1 DEF GapPart
<1> QED
  BY <1>2, SeqDef

LEMMA BarType ==
  /\ BarPart \in Seq(Cells) /\ Len(BarPart) = 3
  /\ BarPart[1] = D!Blank /\ BarPart[2] = D!Blank /\ BarPart[3] = D!Cell("bar", 0)
  /\ EndPart \in Seq(Cells) /\ Len(EndPart) = 2
  /\ EndPart[1] = D!Cell("bar", 0) /\ EndPart[2] = D!Cell("newline", 0)
<1>1. D!Blank \in Cells /\ D!Cell("bar", 0) \in Cells /\ D!Cell("newline", 0) \in Cells
  BY CellType DEF D!Blank, CellKinds
<1> QED
  BY <1>1 DEF BarPart, EndPart

(* The cells of a row, as they are to be                                    *)
LEMMA RowCells ==
  ASSUME width \in Nat, NEW x \in 0 .. width, NEW r, NEW p \in Nat \ {0}
  PROVE  /\ p <= 3 * x =>
              D!RowCell(r, x, p) = D!Cell(D!Part[((p - 1) % 3) + 1], r * width + (p + 2) \div 3)
         /\ p \in 3 * x + 1 .. 3 * width + 2 => D!RowCell(r, x, p) = D!Blank
         /\ p = 3 * width + 3 => D!RowCell(r, x, p) = D!Cell("bar", 0)
         /\ p \in 3 * width + 4 .. 3 * width + 3 + x =>
              D!RowCell(r, x, p) = D!Cell("char", r * width + p - 3 * width - 3)
         /\ p = 3 * width + 4 + x => D!RowCell(r, x, p) = D!Cell("bar", 0)
         /\ p = 3 * width + 5 + x => D!RowCell(r, x, p) = D!Cell("newline", 0)
<1> DEFINE A == p <= 3 * x
           B == p \in 3 * x + 1 .. 3 * width + 2
           K == p = 3 * width + 3
           M == p \in 3 * width + 4 .. 3 * width + 3 + x
           N == p = 3 * width + 4 + x
           O == p = 3 * width + 5 + x
<1>1. /\ A => ~B /\ ~K /\ ~M /\ ~N /\ ~O
      /\ B => ~A /\ ~K /\ ~M /\ ~N /\ ~O
      /\ K => ~A /\ ~B /\ ~M /\ ~N /\ ~O
      /\ M => ~A /\ ~B /\ ~K /\ ~N /\ ~O
      /\ N => ~A /\ ~B /\ ~K /\ ~M /\ ~O
      /\ O => ~A /\ ~B /\ ~K /\ ~M /\ ~N
  OBVIOUS
<1>2. D!RowCell(r, x, p) =
        CASE A -> D!Cell(D!Part[((p - 1) % 3) + 1], r * width + (p + 2) \div 3)
          [] B -> D!Blank
          [] K -> D!Cell("bar", 0)
          [] M -> D!Cell("char", r * width + p - 3 * width - 3)
          [] N -> D!Cell("bar", 0)
          [] O -> D!Cell("newline", 0)
  BY DEF D!RowCell
<1>3. /\ A => D!RowCell(r, x, p) = D!Cell(D!Part[((p - 1) % 3) + 1], r * width + (p + 2) \div 3)
      /\ B => D!RowCell(r, x, p) = D!Blank
      /\ K => D!RowCell(r, x, p) = D!Cell("bar", 0)
      /\ M => D!RowCell(r, x, p) = D!Cell("char", r * width + p - 3 * width - 3)
      /\ N => D!RowCell(r, x, p) = D!Cell("bar", 0)
      /\ O => D!RowCell(r, x, p) = D!Cell("newline", 0)
  <2> HIDE DEF A, B, K, M, N, O
  <2> QED
    BY <1>1, <1>2
<1> QED
  BY <1>3

(* What a row adds to the buffer: its cells, but for those of the gap       *)
RowOf(d, x, from) ==
  d \o HexPart(x, from) \o GapPart(3 * (width - x)) \o BarPart \o CharPart(x, from) \o EndPart

RowKept(d, x, r, row) ==
  /\ row \in Seq(Cells) /\ Len(row) = Len(d) + 3 * width + 5 + x
  /\ \A i \in 1 .. Len(d) : row[i] = d[i]
  /\ \A p \in 1 .. 3 * width + 5 + x :
       p \in 3 * x + 1 .. 3 * width \/ row[Len(d) + p] = D!RowCell(r, x, p)

LEMMA RowAppended ==
  ASSUME width \in Nat, NEW x \in 0 .. width, NEW r \in Nat, NEW d \in Seq(Cells)
  PROVE  RowKept(d, x, r, RowOf(d, x, r * width))
<1> DEFINE from  == r * width
           hex   == HexPart(x, from)
           gap   == GapPart(3 * (width - x))
           chars == CharPart(x, from)
           s1    == d \o hex
           s2    == s1 \o gap
           s3    == s2 \o BarPart
           s4    == s3 \o chars
           row   == s4 \o EndPart
           n     == Len(d)
<1>1. x \in Nat /\ from \in Nat /\ 3 * (width - x) \in Nat /\ n \in Nat
  <2>1. width - x \in Nat
    OBVIOUS
  <2>2. r * width \in Nat
    OBVIOUS
  <2> QED
    BY <2>1, <2>2
<1>2. row = RowOf(d, x, r * width)
  BY DEF RowOf
<1>3. hex \in Seq(Cells) /\ Len(hex) = 3 * x
  BY <1>1, HexType
<1>4. gap \in Seq(Cells) /\ Len(gap) = 3 * (width - x)
  BY <1>1, GapType
<1>5. chars \in Seq(Cells) /\ Len(chars) = x
  BY <1>1, CharType
<1>6. \A i \in 1 .. 3 * x : hex[i] = D!Cell(D!Part[((i - 1) % 3) + 1], from + (i + 2) \div 3)
  BY DEF HexPart
<1>7. \A i \in 1 .. x : chars[i] = D!Cell("char", from + i)
  BY DEF CharPart
<1> HIDE DEF from, hex, gap, chars
<1>8. /\ s1 = d \o hex /\ s2 = s1 \o gap /\ s3 = s2 \o BarPart /\ s4 = s3 \o chars
      /\ row = s4 \o EndPart
  OBVIOUS
<1>9. BarPart \in Seq(Cells) /\ EndPart \in Seq(Cells)
  BY BarType
<1> HIDE DEF s1, s2, s3, s4, row, n
<1>10. /\ row \in Seq(Cells)
       /\ Len(s1) = Len(d) + Len(hex) /\ Len(s2) = Len(s1) + Len(gap)
       /\ Len(s3) = Len(s2) + Len(BarPart) /\ Len(s4) = Len(s3) + Len(chars)
       /\ Len(row) = Len(s4) + Len(EndPart)
       /\ \A i \in 1 .. Len(d) : row[i] = d[i]
       /\ \A i \in 1 .. Len(hex) : row[Len(d) + i] = hex[i]
       /\ \A i \in 1 .. Len(BarPart) : row[Len(s2) + i] = BarPart[i]
       /\ \A i \in 1 .. Len(chars) : row[Len(s3) + i] = chars[i]
       /\ \A i \in 1 .. Len(EndPart) : row[Len(s4) + i] = EndPart[i]
  <2>1. hex \in Seq(Cells) /\ gap \in Seq(Cells) /\ chars \in Seq(Cells)
    BY <1>3, <1>4, <1>5
  <2>2. SixKept(Cells, d, hex, gap, BarPart, chars, EndPart)
    BY <1>9, <2>1, SixJoined
  <2> QED
    BY <2>2 DEF SixKept, s1, s2, s3, s4, row
<1>a. \A i \in 1 .. 3 * x : row[n + i] = hex[i]
  BY <1>3, <1>10 DEF n
<1>b. \A i \in 1 .. x : row[Len(s3) + i] = chars[i]
  BY <1>5, <1>10
<1>11. /\ row[Len(s2) + 1] = D!Blank /\ row[Len(s2) + 2] = D!Blank
      /\ row[Len(s2) + 3] = D!Cell("bar", 0)
      /\ row[Len(s4) + 1] = D!Cell("bar", 0) /\ row[Len(s4) + 2] = D!Cell("newline", 0)
  <2>1. /\ 1 \in 1 .. Len(BarPart) /\ 2 \in 1 .. Len(BarPart) /\ 3 \in 1 .. Len(BarPart)
        /\ 1 \in 1 .. Len(EndPart) /\ 2 \in 1 .. Len(EndPart)
    BY BarType
  <2>2. /\ row[Len(s2) + 1] = BarPart[1] /\ row[Len(s2) + 2] = BarPart[2]
        /\ row[Len(s2) + 3] = BarPart[3]
        /\ row[Len(s4) + 1] = EndPart[1] /\ row[Len(s4) + 2] = EndPart[2]
    BY <1>10, <2>1
  <2> QED
    BY <2>2, BarType
<1>12. /\ Len(s2) = n + 3 * width /\ Len(s3) = n + 3 * width + 3 /\ Len(s4) = n + 3 * width + 3 + x
      /\ Len(row) = n + 3 * width + 5 + x
  BY <1>1, <1>3, <1>4, <1>5, <1>10, BarType DEF n
<1>13. ASSUME NEW p \in 1 .. 3 * width + 5 + x, ~(p \in 3 * x + 1 .. 3 * width)
       PROVE  row[n + p] = D!RowCell(r, x, p)
  <2>0. p \in Nat \ {0}
    OBVIOUS
  <2>1. CASE p <= 3 * x
    <3>1. p \in 1 .. 3 * x
      BY <2>1
    <3>2. row[n + p] = D!Cell(D!Part[((p - 1) % 3) + 1], from + (p + 2) \div 3)
      BY <1>6, <1>a, <3>1
    <3> QED
      BY <2>0, <2>1, <3>2, RowCells DEF from
  <2>2. CASE p \in {3 * width + 1, 3 * width + 2}
    <3>1. PICK i \in {1, 2} : p = 3 * width + i
      BY <2>2
    <3>2. row[Len(s2) + i] = D!Blank
      BY <1>11
    <3>3. Len(s2) + i = n + p
      BY <1>1, <1>12, <3>1 DEF n
    <3>4. p \in 3 * x + 1 .. 3 * width + 2
      BY <1>1, <2>2
    <3> QED
      BY <2>0, <3>2, <3>3, <3>4, RowCells
  <2>3. CASE p = 3 * width + 3
    <3>1. row[Len(s2) + 3] = D!Cell("bar", 0)
      BY <1>11
    <3>2. Len(s2) + 3 = n + p
      BY <1>1, <1>12, <2>3 DEF n
    <3> QED
      BY <2>0, <2>3, <3>1, <3>2, RowCells
  <2>4. CASE p \in 3 * width + 4 .. 3 * width + 3 + x
    <3> DEFINE i == p - 3 * width - 3
    <3>1. i \in 1 .. x /\ Len(s3) + i = n + p /\ r * width + p - 3 * width - 3 = r * width + i
      BY <1>1, <1>12, <2>4 DEF n, from
    <3> HIDE DEF i
    <3>2. row[Len(s3) + i] = D!Cell("char", from + i)
      BY <1>7, <1>b, <3>1
    <3>3. D!RowCell(r, x, p) = D!Cell("char", r * width + p - 3 * width - 3)
      BY <2>0, <2>4, RowCells
    <3> QED
      BY <3>1, <3>2, <3>3 DEF from
  <2>5. CASE p = 3 * width + 4 + x
    <3>1. row[Len(s4) + 1] = D!Cell("bar", 0)
      BY <1>11
    <3>2. Len(s4) + 1 = n + p
      BY <1>1, <1>12, <2>5 DEF n
    <3> QED
      BY <2>0, <2>5, <3>1, <3>2, RowCells
  <2>6. CASE p = 3 * width + 5 + x
    <3>1. row[Len(s4) + 2] = D!Cell("newline", 0)
      BY <1>11
    <3>2. Len(s4) + 2 = n + p
      BY <1>1, <1>12, <2>6 DEF n
    <3> QED
      BY <2>0, <2>6, <3>1, <3>2, RowCells
  <2> QED
    BY <1>1, <1>13, <2>1, <2>2, <2>3, <2>4, <2>5, <2>6
<1>14. /\ row \in Seq(Cells) /\ Len(row) = Len(d) + 3 * width + 5 + x
       /\ \A i \in 1 .. Len(d) : row[i] = d[i]
       /\ \A p \in 1 .. 3 * width + 5 + x :
            p \in 3 * x + 1 .. 3 * width \/ row[Len(d) + p] = D!RowCell(r, x, p)
  BY <1>10, <1>12, <1>13 DEF n
<1> QED
  BY <1>2, <1>14 DEF RowKept

LEMMA WantKept ==
  ASSUME len' = len, width' = width
  PROVE  /\ \A i : Want(i)' = Want(i)
         /\ D!max_chars' = D!max_chars /\ D!Rows' = D!Rows /\ RowLen' = RowLen
BY DEF Want, RowLen, D!max_chars, D!Rows, D!RowCell, D!Least, D!Cell, D!Blank, D!Part

LEMMA DumpInit == D!Init => Dumping
<1> SUFFICES ASSUME D!Init PROVE Dumping
  OBVIOUS
<1>1. /\ len \in Nat /\ width \in Nat /\ left = len /\ fill_len = 0 /\ src = 0 /\ dst = <<>>
      /\ h = 0 /\ a = 0 /\ tmp = 0 /\ out = <<>> /\ reach = 0
  BY DumpAssumption DEF D!Init
<1>2. DumpTypes
  BY <1>1 DEF DumpTypes
<1>3. Stuck
  BY <1>1 DEF Stuck
<1>4. ASSUME D!max_chars # 0 PROVE RowsWhole /\ BufferHolds /\ CellsShown
  <2>1. D!Rows \in Nat \ {0} /\ 0 \in 0 .. D!Rows /\ RowLen \in Nat
    <3>1. D!Rows \in Nat
      BY <1>1, DumpAssumption DEF D!Rows
    <3> QED
      BY <1>1, <1>4, <3>1, RowsFit DEF RowLen
  <2>2. Len(out) = 0 /\ Len(dst) = 0
    BY <1>1
  <2>3. RowsWhole
    <3>1. src = 0 * width /\ Len(out) + Len(dst) = 0 * RowLen /\ fill_len = 0 * width
      BY <1>1, <2>1, <2>2
    <3> QED
      BY <3>1 DEF RowsWhole
  <2>4. BufferHolds
    <3>1. Len(dst) <= 0 * RowLen /\ ~(fill_len > 0) /\ reach <= DumpSize
      BY <1>1, <2>1, <2>2, DumpAssumption
    <3> QED
      BY <2>1, <3>1 DEF BufferHolds
  <2>5. CellsShown
    BY <1>1, <2>2 DEF CellsShown
  <2> QED
    BY <2>3, <2>4, <2>5
<1> QED
  BY <1>2, <1>3, <1>4 DEF Dumping

(* A dump that can not begin does not.                                      *)
LEMMA StuckStep ==
  ASSUME DumpTypes, Stuck, D!max_chars = 0, D!Next
  PROVE  DumpTypes' /\ Stuck' /\ D!max_chars' = 0
<1>1. CASE D!Fill
  <2>1. /\ fill_len' = D!Least(left, 0) /\ left' = left - fill_len'
        /\ UNCHANGED <<len, width, src, dst, h, a, tmp, out, reach>>
    BY <1>1 DEF D!Fill
  <2>2. fill_len' = 0 /\ left' = left
    BY <2>1 DEF D!Least, DumpTypes
  <2> QED
    BY <2>1, <2>2, WantKept DEF DumpTypes, Stuck
<1>2. CASE D!Row
  BY <1>2 DEF D!Row, Stuck
<1>3. CASE D!Write
  BY <1>3 DEF D!Write, Stuck
<1> QED
  BY <1>1, <1>2, <1>3 DEF D!Next

(* A buffer to fill begins with its rows.                                   *)
LEMMA FillStep ==
  ASSUME DumpTypes, D!max_chars # 0, RowsWhole, BufferHolds, CellsShown, D!Fill
  PROVE  DumpTypes' /\ D!max_chars' # 0 /\ RowsWhole' /\ BufferHolds' /\ CellsShown'
<1>1. /\ left > 0 /\ fill_len = 0 /\ dst = <<>>
      /\ fill_len' = D!Least(left, D!max_chars) /\ left' = left - fill_len'
      /\ UNCHANGED <<len, width, src, dst, h, a, tmp, out, reach>>
  BY DEF D!Fill
<1>2. width \in Nat /\ left \in Nat /\ src \in Nat
  BY DEF DumpTypes
<1>3. D!Rows \in Nat \ {0} /\ RowLen \in Nat
  <2>1. D!Rows \in Nat
    BY <1>2, DumpAssumption DEF D!Rows
  <2>2. 0 \in 0 .. D!Rows
    BY <2>1
  <2> QED
    BY <1>2, <2>2, RowsFit DEF RowLen
<1>4. D!max_chars = D!Rows * width /\ D!max_chars \in Nat
  BY <1>2, <1>3 DEF D!max_chars
<1>5. fill_len' \in Nat /\ left' \in Nat /\ left' + fill_len' = left /\ fill_len' <= D!max_chars
  BY <1>1, <1>2, <1>4 DEF D!Least
<1>6. left' > 0 => fill_len' = D!max_chars
  BY <1>1, <1>2, <1>4 DEF D!Least
<1>7. D!max_chars' = D!max_chars /\ D!Rows' = D!Rows /\ RowLen' = RowLen /\ \A i : Want(i)' = Want(i)
  BY <1>1, WantKept
<1>8. DumpTypes'
  <2>1. left + fill_len + src = len
    BY DEF DumpTypes
  <2>2. left' + fill_len' + src' = len'
    BY <1>1, <1>2, <1>5, <2>1
  <2> QED
    BY <1>1, <1>5, <2>2 DEF DumpTypes
<1>9. RowsWhole'
  <2>1. PICK r : r \in Nat /\ src = r * width /\ Len(out) + Len(dst) = r * RowLen
    BY <1>1, <1>2 DEF RowsWhole
  <2>2. src' = r * width' /\ Len(out') + Len(dst') = r * RowLen'
    BY <1>1, <1>7, <2>1
  <2>3. left' > 0 => fill_len' = D!Rows * width'
    BY <1>1, <1>4, <1>6
  <2> QED
    BY <1>3, <2>1, <2>2, <2>3 DEF RowsWhole
<1>10. BufferHolds'
  <2>1. reach' <= DumpSize
    BY <1>1 DEF BufferHolds
  <2>2. Len(dst') = 0 /\ 0 * RowLen' = 0 /\ 0 * width' = 0 /\ 0 \in 0 .. D!Rows'
    BY <1>1, <1>2, <1>3, <1>7
  <2>3. 0 * width' + fill_len' <= D!max_chars'
    BY <1>5, <1>7, <2>2
  <2>4. Len(dst') <= 0 * RowLen' /\ Len(dst') = 0 * RowLen'
    BY <2>2
  <2> QED
    BY <2>1, <2>2, <2>3, <2>4 DEF BufferHolds
<1>11. CellsShown'
  <2>1. a = 0 /\ h = tmp /\ h = 0 /\ Len(dst) = 0
    BY <1>1 DEF CellsShown, DumpTypes
  <2>2. \A i \in 1 .. Len(out') : out'[i] = Want(i)'
    BY <1>1, <1>7 DEF CellsShown
  <2>3. a' = 0 /\ h' = 0 /\ tmp' = 0 /\ Len(dst') = 0
    BY <1>1, <2>1
  <2>4. 1 .. Len(dst') = {}
    BY <2>3
  <2> QED
    BY <2>2, <2>3, <2>4 DEF CellsShown
<1> QED
  BY <1>7, <1>8, <1>9, <1>10, <1>11

(* A row goes after the rows before it, a short one only at the end.        *)
LEMMA RowStep ==
  ASSUME DumpTypes, D!max_chars # 0, RowsWhole, BufferHolds, CellsShown, D!Row
  PROVE  DumpTypes' /\ D!max_chars' # 0 /\ RowsWhole' /\ BufferHolds' /\ CellsShown'
<1> DEFINE x == D!Least(fill_len, width)
<1>1. /\ fill_len > 0 /\ dst' = RowOf(dst, x, src)
      /\ h' = a + 3 * x /\ tmp' = a + 3 * width /\ a' = Len(dst')
      /\ fill_len' = fill_len - x /\ src' = src + x
      /\ reach' = IF a' > reach THEN a' ELSE reach
      /\ UNCHANGED <<len, width, left, out>>
  BY DEF D!Row, RowOf, HexPart, GapPart, BarPart, CharPart, EndPart
<1>2. /\ len \in Nat /\ width \in Nat /\ left \in Nat /\ fill_len \in Nat /\ src \in Nat
      /\ left + fill_len + src = len /\ dst \in Seq(Cells) /\ out \in Seq(Cells)
      /\ a \in Nat /\ reach \in Nat /\ Len(dst) \in Nat /\ Len(out) \in Nat
  BY DEF DumpTypes
<1>3. x \in 0 .. width /\ x <= fill_len /\ x \in Nat
  BY <1>2 DEF D!Least
<1>4. D!Rows \in Nat \ {0} /\ RowLen \in Nat /\ width > 0 /\ D!max_chars = D!Rows * width
  <2>1. D!Rows \in Nat
    BY <1>2, DumpAssumption DEF D!Rows
  <2>2. 0 \in 0 .. D!Rows
    BY <2>1
  <2> QED
    BY <1>2, <2>2, RowsFit DEF RowLen, D!max_chars
<1>5. PICK r : r \in Nat /\ src = r * width /\ Len(out) + Len(dst) = r * RowLen
  BY <1>1, <1>2 DEF RowsWhole
<1>6. PICK m : /\ m \in 0 .. D!Rows /\ Len(dst) = m * RowLen
               /\ m * width + fill_len <= D!max_chars
  BY <1>1 DEF BufferHolds
<1>7. left > 0 => \E q : q \in Nat \ {0} /\ fill_len = q * width
  <2>1. ASSUME left > 0 PROVE \E q : q \in Nat \ {0} /\ fill_len = q * width
    <3>1. PICK q : q \in Nat /\ fill_len = q * width
      BY <2>1 DEF RowsWhole
    <3>2. q # 0
      BY <1>1, <1>2, <3>1
    <3> QED
      BY <3>1, <3>2
  <2> QED
    BY <2>1
<1>8. left > 0 => x = width /\ fill_len >= width
  <2>1. ASSUME left > 0 PROVE fill_len >= width
    <3>1. PICK q : q \in Nat \ {0} /\ fill_len = q * width
      BY <1>7, <2>1
    <3>2. q * width = (q - 1) * width + width /\ (q - 1) * width >= 0
      <4>1. q - 1 \in Nat
        BY <3>1
      <4>2. (q - 1) * width \in Nat
        BY <1>2, <4>1
      <4> QED
        BY <1>2, <3>1, <4>2
    <3> QED
      BY <1>2, <3>1, <3>2
  <2> QED
    BY <1>2, <2>1 DEF D!Least
<1>9. fill_len' > 0 => x = width
  BY <1>1, <1>2 DEF D!Least
<1>10. x = D!Least(width, len - r * width)
  <2>1. len - r * width = left + fill_len
    BY <1>2, <1>5
  <2>2. CASE left = 0
    BY <1>2, <2>1, <2>2 DEF D!Least
  <2>3. CASE left > 0
    BY <1>2, <1>8, <2>1, <2>3 DEF D!Least
  <2> QED
    BY <1>2, <2>2, <2>3
<1> HIDE DEF x
<1>11. /\ dst' \in Seq(Cells) /\ Len(dst') = Len(dst) + 3 * width + 5 + x
       /\ \A i \in 1 .. Len(dst) : dst'[i] = dst[i]
       /\ \A p \in 1 .. 3 * width + 5 + x :
            p \in 3 * x + 1 .. 3 * width \/ dst'[Len(dst) + p] = D!RowCell(r, x, p)
  <2>1. RowKept(dst, x, r, RowOf(dst, x, r * width))
    BY <1>2, <1>3, <1>5, RowAppended
  <2>2. RowKept(dst, x, r, dst')
    BY <1>1, <1>5, <2>1
  <2> QED
    BY <2>2 DEF RowKept
<1>12. D!max_chars' = D!max_chars /\ D!Rows' = D!Rows /\ RowLen' = RowLen /\ \A i : Want(i)' = Want(i)
  BY <1>1, WantKept
<1>13. RowLen = 4 * width + 5
  BY DEF RowLen
<1>14. m + 1 \in 0 .. D!Rows
  <2>1. m \in Nat /\ D!Rows \in Nat /\ m <= D!Rows
    BY <1>4, <1>6
  <2>2. m # D!Rows
    <3>1. ASSUME m = D!Rows PROVE FALSE
      <4>1. m * width = D!max_chars /\ m * width \in Nat
        BY <1>2, <1>4, <2>1, <3>1
      <4> QED
        BY <1>1, <1>2, <1>6, <4>1
    <3> QED
      BY <3>1
  <2> QED
    BY <2>1, <2>2
<1>15. /\ m \in Nat /\ m * RowLen \in Nat /\ (m + 1) * RowLen = m * RowLen + RowLen
       /\ m * width \in Nat /\ (m + 1) * width = m * width + width
       /\ r * RowLen \in Nat /\ (r + 1) * RowLen = r * RowLen + RowLen
       /\ r * width \in Nat /\ (r + 1) * width = r * width + width
  <2>1. m \in Nat /\ r \in Nat /\ width \in Nat /\ RowLen \in Nat
    BY <1>2, <1>4, <1>5, <1>6
  <2> QED
    BY <2>1
<1>16. (m + 1) * RowLen + 1 <= DumpSize
  BY <1>2, <1>4, <1>14, RowsFit
<1>17. Len(dst') <= (m + 1) * RowLen /\ (x = width => Len(dst') = (m + 1) * RowLen)
  BY <1>2, <1>3, <1>6, <1>11, <1>13, <1>15
<1>18. DumpTypes'
  <2>1. fill_len' \in Nat /\ src' \in Nat /\ left' + fill_len' + src' = len'
    BY <1>1, <1>2, <1>3
  <2>2. h' \in Nat /\ tmp' \in Nat /\ a' \in Nat /\ reach' \in Nat
    BY <1>1, <1>2, <1>3, <1>11
  <2> QED
    BY <1>1, <1>2, <1>11, <2>1, <2>2 DEF DumpTypes
<1>19. RowsWhole'
  <2>1. ASSUME left' + fill_len' > 0
        PROVE  \E k \in Nat : src' = k * width' /\ Len(out') + Len(dst') = k * RowLen'
    <3>1. left > 0 \/ fill_len' > 0
      BY <1>1, <1>2, <1>18, <2>1 DEF DumpTypes
    <3>2. x = width
      BY <1>8, <1>9, <3>1
    <3>3. src' = (r + 1) * width
      BY <1>1, <1>5, <1>15, <3>2
    <3>4. Len(out') + Len(dst') = (r + 1) * RowLen
      <4>1. Len(dst') = m * RowLen + RowLen /\ Len(out') = Len(out)
        BY <1>1, <1>15, <1>17, <3>2
      <4>2. Len(out) + m * RowLen = r * RowLen
        BY <1>5, <1>6
      <4> QED
        BY <1>2, <1>4, <1>15, <4>1, <4>2
    <3>5. r + 1 \in Nat
      BY <1>5
    <3> QED
      BY <1>1, <1>12, <3>3, <3>4, <3>5
  <2>2. ASSUME left' > 0 PROVE \E q \in Nat : fill_len' = q * width'
    <3>1. PICK q : q \in Nat \ {0} /\ fill_len = q * width
      BY <1>1, <1>7, <2>2
    <3>2. q - 1 \in Nat /\ (q - 1) * width = q * width - width
      BY <1>2, <3>1
    <3>3. fill_len' = (q - 1) * width'
      BY <1>1, <1>8, <2>2, <3>1, <3>2
    <3> QED
      BY <3>2, <3>3
  <2> QED
    BY <2>1, <2>2 DEF RowsWhole
<1>20. BufferHolds'
  <2>1. reach' <= DumpSize
    <3>1. reach <= DumpSize
      BY DEF BufferHolds
    <3>2. a' <= DumpSize
      <4>1. a' \in Nat /\ a' <= (m + 1) * RowLen /\ (m + 1) * RowLen \in Nat
        BY <1>1, <1>4, <1>11, <1>15, <1>17
      <4> QED
        BY <1>16, <4>1, DumpAssumption
    <3> QED
      BY <1>1, <3>1, <3>2
  <2>2. ASSUME fill_len' > 0
        PROVE  Len(dst') = (m + 1) * RowLen' /\ (m + 1) * width' + fill_len' <= D!max_chars'
    <3>1. x = width
      BY <1>9, <2>2
    <3>2. (m + 1) * width + fill_len' = m * width + fill_len
      BY <1>1, <1>2, <1>15, <3>1
    <3> QED
      BY <1>1, <1>6, <1>12, <1>17, <3>1, <3>2
  <2>3. m + 1 \in 0 .. D!Rows' /\ Len(dst') <= (m + 1) * RowLen'
    BY <1>12, <1>14, <1>17
  <2> QED
    BY <2>1, <2>2, <2>3 DEF BufferHolds
<1>21. CellsShown'
  <2>1. a = Len(dst) /\ h = tmp /\ tmp <= a /\ h \in Nat
    BY <1>1 DEF CellsShown, DumpTypes
  <2>2. h' <= tmp' /\ tmp' <= a' /\ (fill_len' > 0 => h' = tmp')
    BY <1>1, <1>2, <1>3, <1>9, <1>11, <2>1
  <2>3. \A i \in 1 .. Len(out') : out'[i] = Want(i)'
    BY <1>1, <1>12 DEF CellsShown
  <2>4. ASSUME NEW i \in 1 .. Len(dst')
        PROVE  IF i \in h' + 1 .. tmp' THEN Want(Len(out) + i) = D!Blank
               ELSE dst'[i] = Want(Len(out) + i)
    <3>1. CASE i <= Len(dst)
      <4>1. i \in 1 .. Len(dst) /\ i \notin h + 1 .. tmp /\ i \notin h' + 1 .. tmp'
        <5>1. i \in Nat /\ i >= 1
          BY <1>2, <1>11
        <5> QED
          BY <1>1, <1>2, <1>3, <2>1, <3>1, <5>1
      <4>2. dst[i] = Want(Len(out) + i)
        BY <4>1 DEF CellsShown
      <4> QED
        BY <1>11, <4>1, <4>2
    <3>2. CASE i > Len(dst)
      <4> DEFINE p == i - Len(dst)
      <4>1. /\ p \in 1 .. 3 * width + 5 + x /\ i = Len(dst) + p
            /\ p \in 1 .. 4 * width + 5
        BY <1>2, <1>3, <1>11, <3>2
      <4>2. i \in h' + 1 .. tmp' <=> p \in 3 * x + 1 .. 3 * width
        BY <1>1, <1>2, <1>3, <2>1
      <4>3. Len(out) + i = r * RowLen + p
        BY <1>2, <1>5, <1>15
      <4> HIDE DEF p
      <4>4. Want(Len(out) + i) = D!RowCell(r, x, p)
        BY <1>2, <1>5, <1>10, <1>13, <4>1, <4>3, WantInRow
      <4>5. p \in 3 * x + 1 .. 3 * width => D!RowCell(r, x, p) = D!Blank
        <5>1. p \in Nat \ {0} /\ (p \in 3 * x + 1 .. 3 * width => p \in 3 * x + 1 .. 3 * width + 2)
          BY <1>2, <1>3, <4>1
        <5> QED
          BY <1>2, <1>3, <5>1, RowCells
      <4>6. p \in 3 * x + 1 .. 3 * width \/ dst'[Len(dst) + p] = D!RowCell(r, x, p)
        BY <1>11, <4>1
      <4> QED
        BY <4>1, <4>2, <4>4, <4>5, <4>6
    <3> QED
      BY <1>2, <1>11, <3>1, <3>2
  <2>5. \A i \in 1 .. Len(dst') : IF i \in h' + 1 .. tmp' THEN Want(Len(out) + i)' = D!Blank'
                                  ELSE dst'[i] = Want(Len(out) + i)'
    <3>1. D!Blank' = D!Blank /\ out' = out
      BY <1>1 DEF D!Blank, D!Cell
    <3> QED
      BY <1>12, <2>4, <3>1
  <2>6. a' = Len(dst')
    BY <1>1
  <2> QED
    BY <2>2, <2>3, <2>5, <2>6 DEF CellsShown
<1> QED
  BY <1>12, <1>18, <1>19, <1>20, <1>21

(* A buffer that is written shows its rows, the gap of the last one filled. *)
LEMMA WriteStep ==
  ASSUME DumpTypes, D!max_chars # 0, RowsWhole, BufferHolds, CellsShown, D!Write
  PROVE  DumpTypes' /\ D!max_chars' # 0 /\ RowsWhole' /\ BufferHolds' /\ CellsShown'
<1> DEFINE new == [i \in DOMAIN dst |-> IF i \in h + 1 .. tmp THEN D!Blank ELSE dst[i]]
<1>1. /\ dst # <<>> /\ fill_len = 0 /\ out' = out \o new
      /\ reach' = (IF a + 1 > reach THEN a + 1 ELSE reach)
      /\ dst' = <<>> /\ h' = 0 /\ a' = 0 /\ tmp' = 0
      /\ UNCHANGED <<len, width, src, left, fill_len>>
  BY DEF D!Write
<1>2. /\ len \in Nat /\ width \in Nat /\ left \in Nat /\ dst \in Seq(Cells) /\ out \in Seq(Cells)
      /\ a \in Nat /\ reach \in Nat /\ Len(dst) \in Nat /\ Len(out) \in Nat /\ DOMAIN dst = 1 .. Len(dst)
  BY DEF DumpTypes
<1>3. D!Rows \in Nat \ {0} /\ RowLen \in Nat
  <2>1. D!Rows \in Nat
    BY <1>2, DumpAssumption DEF D!Rows
  <2>2. 0 \in 0 .. D!Rows
    BY <2>1
  <2> QED
    BY <1>2, <2>2, RowsFit DEF RowLen
<1>4. /\ a = Len(dst)
      /\ \A i \in 1 .. Len(out) : out[i] = Want(i)
      /\ \A i \in 1 .. Len(dst) : IF i \in h + 1 .. tmp THEN Want(Len(out) + i) = D!Blank
                                 ELSE dst[i] = Want(Len(out) + i)
  BY DEF CellsShown
<1>5. new \in Seq(Cells) /\ Len(new) = Len(dst)
  <2>1. ASSUME NEW i \in 1 .. Len(dst)
        PROVE  (IF i \in h + 1 .. tmp THEN D!Blank ELSE dst[i]) \in Cells
    <3>1. D!Blank \in Cells
      BY CellType DEF D!Blank, CellKinds
    <3>2. dst[i] \in Cells
      BY <1>2
    <3> QED
      BY <3>1, <3>2
  <2>2. new \in [1 .. Len(dst) -> Cells]
    BY <1>2, <2>1
  <2> HIDE DEF new
  <2>3. new \in Seq(Cells)
    BY <1>2, <2>2, SeqDef
  <2>4. Len(new) = Len(dst)
    BY <1>2, <2>2
  <2> QED
    BY <2>3, <2>4
<1>6. \A i \in 1 .. Len(dst) : new[i] = Want(Len(out) + i)
  <2>1. ASSUME NEW i \in 1 .. Len(dst) PROVE new[i] = Want(Len(out) + i)
    <3>1. new[i] = IF i \in h + 1 .. tmp THEN D!Blank ELSE dst[i]
      BY <1>2
    <3> HIDE DEF new
    <3> QED
      BY <1>4, <3>1
  <2> QED
    BY <2>1
<1> HIDE DEF new
<1>7. /\ out' \in Seq(Cells) /\ Len(out') = Len(out) + Len(dst)
      /\ \A i \in 1 .. Len(out) : out'[i] = out[i]
      /\ \A i \in 1 .. Len(dst) : out'[Len(out) + i] = new[i]
  <2>0. out \in Seq(Cells) /\ new \in Seq(Cells)
    BY <1>2, <1>5
  <2>1. /\ out \o new \in Seq(Cells) /\ Len(out \o new) = Len(out) + Len(new)
        /\ \A i \in 1 .. Len(out) : (out \o new)[i] = out[i]
        /\ \A i \in 1 .. Len(new) : (out \o new)[Len(out) + i] = new[i]
    BY <2>0, Joined
  <2> QED
    BY <1>1, <1>5, <2>1
<1>8. D!max_chars' = D!max_chars /\ D!Rows' = D!Rows /\ RowLen' = RowLen /\ \A i : Want(i)' = Want(i)
  BY <1>1, WantKept
<1>9. DumpTypes'
  BY <1>1, <1>2, <1>7 DEF DumpTypes
<1>10. RowsWhole'
  <2>1. left' + fill_len' > 0 =>
          \E r \in Nat : src' = r * width' /\ Len(out') + Len(dst') = r * RowLen'
    <3>1. Len(out') + Len(dst') = Len(out) + Len(dst)
      BY <1>1, <1>2, <1>7
    <3> QED
      BY <1>1, <1>8, <3>1 DEF RowsWhole
  <2>2. left' > 0 => \E q \in Nat : fill_len' = q * width'
    BY <1>1 DEF RowsWhole
  <2> QED
    BY <2>1, <2>2 DEF RowsWhole
<1>11. BufferHolds'
  <2>1. PICK m : m \in 0 .. D!Rows /\ Len(dst) <= m * RowLen
    BY DEF BufferHolds
  <2>2. m * RowLen \in Nat /\ m * RowLen + 1 <= DumpSize
    BY <1>2, <2>1, RowsFit
  <2>3. reach <= DumpSize
    BY DEF BufferHolds
  <2>4. a + 1 <= DumpSize
    BY <1>2, <1>4, <2>1, <2>2, DumpAssumption
  <2>5. reach' <= DumpSize
    BY <1>1, <2>3, <2>4
  <2>6. Len(dst') = 0 /\ 0 * RowLen' = 0 /\ 0 \in 0 .. D!Rows' /\ ~(fill_len' > 0)
    BY <1>1, <1>3, <1>8
  <2>7. Len(dst') <= 0 * RowLen'
    BY <2>6
  <2> QED
    BY <2>5, <2>6, <2>7 DEF BufferHolds
<1>12. CellsShown'
  <2>1. ASSUME NEW i \in 1 .. Len(out') PROVE out'[i] = Want(i)
    <3>1. CASE i <= Len(out)
      BY <1>2, <1>4, <1>7, <3>1
    <3>2. CASE i > Len(out)
      <4>1. PICK k : k \in 1 .. Len(dst) /\ i = Len(out) + k
        <5>1. i - Len(out) \in 1 .. Len(dst) /\ i = Len(out) + (i - Len(out))
          BY <1>2, <1>7, <3>2
        <5> QED
          BY <5>1
      <4> QED
        BY <1>6, <1>7, <4>1
    <3> QED
      BY <1>2, <1>7, <3>1, <3>2
  <2>2. \A i \in 1 .. Len(out') : out'[i] = Want(i)'
    BY <1>8, <2>1
  <2>3. Len(dst') = 0 /\ 1 .. Len(dst') = {}
    BY <1>1
  <2>4. a' = Len(dst') /\ h' <= tmp' /\ tmp' <= a' /\ h' = tmp'
    BY <1>1, <2>3
  <2> QED
    BY <2>2, <2>3, <2>4 DEF CellsShown
<1> QED
  BY <1>8, <1>9, <1>10, <1>11, <1>12

LEMMA DumpStep == Dumping /\ [D!Next]_D!hexdump => Dumping'
<1> SUFFICES ASSUME Dumping, [D!Next]_D!hexdump PROVE Dumping'
  OBVIOUS
<1>1. CASE UNCHANGED D!hexdump
  <2>1. UNCHANGED <<len, width, left, fill_len, src, dst, h, a, tmp, out, reach>>
    BY <1>1 DEF D!hexdump
  <2>2. /\ D!max_chars' = D!max_chars /\ D!Rows' = D!Rows /\ RowLen' = RowLen
        /\ \A i : Want(i)' = Want(i)
    BY <2>1, WantKept
  <2>3. D!Blank' = D!Blank
    BY DEF D!Blank, D!Cell
  <2>4. DumpTypes'
    BY <2>1 DEF Dumping, DumpTypes
  <2>5. D!max_chars' = 0 => Stuck'
    BY <2>1, <2>2 DEF Dumping, Stuck
  <2>6. D!max_chars' # 0 => RowsWhole'
    BY <2>1, <2>2 DEF Dumping, RowsWhole
  <2>7. D!max_chars' # 0 => BufferHolds'
    BY <2>1, <2>2 DEF Dumping, BufferHolds
  <2>8. D!max_chars' # 0 => CellsShown'
    BY <2>1, <2>2, <2>3 DEF Dumping, CellsShown
  <2> QED
    BY <2>4, <2>5, <2>6, <2>7, <2>8 DEF Dumping
<1>2. CASE D!Next /\ D!max_chars = 0
  BY <1>2, StuckStep DEF Dumping
<1>3. CASE D!Fill /\ D!max_chars # 0
  BY <1>3, FillStep DEF Dumping
<1>4. CASE D!Row /\ D!max_chars # 0
  BY <1>4, RowStep DEF Dumping
<1>5. CASE D!Write /\ D!max_chars # 0
  BY <1>5, WriteStep DEF Dumping
<1> QED
  BY <1>1, <1>2, <1>3, <1>4, <1>5 DEF D!Next

LEMMA DumpingShows == Dumping => D!DumpFits /\ D!DumpWhole /\ D!Dumped
<1> SUFFICES ASSUME Dumping PROVE D!DumpFits /\ D!DumpWhole /\ D!Dumped
  OBVIOUS
<1>1. /\ len \in Nat /\ width \in Nat /\ src \in Nat /\ left \in Nat /\ fill_len \in Nat
      /\ left + fill_len + src = len /\ out \in Seq(Cells)
  BY DEF Dumping, DumpTypes
<1>2. D!DumpFits
  <2>1. CASE D!max_chars = 0
    BY <1>1, <2>1, DumpAssumption DEF D!DumpFits, Dumping, Stuck
  <2>2. CASE D!max_chars # 0
    <3>1. D!Rows > 0 /\ width > 0
      <4>1. D!Rows \in Nat
        BY <1>1, DumpAssumption DEF D!Rows
      <4>2. 0 \in 0 .. D!Rows
        BY <4>1
      <4> QED
        BY <1>1, <2>2, <4>1, <4>2, RowsFit
    <3>2. reach <= DumpSize
      BY <2>2 DEF Dumping, BufferHolds
    <3> QED
      BY <3>1, <3>2 DEF D!DumpFits
  <2> QED
    BY <2>1, <2>2
<1>3. \A i \in 1 .. Len(out) : out[i] = Want(i)
  <2>1. CASE D!max_chars = 0
    <3>1. out = <<>>
      BY <2>1 DEF Dumping, Stuck
    <3>2. Len(out) = 0
      BY <3>1
    <3>3. 1 .. Len(out) = {}
      BY <3>2
    <3> QED
      BY <3>3
  <2>2. CASE D!max_chars # 0
    BY <2>2 DEF Dumping, CellsShown
  <2> QED
    BY <2>1, <2>2
<1>4. D!DumpWhole
  <2>1. DOMAIN out = 1 .. Len(out)
    BY <1>1
  <2> QED
    BY <1>3, <2>1 DEF D!DumpWhole, Want, RowLen
<1>5. D!Dumped
  BY <1>1 DEF D!Dumped
<1> QED
  BY <1>2, <1>4, <1>5

(* For every size of the log buffer and of the room after it, and every     *)
(* header that fits that room, no write into the buffer goes beyond it and  *)
(* each line of the log follows a header; and for every size of the buffer  *)
(* of a dump and every width, each byte is shown once, in its row, and the  *)
(* buffer is not overrun.                                                   *)
THEOREM LinesAreHeaded == Spec => []LinesHeaded
<1>1. Init => LogStands /\ Dumping
  <2>1. L!Init => LogStands
    BY LogAssumption DEF L!Init, LogStands
  <2> QED
    BY <2>1, DumpInit DEF Init
<1>2. LogStands /\ Dumping /\ [Next]_<<component, fields, log, config, clock, latency, stats,
                                       prompts, json, hexdump, endpoint>>
        => LogStands' /\ Dumping'
  BY LogMoves, LogStep, DumpMoves, DumpStep
<1>3. LogStands /\ Dumping => LinesHeaded
  <2>1. LogStands => L!LinesHeaded /\ L!NoOverrun
    BY LogAssumption DEF LogStands, L!LinesHeaded, L!NoOverrun
  <2> QED
    BY <2>1, DumpingShows DEF LinesHeaded
<1> QED
  BY <1>1, <1>2, <1>3, PTL DEF Spec

-----------------------------------------------------------------------------
(* FileConfig.  Every step is a step of FileConfig or leaves it alone.       *)
LEMMA ConfigMoves == [Next]_<<component, fields, log, config, clock, latency, stats, prompts,
                              json, hexdump, endpoint>> => [C!Next]_C!vars
  BY DEF Next, config, C!vars

(* FileConfig counts as this module does.                                   *)
LEMMA SameCardinality == \A A : C!Cardinality(A) = Cardinality(A)
  BY DEF C!Cardinality, Cardinality

(* A set that some numbers are numbered to has as many members.             *)
LEMMA Counted ==
  ASSUME NEW n \in Nat, NEW m \in Nat, n <= m, NEW f, NEW Ts,
         \A i \in n + 1 .. m : f[i] \in Ts,
         \A t \in Ts : \E i \in n + 1 .. m : f[i] = t,
         \A i, j \in n + 1 .. m : i < j => f[i] # f[j]
  PROVE  IsFiniteSet(Ts) /\ Cardinality(Ts) = m - n
<1> DEFINE R == n + 1 .. m
           g == [i \in R |-> f[i]]
<1>1. IsFiniteSet(R) /\ Cardinality(R) = m - n
  <2>1. n + 1 \in Int /\ m \in Int
    OBVIOUS
  <2>2. IsFiniteSet(n + 1 .. m) /\ Cardinality(n + 1 .. m) = IF n + 1 > m THEN 0 ELSE m - (n + 1) + 1
    BY <2>1, FS_Interval
  <2> QED
    BY <2>2
<1>2. g \in [R -> Ts] /\ \A i \in R : g[i] = f[i]
  OBVIOUS
<1>3. \A i, j \in R : g[i] = g[j] => i = j
  <2>1. ASSUME NEW i \in R, NEW j \in R, f[i] = f[j] PROVE i = j
    <3>1. ~(i < j) /\ ~(j < i)
      BY <2>1
    <3> QED
      BY <3>1
  <2> QED
    BY <1>2, <2>1
<1>4. \A t \in Ts : \E i \in R : g[i] = t
  BY <1>2
<1> HIDE DEF R, g
<1>5. g \in Bijection(R, Ts)
  BY <1>2, <1>3, <1>4 DEF Bijection, Injection, IsInjective, Surjection
<1>6. ExistsBijection(R, Ts)
  BY <1>5 DEF ExistsBijection
<1> QED
  BY <1>1, <1>6, FS_Bijection

(* The first of some numbers                                                *)
LEMMA LeastIs ==
  ASSUME NEW Some, Some \subseteq Int, NEW m \in Some, \A i \in Some : m <= i
  PROVE  C!Least(Some) = m
<1> DEFINE x == CHOOSE i \in Some : \A j \in Some : i <= j
<1>1. x \in Some /\ \A j \in Some : x <= j
  OBVIOUS
<1>2. x = C!Least(Some)
  BY DEF C!Least
<1> HIDE DEF x
<1>3. x <= m /\ m <= x /\ x \in Int /\ m \in Int
  BY <1>1
<1> QED
  BY <1>2, <1>3

-----------------------------------------------------------------------------
(* The pairs of a file f from its header to a line, and data d that holds   *)
(* them: one for one, with those of a key in their order                    *)
PairsIn(f, from, to) == {i \in from + 1 .. to : f[i].kind = "pair"}
Holds(f, d, from, to, at) ==
  /\ at \in [1 .. Len(d) -> PairsIn(f, from, to)]
  /\ \A i \in PairsIn(f, from, to) : \E m \in 1 .. Len(d) : at[m] = i
  /\ \A m \in 1 .. Len(d) : d[m].key = f[at[m]].key /\ d[m].value = f[at[m]].value
  /\ \A m, n \in 1 .. Len(d) :
       m < n => at[m] # at[n] /\ (d[m].key = d[n].key => at[m] < at[n])

(* The keys of the data ascend.                                             *)
Ascends(d) == \A k \in Nat : \E n \in 0 .. Len(d) :
                \A m \in 1 .. Len(d) : d[m].key <= k <=> m <= n

ConfigPairs == [key : Nat, value : {line.value : line \in FileLines}]

(* What lower_bound() and upper_bound() find in data whose keys ascend      *)
Bounds(d, k, below, upto) ==
  /\ below \in 0 .. Len(d) /\ upto \in 0 .. Len(d) /\ below <= upto
  /\ \A m \in 1 .. Len(d) : d[m].key <= k <=> m <= upto
  /\ \A m \in 1 .. Len(d) : d[m].key < k <=> m <= below

LEMMA PrefixIs ==
  ASSUME NEW d \in Seq(ConfigPairs), NEW n \in 0 .. Len(d), NEW A,
         \A m \in 1 .. Len(d) : m \in A <=> m <= n, A \subseteq 1 .. Len(d)
  PROVE  Cardinality(A) = n
<1>1. n \in Nat /\ Len(d) \in Nat
  OBVIOUS
<1>2. A = 1 .. n
  <2>1. \A m : m \in A <=> m \in 1 .. n
    <3>1. \A m : m \in 1 .. n => m \in 1 .. Len(d) /\ m <= n
      BY <1>1
    <3>2. \A m \in 1 .. Len(d) : m <= n => m \in 1 .. n
      BY <1>1
    <3> QED
      BY <3>1, <3>2
  <2> QED
    BY <2>1
<1>3. Cardinality(1 .. n) = n
  BY <1>1, FS_Interval
<1> QED
  BY <1>2, <1>3

LEMMA KeyIsNumber ==
  ASSUME NEW d \in Seq(ConfigPairs), NEW m \in 1 .. Len(d)
  PROVE  d[m] \in ConfigPairs /\ d[m].key \in Nat
<1>1. d[m] \in ConfigPairs
  OBVIOUS
<1> QED
  BY <1>1 DEF ConfigPairs

LEMMA UpToIs ==
  ASSUME NEW d \in Seq(ConfigPairs), Ascends(d), NEW k \in Nat
  PROVE  LET n == Cardinality({m \in 1 .. Len(d) : d[m].key <= k})
         IN n \in 0 .. Len(d) /\ \A m \in 1 .. Len(d) : d[m].key <= k <=> m <= n
<1>1. PICK n \in 0 .. Len(d) : \A m \in 1 .. Len(d) : d[m].key <= k <=> m <= n
  BY DEF Ascends
<1> DEFINE A == {m \in 1 .. Len(d) : d[m].key <= k}
<1>2. A \subseteq 1 .. Len(d) /\ \A m \in 1 .. Len(d) : m \in A <=> m <= n
  BY <1>1
<1> HIDE DEF A
<1>3. Cardinality(A) = n
  BY <1>2, PrefixIs
<1> QED
  BY <1>1, <1>3 DEF A

LEMMA BoundsAre ==
  ASSUME data \in Seq(ConfigPairs), Ascends(data), NEW k \in Nat \ {0}
  PROVE  Bounds(data, k, C!Below(k), C!UpTo(k))
<1>1. /\ C!UpTo(k) \in 0 .. Len(data)
      /\ \A m \in 1 .. Len(data) : data[m].key <= k <=> m <= C!UpTo(k)
  <2>1. k \in Nat
    OBVIOUS
  <2> DEFINE n == Cardinality({m \in 1 .. Len(data) : data[m].key <= k})
  <2>2. n \in 0 .. Len(data) /\ \A m \in 1 .. Len(data) : data[m].key <= k <=> m <= n
    BY <2>1, UpToIs
  <2>3. n = C!UpTo(k)
    BY SameCardinality DEF C!UpTo
  <2> QED
    BY <2>2, <2>3
<1>2. k - 1 \in Nat /\ Len(data) \in Nat
  OBVIOUS
<1>3. \A m \in 1 .. Len(data) : data[m].key < k <=> data[m].key <= k - 1
  <2>1. \A m \in 1 .. Len(data) : data[m].key \in Nat
    BY KeyIsNumber
  <2> QED
    BY <2>1
<1>4. C!Below(k) = Cardinality({m \in 1 .. Len(data) : data[m].key <= k - 1})
  <2>1. {m \in 1 .. Len(data) : data[m].key < k} = {m \in 1 .. Len(data) : data[m].key <= k - 1}
    BY <1>3
  <2> QED
    BY <2>1, SameCardinality DEF C!Below
<1>5. /\ C!Below(k) \in 0 .. Len(data)
      /\ \A m \in 1 .. Len(data) : data[m].key < k <=> m <= C!Below(k)
  <2> DEFINE j == k - 1
             n == Cardinality({m \in 1 .. Len(data) : data[m].key <= j})
  <2>1. j \in Nat
    BY <1>2
  <2> HIDE DEF j
  <2>2. n \in 0 .. Len(data) /\ \A m \in 1 .. Len(data) : data[m].key <= j <=> m <= n
    BY <2>1, UpToIs
  <2>3. n = C!Below(k)
    BY <1>4 DEF j
  <2> HIDE DEF n
  <2> QED
    BY <1>3, <2>2, <2>3 DEF j
<1>6. C!Below(k) <= C!UpTo(k)
  <2>1. CASE C!Below(k) = 0
    BY <1>1, <1>2, <2>1
  <2>2. CASE C!Below(k) # 0
    <3>1. C!Below(k) \in 1 .. Len(data)
      BY <1>2, <1>5, <2>2
    <3>2. data[C!Below(k)].key < k
      BY <1>2, <1>5, <3>1
    <3>3. data[C!Below(k)].key \in Nat
      BY <3>1, KeyIsNumber
    <3> QED
      BY <1>1, <3>1, <3>2, <3>3
  <2> QED
    BY <2>1, <2>2
<1> QED
  BY <1>1, <1>5, <1>6 DEF Bounds

-----------------------------------------------------------------------------
(* Data e is data d with a pair at place n + 1.                              *)
Placed(d, e, n, pair) ==
  /\ e \in Seq(ConfigPairs) /\ Len(e) = Len(d) + 1
  /\ \A m \in 1 .. n : e[m] = d[m]
  /\ e[n + 1] = pair
  /\ \A m \in n + 1 .. Len(d) : e[m + 1] = d[m]

(* ... after those of its key and of the keys before it                     *)
PlaceOf(d, n, pair) ==
  n \in 0 .. Len(d) /\ \A m \in 1 .. Len(d) : d[m].key <= pair.key <=> m <= n

PairOf(line) == [key |-> line.key, value |-> line.value]

LEMMA PairType == ASSUME NEW line \in FileLines PROVE PairOf(line) \in ConfigPairs
  BY ConfigAssumption DEF PairOf, ConfigPairs

LEMMA PlaceIs ==
  ASSUME NEW d \in Seq(ConfigPairs), NEW line \in FileLines, NEW n \in 0 .. Len(d)
  PROVE  Placed(d, C!Place(d, line, n), n, PairOf(line))
<1> DEFINE s1 == SubSeq(d, 1, n)
           s2 == <<PairOf(line)>>
           s3 == SubSeq(d, n + 1, Len(d))
           e  == (s1 \o s2) \o s3
<1>1. n \in Nat /\ Len(d) \in Nat /\ n <= Len(d)
  OBVIOUS
<1>2. \A m \in 1 .. Len(d) : d[m] \in ConfigPairs
  BY KeyIsNumber
<1>3. s1 \in Seq(ConfigPairs) /\ Len(s1) = n /\ \A m \in 1 .. n : s1[m] = d[m]
  <2>1. 1 \in Int /\ n \in Int /\ \A m \in 1 .. n : d[m] \in ConfigPairs
    BY <1>1, <1>2
  <2>2. /\ SubSeq(d, 1, n) \in Seq(ConfigPairs)
        /\ Len(SubSeq(d, 1, n)) = IF 1 <= n THEN n - 1 + 1 ELSE 0
        /\ \A m \in 1 .. n - 1 + 1 : SubSeq(d, 1, n)[m] = d[1 + m - 1]
    BY <2>1, SubSeqProperties
  <2>3. \A m \in 1 .. n : 1 + m - 1 = m /\ m \in 1 .. n - 1 + 1
    BY <1>1
  <2> QED
    BY <1>1, <2>2, <2>3
<1>4. s3 \in Seq(ConfigPairs) /\ Len(s3) = Len(d) - n /\ \A m \in 1 .. Len(d) - n : s3[m] = d[n + m]
  <2>1. n + 1 \in Int /\ Len(d) \in Int /\ \A m \in n + 1 .. Len(d) : d[m] \in ConfigPairs
    BY <1>1, <1>2
  <2>2. /\ SubSeq(d, n + 1, Len(d)) \in Seq(ConfigPairs)
        /\ Len(SubSeq(d, n + 1, Len(d))) = IF n + 1 <= Len(d) THEN Len(d) - (n + 1) + 1 ELSE 0
        /\ \A m \in 1 .. Len(d) - (n + 1) + 1 : SubSeq(d, n + 1, Len(d))[m] = d[n + 1 + m - 1]
    BY <2>1, SubSeqProperties
  <2>3. \A m \in 1 .. Len(d) - n : n + 1 + m - 1 = n + m /\ m \in 1 .. Len(d) - (n + 1) + 1
    BY <1>1
  <2> QED
    BY <1>1, <2>2, <2>3
<1>5. s2 \in Seq(ConfigPairs) /\ Len(s2) = 1 /\ s2[1] = PairOf(line)
  BY PairType
<1>6. e = C!Place(d, line, n)
  BY DEF C!Place, PairOf
<1> HIDE DEF s1, s2, s3
<1>7. /\ s1 \o s2 \in Seq(ConfigPairs) /\ Len(s1 \o s2) = Len(s1) + Len(s2)
      /\ \A i \in 1 .. Len(s1) : (s1 \o s2)[i] = s1[i]
      /\ \A i \in 1 .. Len(s2) : (s1 \o s2)[Len(s1) + i] = s2[i]
  <2>1. s1 \in Seq(ConfigPairs) /\ s2 \in Seq(ConfigPairs)
    BY <1>3, <1>5
  <2> QED
    BY <2>1, Joined
<1> DEFINE t == s1 \o s2
<1> HIDE DEF t
<1>8. /\ e = t \o s3 /\ t \in Seq(ConfigPairs) /\ Len(t) = n + 1 /\ t[n + 1] = PairOf(line)
      /\ \A m \in 1 .. n : t[m] = d[m]
  BY <1>1, <1>3, <1>5, <1>7 DEF t
<1> HIDE DEF e
<1>9. /\ t \o s3 \in Seq(ConfigPairs) /\ Len(t \o s3) = Len(t) + Len(s3)
      /\ \A i \in 1 .. Len(t) : (t \o s3)[i] = t[i]
      /\ \A i \in 1 .. Len(s3) : (t \o s3)[Len(t) + i] = s3[i]
  <2>1. t \in Seq(ConfigPairs) /\ s3 \in Seq(ConfigPairs)
    BY <1>4, <1>8
  <2> QED
    BY <2>1, Joined
<1>10. \A m \in n + 1 .. Len(d) : e[m + 1] = d[m]
  <2>1. ASSUME NEW m \in n + 1 .. Len(d) PROVE e[m + 1] = d[m]
    <3> DEFINE i == m - n
    <3>1. i \in 1 .. Len(d) - n /\ m + 1 = (n + 1) + i /\ m = n + i
      BY <1>1
    <3> HIDE DEF i
    <3>2. e[(n + 1) + i] = s3[i]
      BY <1>4, <1>8, <1>9, <3>1
    <3>3. s3[i] = d[n + i]
      BY <1>4, <3>1
    <3> QED
      BY <3>1, <3>2, <3>3
  <2> QED
    BY <2>1
<1>11. e \in Seq(ConfigPairs) /\ Len(e) = Len(d) + 1
  BY <1>1, <1>4, <1>8, <1>9
<1>12. (\A m \in 1 .. n : e[m] = d[m]) /\ e[n + 1] = PairOf(line)
  <2>1. \A m \in 1 .. n : m \in 1 .. n + 1
    BY <1>1
  <2>2. n + 1 \in 1 .. n + 1
    BY <1>1
  <2> QED
    BY <1>8, <1>9, <2>1, <2>2
<1> QED
  BY <1>6, <1>10, <1>11, <1>12 DEF Placed

LEMMA PlacedAscends ==
  ASSUME NEW d \in Seq(ConfigPairs), NEW e, NEW n, NEW pair \in ConfigPairs,
         Ascends(d), PlaceOf(d, n, pair), Placed(d, e, n, pair)
  PROVE  Ascends(e)
<1>1. /\ n \in Nat /\ n <= Len(d) /\ Len(d) \in Nat /\ Len(e) = Len(d) + 1
      /\ \A m \in 1 .. Len(d) : d[m].key <= pair.key <=> m <= n
      /\ \A m \in 1 .. n : e[m] = d[m]
      /\ e[n + 1] = pair
      /\ \A m \in n + 1 .. Len(d) : e[m + 1] = d[m]
  BY DEF PlaceOf, Placed
<1>2. pair.key \in Nat /\ \A m \in 1 .. Len(d) : d[m].key \in Nat
  BY KeyIsNumber DEF ConfigPairs
<1> SUFFICES ASSUME NEW k \in Nat
             PROVE  \E q \in 0 .. Len(e) : \A m \in 1 .. Len(e) : e[m].key <= k <=> m <= q
  BY DEF Ascends
<1>3. PICK b \in 0 .. Len(d) : \A m \in 1 .. Len(d) : d[m].key <= k <=> m <= b
  BY DEF Ascends
<1>4. ASSUME NEW m \in 1 .. Len(e)
      PROVE  \/ m \in 1 .. n
             \/ m = n + 1
             \/ m - 1 \in n + 1 .. Len(d) /\ e[m] = d[m - 1] /\ m - 1 \in 1 .. Len(d)
  <2>1. CASE m > n + 1
    <3>1. m - 1 \in n + 1 .. Len(d) /\ m - 1 + 1 = m
      BY <1>1, <2>1
    <3>2. e[(m - 1) + 1] = d[m - 1]
      BY <1>1, <3>1
    <3> QED
      BY <1>1, <3>1, <3>2
  <2>2. CASE ~(m > n + 1)
    BY <1>1, <2>2
  <2> QED
    BY <2>1, <2>2
<1>5. CASE pair.key <= k
  <2>1. n <= b
    <3>1. CASE n = 0
      BY <1>3, <3>1
    <3>2. CASE n # 0
      <4>1. n \in 1 .. Len(d)
        BY <1>1, <3>2
      <4>2. d[n].key <= pair.key /\ d[n].key \in Nat
        BY <1>1, <1>2, <4>1
      <4>3. d[n].key <= k
        BY <1>2, <1>5, <4>2
      <4> QED
        BY <1>3, <4>1, <4>3
    <3> QED
      BY <3>1, <3>2
  <2>2. ASSUME NEW m \in 1 .. Len(e) PROVE e[m].key <= k <=> m <= b + 1
    <3>1. CASE m \in 1 .. n
      <4>1. m \in 1 .. Len(d) /\ e[m] = d[m] /\ m <= b /\ m <= b + 1
        BY <1>1, <1>3, <2>1, <3>1
      <4> QED
        BY <1>3, <4>1
    <3>2. CASE m = n + 1
      BY <1>1, <1>3, <1>5, <2>1, <3>2
    <3>3. CASE m - 1 \in n + 1 .. Len(d) /\ e[m] = d[m - 1] /\ m - 1 \in 1 .. Len(d)
      <4>1. d[m - 1].key <= k <=> m - 1 <= b
        BY <1>3, <3>3
      <4>2. m - 1 <= b <=> m <= b + 1
        BY <1>1, <1>3
      <4> QED
        BY <3>3, <4>1, <4>2
    <3> QED
      BY <1>4, <3>1, <3>2, <3>3
  <2>3. b + 1 \in 0 .. Len(e)
    BY <1>1, <1>3
  <2> QED
    BY <2>2, <2>3
<1>6. CASE k < pair.key
  <2>1. b <= n
    <3>1. CASE b = 0
      BY <1>1, <3>1
    <3>2. CASE b # 0
      <4>1. b \in 1 .. Len(d)
        BY <1>1, <1>3, <3>2
      <4>2. d[b].key <= k /\ d[b].key \in Nat
        BY <1>2, <1>3, <4>1
      <4>3. d[b].key <= pair.key
        BY <1>2, <1>6, <4>2
      <4> QED
        BY <1>1, <4>1, <4>3
    <3> QED
      BY <3>1, <3>2
  <2>2. ASSUME NEW m \in 1 .. Len(e) PROVE e[m].key <= k <=> m <= b
    <3>1. CASE m \in 1 .. n
      <4>1. m \in 1 .. Len(d) /\ e[m] = d[m]
        BY <1>1, <3>1
      <4> QED
        BY <1>3, <4>1
    <3>2. CASE m = n + 1
      <4>1. ~(pair.key <= k) /\ ~(n + 1 <= b)
        BY <1>1, <1>2, <1>3, <1>6, <2>1
      <4> QED
        BY <1>1, <3>2, <4>1
    <3>3. CASE m - 1 \in n + 1 .. Len(d) /\ e[m] = d[m - 1] /\ m - 1 \in 1 .. Len(d)
      <4>1. ~(m - 1 <= b) /\ ~(m <= b)
        BY <1>1, <1>3, <2>1, <3>3
      <4> QED
        BY <1>3, <3>3, <4>1
    <3> QED
      BY <1>4, <3>1, <3>2, <3>3
  <2>3. b \in 0 .. Len(e)
    BY <1>1, <1>3
  <2> QED
    BY <2>2, <2>3
<1> QED
  BY <1>2, <1>5, <1>6

(* A pair read is in the data after those of its key.                       *)
LEMMA PlacedHolds ==
  ASSUME NEW f \in Seq(FileLines), NEW line \in FileLines, line.kind = "pair", NEW from \in 0 .. Len(f),
         NEW d \in Seq(ConfigPairs), NEW e, NEW n, NEW at,
         Holds(f, d, from, Len(f), at),
         PlaceOf(d, n, PairOf(line)), Placed(d, e, n, PairOf(line))
  PROVE  \E new : Holds(Append(f, line), e, from, Len(f) + 1, new)
<1> DEFINE g  == Append(f, line)
           z  == Len(f) + 1
           new == [m \in 1 .. Len(e) |-> IF m <= n THEN at[m] ELSE IF m = n + 1 THEN z ELSE at[m - 1]]
           Old == PairsIn(f, from, Len(f))
           All == PairsIn(g, from, z)
<1>1. /\ n \in Nat /\ n <= Len(d) /\ Len(d) \in Nat /\ Len(e) = Len(d) + 1
      /\ \A m \in 1 .. Len(d) : d[m].key <= line.key <=> m <= n
      /\ \A m \in 1 .. n : e[m] = d[m]
      /\ e[n + 1] = PairOf(line)
      /\ \A m \in n + 1 .. Len(d) : e[m + 1] = d[m]
  BY DEF PlaceOf, Placed, PairOf
<1>2. line.key \in Nat /\ \A m \in 1 .. Len(d) : d[m].key \in Nat
  BY KeyIsNumber, ConfigAssumption
<1>3. /\ Len(f) \in Nat /\ z \in Nat /\ from \in Nat /\ from < z /\ g[z] = line
      /\ \A i \in 1 .. Len(f) : g[i] = f[i]
  BY AppendProperties
<1> HIDE DEF g
<1>4. All = Old \cup {z}
  <2>1. \A i : i \in All <=> i \in Old \/ i = z
    <3>1. \A i : i \in from + 1 .. z <=> i \in from + 1 .. Len(f) \/ i = z
      BY <1>3
    <3>2. \A i \in from + 1 .. Len(f) : g[i] = f[i]
      BY <1>3
    <3> QED
      BY <1>3, <3>1, <3>2 DEF PairsIn
  <2> QED
    BY <2>1
<1>5. Old \subseteq 1 .. Len(f) /\ z \notin Old /\ \A i \in Old : i < z /\ i \in Nat /\ g[i] = f[i]
  BY <1>3 DEF PairsIn
<1>6. /\ at \in [1 .. Len(d) -> Old]
      /\ \A i \in Old : \E m \in 1 .. Len(d) : at[m] = i
      /\ \A m \in 1 .. Len(d) : d[m].key = f[at[m]].key /\ d[m].value = f[at[m]].value
      /\ \A m, q \in 1 .. Len(d) :
           m < q => at[m] # at[q] /\ (d[m].key = d[q].key => at[m] < at[q])
  BY DEF Holds
<1>7. \A m \in 1 .. Len(d) : at[m] \in Old
  BY <1>6
<1> HIDE DEF Old, All, z
<1> DEFINE Lo(m) == m \in 1 .. n /\ m \in 1 .. Len(d) /\ e[m] = d[m] /\ new[m] = at[m]
           Mid(m) == m = n + 1 /\ e[m].key = line.key /\ e[m].value = line.value /\ new[m] = z
           Hi(m) == m > n + 1 /\ m - 1 \in n + 1 .. Len(d) /\ m - 1 \in 1 .. Len(d) /\ e[m] = d[m - 1] /\ new[m] = at[m - 1]
<1>8. ASSUME NEW m \in 1 .. Len(e) PROVE Lo(m) \/ Mid(m) \/ Hi(m)
  <2>1. CASE m <= n
    BY <1>1, <2>1
  <2>2. CASE m = n + 1
    BY <1>1, <2>2 DEF PairOf
  <2>3. CASE m > n + 1
    <3>1. m - 1 \in n + 1 .. Len(d) /\ (m - 1) + 1 = m
      BY <1>1, <2>3
    <3>2. e[(m - 1) + 1] = d[m - 1]
      BY <1>1, <3>1
    <3> QED
      BY <1>1, <2>3, <3>1, <3>2
  <2> QED
    BY <1>1, <2>1, <2>2, <2>3
<1>9. /\ \A m \in 1 .. n : m \in 1 .. Len(e) /\ new[m] = at[m]
      /\ n + 1 \in 1 .. Len(e) /\ new[n + 1] = z
      /\ \A m \in n + 1 .. Len(d) : m + 1 \in 1 .. Len(e) /\ new[m + 1] = at[m]
  <2>1. \A m \in 1 .. n : m \in 1 .. Len(e) /\ m <= n
    BY <1>1
  <2>2. n + 1 \in 1 .. Len(e) /\ ~(n + 1 <= n)
    BY <1>1
  <2>3. \A m \in n + 1 .. Len(d) : m + 1 \in 1 .. Len(e) /\ ~(m + 1 <= n) /\ m + 1 # n + 1 /\ (m + 1) - 1 = m
    BY <1>1
  <2> QED
    BY <2>1, <2>2, <2>3
<1>10. new \in [1 .. Len(e) -> All]
  <2>1. ASSUME NEW m \in 1 .. Len(e) PROVE new[m] \in All
    <3> HIDE DEF new
    <3> QED
      BY <1>4, <1>7, <1>8
  <2>2. new = [m \in 1 .. Len(e) |-> new[m]]
    OBVIOUS
  <2> HIDE DEF new
  <2> QED
    BY <2>1, <2>2
<1> HIDE DEF new
<1>11. ASSUME NEW i \in All PROVE \E m \in 1 .. Len(e) : new[m] = i
  <2>1. CASE i = z
    BY <1>9, <2>1
  <2>2. CASE i \in Old
    <3>1. PICK m \in 1 .. Len(d) : at[m] = i
      BY <1>6, <2>2
    <3>2. CASE m <= n
      <4>1. m \in 1 .. n
        BY <1>1, <3>2
      <4> QED
        BY <1>9, <3>1, <4>1
    <3>3. CASE m > n
      <4>1. m \in n + 1 .. Len(d)
        BY <1>1, <3>3
      <4> QED
        BY <1>9, <3>1, <4>1
    <3> QED
      BY <1>1, <3>2, <3>3
  <2> QED
    BY <1>4, <2>1, <2>2
<1>12. ASSUME NEW m \in 1 .. Len(e)
       PROVE  e[m].key = g[new[m]].key /\ e[m].value = g[new[m]].value
  <2>0. \A k \in 1 .. Len(d) : d[k].key = g[at[k]].key /\ d[k].value = g[at[k]].value
    <3>1. \A k \in 1 .. Len(d) : g[at[k]] = f[at[k]]
      BY <1>5, <1>7
    <3> QED
      BY <1>6, <3>1
  <2>1. CASE Lo(m)
    BY <2>0, <2>1
  <2>2. CASE Mid(m)
    BY <1>3, <2>2
  <2>3. CASE Hi(m)
    BY <2>0, <2>3
  <2> QED
    BY <1>8, <2>1, <2>2, <2>3
<1>13. ASSUME NEW m \in 1 .. Len(e), NEW q \in 1 .. Len(e), m < q
       PROVE  new[m] # new[q] /\ (e[m].key = e[q].key => new[m] < new[q])
  <2>1. CASE Lo(m) /\ Lo(q)
    BY <1>6, <1>13, <2>1
  <2>2. CASE Lo(m) /\ Mid(q)
    BY <1>5, <1>7, <2>2
  <2>3. CASE Lo(m) /\ Hi(q)
    <3>1. m < q - 1
      BY <1>1, <2>3
    <3> QED
      BY <1>6, <2>3, <3>1
  <2>4. CASE Mid(m) /\ Hi(q)
    <3>1. new[m] # new[q]
      BY <1>5, <1>7, <2>4
    <3>2. ~(d[q - 1].key <= line.key)
      BY <1>1, <2>4
    <3>3. e[m].key # e[q].key
      BY <1>2, <2>4, <3>2
    <3> QED
      BY <3>1, <3>3
  <2>5. CASE Hi(m) /\ Hi(q)
    <3>1. m - 1 < q - 1
      BY <1>13
    <3> QED
      BY <1>6, <2>5, <3>1
  <2>6. /\ Mid(m) => ~Lo(q) /\ ~Mid(q)
        /\ Hi(m) => ~Lo(q) /\ ~Mid(q)
    BY <1>1, <1>13
  <2> QED
    BY <1>8, <2>1, <2>2, <2>3, <2>4, <2>5, <2>6
<1>14. Holds(g, e, from, z, new)
  BY <1>10, <1>11, <1>12, <1>13 DEF Holds, All
<1> QED
  BY <1>14 DEF g, z

-----------------------------------------------------------------------------
(* The first header of the section, and data that holds what is after it    *)
IsHead(f, i) == f[i].kind = "section" /\ f[i].key = Section
Headed(f, hd) == /\ hd \in 1 .. Len(f) /\ IsHead(f, hd)
                 /\ \A i \in 1 .. hd - 1 : ~IsHead(f, i) /\ f[i].kind # "long"
Within(f, hd, to) == \A i \in hd + 1 .. to : f[i].kind \in {"pair", "blank"}
Loaded(f, d, hd, to) == Headed(f, hd) /\ Within(f, hd, to) /\ \E at : Holds(f, d, hd, to, at)

(* A file of which no section can be read                                   *)
Unsound(f, w) ==
  \/ ~w
  \/ \A i \in 1 .. Len(f) : ~IsHead(f, i)
  \/ \E hd : Headed(f, hd) /\ \A i \in hd + 1 .. Len(f) : f[i].kind # "end"

ReadTypes ==
  /\ file \in Seq(FileLines) /\ data \in Seq(ConfigPairs) /\ Ascends(data)
  /\ whole \in BOOLEAN /\ opened \in BOOLEAN /\ phase \in {"find", "process", "idle"}
Finding ==
  phase = "find" => /\ data = <<>> /\ whole = TRUE
                    /\ \A i \in 1 .. Len(file) : ~IsHead(file, i) /\ file[i].kind # "long"
Processing ==
  phase = "process" => whole = TRUE /\ \E hd : Loaded(file, data, hd, Len(file))
ReadWell ==
  phase = "idle" /\ opened /\ ret = "No_Error" =>
    /\ whole = TRUE
    /\ \E hd, stop : /\ stop \in hd + 1 .. Len(file) /\ file[stop].kind = "end"
                     /\ Loaded(file, data, hd, stop - 1)
ReadBadly ==
  phase = "idle" /\ ret # "No_Error" => data = <<>> /\ (opened => Unsound(file, whole))

(* Where the iterator stands, and what it has given for the key it was set to *)
Given(d, k, below, n, vs) ==
  Len(vs) = n - 1 - below /\ \A i \in 1 .. Len(vs) : vs[i] = d[below + i].value
Iterating ==
  /\ values \in Seq({line.value : line \in FileLines})
  /\ phase = "idle" =>
       /\ pos \in 1 .. end /\ end \in 1 .. Len(data) + 1
       /\ key # 0 => /\ key \in Keys /\ end = C!UpTo(key) + 1 /\ C!Below(key) + 1 <= pos
                     /\ Given(data, key, C!Below(key), pos, values)

Configured == ReadTypes /\ Finding /\ Processing /\ ReadWell /\ ReadBadly /\ Iterating

LEMMA EmptyAscends == Ascends(<<>>)
<1>1. Len(<<>>) = 0 /\ 0 \in 0 .. 0 /\ 1 .. 0 = {}
  OBVIOUS
<1> QED
  BY <1>1 DEF Ascends

LEMMA BoundsKept == ASSUME data' = data PROVE \A k : C!UpTo(k)' = C!UpTo(k) /\ C!Below(k)' = C!Below(k)
  BY DEF C!UpTo, C!Below, C!Cardinality

LEMMA ConfigInit == C!Init => Configured
<1> SUFFICES ASSUME C!Init PROVE Configured
  OBVIOUS
<1>1. /\ data = <<>> /\ pos = 1 /\ end = 1 /\ phase = "idle" /\ opened = FALSE /\ ret = "No_Error"
      /\ file = <<>> /\ whole = TRUE /\ key = 0 /\ values = <<>> /\ Len(data) = 0
  BY DEF C!Init
<1>2. ReadTypes
  <2>1. Ascends(data)
    BY <1>1, EmptyAscends
  <2>2. file \in Seq(FileLines) /\ data \in Seq(ConfigPairs)
    BY <1>1
  <2> QED
    BY <1>1, <2>1, <2>2 DEF ReadTypes
<1>3. Iterating
  BY <1>1 DEF Iterating
<1> QED
  BY <1>1, <1>2, <1>3 DEF Configured, Finding, Processing, ReadWell, ReadBadly

(* Calls of the iterator                                                    *)
LEMMA SetStep ==
  ASSUME Configured, NEW k, k = 0 \/ k \in Keys, NEW p, NEW z, C!Set(p, z, k),
         p \in 1 .. z, z \in 1 .. Len(data) + 1,
         k # 0 => p = C!Below(k) + 1 /\ z = C!UpTo(k) + 1
  PROVE  Configured'
<1>1. /\ phase = "idle" /\ pos' = p /\ end' = z /\ key' = k /\ values' = <<>>
      /\ UNCHANGED <<data, phase, opened, ret, file, whole>>
  BY DEF C!Set
<1>2. ReadTypes' /\ Finding' /\ Processing' /\ ReadWell' /\ ReadBadly'
  BY <1>1 DEF Configured, ReadTypes, Finding, Processing, ReadWell, ReadBadly
<1>3. Iterating'
  <2>1. ASSUME k # 0 PROVE Given(data, k, C!Below(k), p, <<>>)
    <3>1. Len(<<>>) = 0 /\ 1 .. 0 = {} /\ p = C!Below(k) + 1
      BY <2>1
    <3>2. C!Below(k) \in Int
      <4>1. k \in Nat \ {0}
        BY <2>1, ConfigAssumption
      <4> QED
        BY <4>1, BoundsAre DEF Bounds, Configured, ReadTypes
    <3> QED
      BY <3>1, <3>2 DEF Given
  <2>2. \A m : C!UpTo(m)' = C!UpTo(m) /\ C!Below(m)' = C!Below(m)
    BY <1>1, BoundsKept
  <2>3. <<>> \in Seq({line.value : line \in FileLines})
    OBVIOUS
  <2>4. k # 0 => C!Below(k) + 1 <= p
    BY <2>2
  <2> QED
    BY <1>1, <2>1, <2>2, <2>3, <2>4 DEF Iterating
<1> QED
  BY <1>2, <1>3 DEF Configured

LEMMA CallsStep ==
  ASSUME Configured, C!ReadReset \/ \E k \in Keys : C!FindKey(k)
  PROVE  Configured'
<1>0. data \in Seq(ConfigPairs) /\ Ascends(data) /\ Len(data) \in Nat
  BY DEF Configured, ReadTypes
<1>1. CASE C!ReadReset
  <2>1. C!Set(1, Len(data) + 1, 0)
    BY <1>1 DEF C!ReadReset
  <2>2. 1 \in 1 .. Len(data) + 1 /\ Len(data) + 1 \in 1 .. Len(data) + 1
    BY <1>0
  <2> QED
    BY <2>1, <2>2, SetStep
<1>2. ASSUME NEW k \in Keys, C!FindKey(k) PROVE Configured'
  <2>1. C!Set(C!Below(k) + 1, C!UpTo(k) + 1, k)
    BY <1>2 DEF C!FindKey
  <2>2. k \in Nat \ {0}
    BY ConfigAssumption
  <2>3. Bounds(data, k, C!Below(k), C!UpTo(k))
    BY <1>0, <2>2, BoundsAre
  <2>4. C!Below(k) + 1 \in 1 .. C!UpTo(k) + 1 /\ C!UpTo(k) + 1 \in 1 .. Len(data) + 1
    BY <1>0, <2>3 DEF Bounds
  <2> QED
    BY <2>1, <2>4, SetStep
<1> QED
  BY <1>1, <1>2

LEMMA ReadKeyStep == Configured /\ C!ReadKeyValue => Configured'
<1> SUFFICES ASSUME Configured, C!ReadKeyValue PROVE Configured'
  OBVIOUS
<1>1. /\ phase = "idle" /\ pos # end /\ pos' = pos + 1 /\ values' = Append(values, data[pos].value)
      /\ UNCHANGED <<data, end, phase, opened, ret, file, whole, key>>
  BY DEF C!ReadKeyValue
<1>2. ReadTypes' /\ Finding' /\ Processing' /\ ReadWell' /\ ReadBadly'
  BY <1>1 DEF Configured, ReadTypes, Finding, Processing, ReadWell, ReadBadly
<1> DEFINE Vs == {line.value : line \in FileLines}
<1>3. /\ data \in Seq(ConfigPairs) /\ Ascends(data) /\ Len(data) \in Nat
      /\ values \in Seq(Vs) /\ pos \in 1 .. end /\ end \in 1 .. Len(data) + 1
  BY <1>1 DEF Configured, ReadTypes, Iterating
<1>4. pos \in 1 .. Len(data) /\ pos + 1 \in 1 .. end /\ pos \in Nat
  BY <1>1, <1>3
<1>5. data[pos].value \in Vs
  <2>1. data[pos] \in ConfigPairs
    BY <1>3, <1>4, KeyIsNumber
  <2> QED
    BY <2>1 DEF ConfigPairs
<1> HIDE DEF Vs
<1>6. /\ values' \in Seq(Vs) /\ Len(values') = Len(values) + 1 /\ Len(values) \in Nat
      /\ \A i \in 1 .. Len(values) : values'[i] = values[i]
      /\ values'[Len(values) + 1] = data[pos].value
  BY <1>1, <1>3, <1>5, AppendProperties
<1>7. \A m : C!UpTo(m)' = C!UpTo(m) /\ C!Below(m)' = C!Below(m)
  BY <1>1, BoundsKept
<1>8. ASSUME key # 0
      PROVE  /\ key \in Keys /\ end = C!UpTo(key) + 1 /\ C!Below(key) + 1 <= pos + 1
             /\ Given(data, key, C!Below(key), pos + 1, values')
  <2>1. /\ key \in Keys /\ end = C!UpTo(key) + 1 /\ C!Below(key) + 1 <= pos
        /\ Len(values) = pos - 1 - C!Below(key)
        /\ \A i \in 1 .. Len(values) : values[i] = data[C!Below(key) + i].value
    BY <1>1, <1>8 DEF Configured, Iterating, Given
  <2>2. C!Below(key) \in Nat
    <3>1. key \in Nat \ {0}
      BY <2>1, ConfigAssumption
    <3> QED
      BY <1>3, <3>1, BoundsAre DEF Bounds
  <2>3. Len(values') = (pos + 1) - 1 - C!Below(key) /\ C!Below(key) + 1 <= pos + 1
    BY <1>4, <1>6, <2>1, <2>2
  <2>4. ASSUME NEW i \in 1 .. Len(values') PROVE values'[i] = data[C!Below(key) + i].value
    <3>1. CASE i <= Len(values)
      BY <1>6, <2>1, <3>1
    <3>2. CASE i = Len(values) + 1
      <4>1. C!Below(key) + i = pos
        BY <1>4, <2>1, <2>2, <3>2
      <4> QED
        BY <1>6, <3>2, <4>1
    <3> QED
      BY <1>6, <3>1, <3>2
  <2> QED
    BY <2>1, <2>3, <2>4 DEF Given
<1>9. Iterating'
  BY <1>1, <1>3, <1>4, <1>6, <1>7, <1>8 DEF Iterating, Vs
<1> QED
  BY <1>2, <1>9 DEF Configured

-----------------------------------------------------------------------------
(* read_file()                                                              *)
LEMMA ReadFileStep == C!ReadFile => Configured'
<1> SUFFICES ASSUME C!ReadFile PROVE Configured'
  OBVIOUS
<1>1. /\ phase' = "find" /\ opened' \in BOOLEAN /\ data' = <<>> /\ file' = <<>> /\ whole' = TRUE
      /\ values' = <<>>
  BY DEF C!ReadFile
<1>2. ReadTypes'
  <2>1. Ascends(data')
    BY <1>1, EmptyAscends
  <2>2. file' \in Seq(FileLines) /\ data' \in Seq(ConfigPairs)
    BY <1>1
  <2> QED
    BY <1>1, <2>1, <2>2 DEF ReadTypes, Ascends
<1>3. Finding'
  <2>1. 1 .. Len(file') = {}
    BY <1>1
  <2> QED
    BY <1>1, <2>1 DEF Finding
<1> QED
  BY <1>1, <1>2, <1>3 DEF Configured, Processing, ReadWell, ReadBadly, Iterating

LEMMA ReturnIterates ==
  ASSUME NEW r, C!Return(r), data' \in Seq(ConfigPairs)
  PROVE  Iterating'
<1>1. /\ phase' = "idle" /\ pos' = 1 /\ end' = Len(data') + 1 /\ key' = 0 /\ values' = <<>>
  BY DEF C!Return
<1>2. Len(data') \in Nat
  OBVIOUS
<1>3. pos' \in 1 .. end' /\ end' \in 1 .. Len(data') + 1
  BY <1>1, <1>2
<1> QED
  BY <1>1, <1>3 DEF Iterating

LEMMA ErrorReturns ==
  ASSUME Configured, NEW r, r # "No_Error", C!Return(r), UNCHANGED opened,
         file' \in Seq(FileLines), whole' \in BOOLEAN, opened => Unsound(file', whole')
  PROVE  Configured'
<1>1. phase' = "idle" /\ ret' = r /\ data' = <<>>
  BY DEF C!Return, C!DataAfter
<1>2. data' \in Seq(ConfigPairs)
  BY <1>1
<1>3. Ascends(data')
  BY <1>1, EmptyAscends
<1>4. ReadTypes'
  BY <1>1, <1>2, <1>3 DEF ReadTypes, Ascends, Configured
<1>5. Finding' /\ Processing' /\ ReadWell'
  BY <1>1 DEF Finding, Processing, ReadWell
<1>6. ReadBadly'
  BY <1>1 DEF ReadBadly, Unsound, Headed, IsHead
<1> QED
  BY <1>2, <1>4, <1>5, <1>6, ReturnIterates DEF Configured

(* What a file holds does not change with lines after it.                   *)
LEMMA LoadedKept ==
  ASSUME NEW f \in Seq(FileLines), NEW line \in FileLines, NEW d, NEW hd, NEW to \in 0 .. Len(f),
         Loaded(f, d, hd, to)
  PROVE  Loaded(Append(f, line), d, hd, to)
<1> DEFINE g == Append(f, line)
<1>1. Len(g) = Len(f) + 1 /\ Len(f) \in Nat /\ to \in Nat /\ \A i \in 1 .. Len(f) : g[i] = f[i]
  BY AppendProperties
<1> HIDE DEF g
<1>2. hd \in 1 .. Len(f)
  BY DEF Loaded, Headed
<1>3. /\ \A i \in 1 .. hd - 1 : g[i] = f[i]
      /\ \A i \in hd + 1 .. to : g[i] = f[i]
      /\ hd \in 1 .. Len(g) /\ g[hd] = f[hd]
  BY <1>1, <1>2
<1>4. Headed(g, hd)
  BY <1>3 DEF Loaded, Headed, IsHead
<1>5. Within(g, hd, to)
  BY <1>3 DEF Loaded, Within
<1>6. PairsIn(g, hd, to) = PairsIn(f, hd, to)
  BY <1>3 DEF PairsIn
<1>7. PICK at : Holds(f, d, hd, to, at)
  BY DEF Loaded
<1>8. Holds(g, d, hd, to, at)
  <2>1. /\ at \in [1 .. Len(d) -> PairsIn(f, hd, to)]
        /\ \A m \in 1 .. Len(d) : d[m].key = f[at[m]].key /\ d[m].value = f[at[m]].value
    BY <1>7 DEF Holds
  <2>2. \A m \in 1 .. Len(d) : at[m] \in hd + 1 .. to
    BY <2>1 DEF PairsIn
  <2>3. \A m \in 1 .. Len(d) : d[m].key = g[at[m]].key /\ d[m].value = g[at[m]].value
    BY <1>3, <2>1, <2>2
  <2> QED
    BY <1>6, <1>7, <2>3 DEF Holds
<1> QED
  BY <1>4, <1>5, <1>8 DEF Loaded, g

(* A line read                                                              *)
LEMMA ReadsLine ==
  ASSUME ReadTypes, NEW line \in FileLines, C!Reads(line)
  PROVE  /\ opened /\ file' = Append(file, line) /\ file' \in Seq(FileLines)
         /\ Len(file') = Len(file) + 1 /\ Len(file) \in Nat
         /\ \A i \in 1 .. Len(file) : file'[i] = file[i]
         /\ file'[Len(file) + 1] = line
<1>1. opened /\ file' = Append(file, line) /\ file \in Seq(FileLines)
  BY DEF C!Reads, ReadTypes
<1> QED
  BY <1>1, AppendProperties

(* ... leaves a file unsound of which nothing is read yet, or no [END],     *)
(* unless it is the line that is looked for.                                *)
LEMMA StillUnsound ==
  ASSUME Configured, phase # "idle", NEW line \in FileLines, C!Reads(line), NEW w,
         phase = "find" => line.kind # "section",
         phase = "process" => line.kind # "end"
  PROVE  Unsound(file', w)
<1>1. /\ Len(file') = Len(file) + 1 /\ Len(file) \in Nat
      /\ \A i \in 1 .. Len(file) : file'[i] = file[i]
      /\ file'[Len(file) + 1] = line
  BY ReadsLine DEF Configured
<1>2. CASE phase = "find"
  <2>1. ASSUME NEW i \in 1 .. Len(file') PROVE ~IsHead(file', i)
    <3>1. CASE i <= Len(file)
      <4>1. i \in 1 .. Len(file) /\ file'[i] = file[i]
        BY <1>1, <3>1
      <4> QED
        BY <1>2, <4>1 DEF Configured, Finding, IsHead
    <3>2. CASE i = Len(file) + 1
      BY <1>1, <1>2, <3>2 DEF IsHead
    <3> QED
      BY <1>1, <3>1, <3>2
  <2> QED
    BY <2>1 DEF Unsound
<1>3. CASE phase = "process"
  <2>1. PICK hd : Loaded(file, data, hd, Len(file))
    BY <1>3 DEF Configured, Processing
  <2>2. file \in Seq(FileLines) /\ file' = Append(file, line) /\ Len(file) \in 0 .. Len(file)
    BY <1>1 DEF Configured, ReadTypes, C!Reads
  <2>3. Loaded(file', data, hd, Len(file))
    BY <2>1, <2>2, LoadedKept
  <2>4. Headed(file', hd) /\ Within(file', hd, Len(file)) /\ hd \in 1 .. Len(file)
    BY <2>1, <2>3 DEF Loaded, Headed
  <2>5. ASSUME NEW i \in hd + 1 .. Len(file') PROVE file'[i].kind # "end"
    <3>1. CASE i <= Len(file)
      <4>1. i \in hd + 1 .. Len(file)
        BY <1>1, <2>4, <3>1
      <4>2. file'[i].kind \in {"pair", "blank"}
        BY <2>4, <4>1 DEF Within
      <4> QED
        BY <4>2
    <3>2. CASE i = Len(file) + 1
      BY <1>1, <1>3, <3>2
    <3> QED
      BY <1>1, <2>4, <3>1, <3>2
  <2> QED
    BY <2>4, <2>5 DEF Unsound
<1> QED
  BY <1>2, <1>3 DEF Configured, ReadTypes

LEMMA UnsoundSoFar == ASSUME Configured, phase # "idle", NEW w PROVE Unsound(file, w)
<1>1. CASE phase = "find"
  BY <1>1 DEF Configured, Finding, Unsound
<1>2. CASE phase = "process"
  <2>1. PICK hd : Loaded(file, data, hd, Len(file))
    BY <1>2 DEF Configured, Processing
  <2>2. Headed(file, hd) /\ \A i \in hd + 1 .. Len(file) : file[i].kind # "end"
    BY <2>1 DEF Loaded, Within
  <2> QED
    BY <2>2 DEF Unsound
<1> QED
  BY <1>1, <1>2 DEF Configured, ReadTypes

LEMMA FailsStep == Configured /\ (C!OpenFails \/ C!ReadFails) => Configured'
<1> SUFFICES ASSUME Configured, C!OpenFails \/ C!ReadFails PROVE Configured'
  OBVIOUS
<1>0. ReadTypes /\ file \in Seq(FileLines) /\ whole \in BOOLEAN
  BY DEF Configured, ReadTypes
<1>1. CASE C!OpenFails
  <2>1. ~opened /\ C!Return("E_config_open") /\ UNCHANGED <<opened, file, whole>>
    BY <1>1 DEF C!OpenFails
  <2> QED
    BY <1>0, <2>1, ErrorReturns
<1>2. CASE C!ReadFails
  <2>1. phase # "idle" /\ opened /\ UNCHANGED opened
    BY <1>2 DEF C!ReadFails
  <2>2. CASE UNCHANGED <<file, whole>> /\ C!Return("E_config_eof")
    <3>1. Unsound(file', whole')
      BY <2>1, <2>2, UnsoundSoFar
    <3> QED
      BY <1>0, <2>1, <2>2, <3>1, ErrorReturns
  <2>3. ASSUME NEW line \in FileLines, C!Reads(line), line.kind = "long",
               C!Return("E_config_read"), UNCHANGED whole
        PROVE  Configured'
    <3>1. Unsound(file', whole')
      BY <2>1, <2>3, StillUnsound
    <3>2. file' \in Seq(FileLines)
      BY <1>0, <2>3, ReadsLine
    <3> QED
      BY <1>0, <2>1, <2>3, <3>1, <3>2, ErrorReturns
  <2>4. ASSUME NEW line \in FileLines, C!Reads(line), C!Return("E_config_eof"), whole' = FALSE
        PROVE  Configured'
    <3>1. Unsound(file', whole')
      BY <2>4 DEF Unsound
    <3>2. file' \in Seq(FileLines)
      BY <1>0, <2>4, ReadsLine
    <3> QED
      BY <1>0, <2>1, <2>4, <3>1, <3>2, ErrorReturns
  <2> QED
    BY <1>2, <2>2, <2>3, <2>4 DEF C!ReadFails
<1> QED
  BY <1>1, <1>2

LEMMA FindStep == ASSUME Configured, NEW line \in FileLines, C!FindSection(line) PROVE Configured'
<1>1. /\ phase = "find" /\ C!Reads(line) /\ line.kind # "long" /\ UNCHANGED <<opened, whole, data>>
      /\ phase' = (IF line.kind = "section" /\ line.key = Section THEN "process" ELSE "find")
      /\ UNCHANGED <<pos, end, ret, key, values>>
  BY DEF C!FindSection, C!Good, C!GoOn
<1>2. /\ ReadTypes /\ data = <<>> /\ whole = TRUE
      /\ \A i \in 1 .. Len(file) : ~IsHead(file, i) /\ file[i].kind # "long"
      /\ values \in Seq({l.value : l \in FileLines})
  BY <1>1 DEF Configured, Finding, Iterating
<1>3. /\ opened /\ file' \in Seq(FileLines) /\ Len(file') = Len(file) + 1 /\ Len(file) \in Nat
      /\ \A i \in 1 .. Len(file) : file'[i] = file[i]
      /\ file'[Len(file) + 1] = line
  BY <1>1, <1>2, ReadsLine
<1>4. ReadTypes'
  BY <1>1, <1>2, <1>3 DEF ReadTypes, Ascends
<1>5. \A i \in 1 .. Len(file) : ~IsHead(file', i) /\ file'[i].kind # "long"
  BY <1>2, <1>3 DEF IsHead
<1>6. ASSUME phase' = "find" PROVE \A i \in 1 .. Len(file') : ~IsHead(file', i) /\ file'[i].kind # "long"
  <2>1. ~IsHead(file', Len(file) + 1) /\ file'[Len(file) + 1].kind # "long"
    BY <1>1, <1>3, <1>6 DEF IsHead
  <2>2. \A i \in 1 .. Len(file') : i \in 1 .. Len(file) \/ i = Len(file) + 1
    BY <1>3
  <2> QED
    BY <1>5, <2>1, <2>2
<1>7. ASSUME phase' = "process" PROVE \E hd : Loaded(file', data', hd, Len(file'))
  <2> DEFINE hd == Len(file) + 1
  <2>1. Headed(file', hd)
    <3>1. hd \in 1 .. Len(file') /\ IsHead(file', hd) /\ hd - 1 = Len(file)
      BY <1>1, <1>3, <1>7 DEF IsHead
    <3> QED
      BY <1>5, <3>1 DEF Headed
  <2>2. hd + 1 .. Len(file') = {}
    BY <1>3
  <2>3. Within(file', hd, Len(file'))
    BY <2>2 DEF Within
  <2>4. PairsIn(file', hd, Len(file')) = {}
    BY <2>2 DEF PairsIn
  <2>5. Len(data') = 0 /\ 1 .. Len(data') = {}
    BY <1>1, <1>2
  <2> DEFINE none == [m \in {} |-> 0]
  <2>6. none \in [1 .. Len(data') -> PairsIn(file', hd, Len(file'))]
    BY <2>4, <2>5
  <2>7. Holds(file', data', hd, Len(file'), none)
    BY <2>4, <2>5, <2>6 DEF Holds
  <2> QED
    BY <2>1, <2>3, <2>7 DEF Loaded
<1>8. phase' # "idle"
  BY <1>1
<1>9. Finding'
  BY <1>1, <1>2, <1>6 DEF Finding, IsHead
<1>10. Processing'
  BY <1>1, <1>2, <1>7 DEF Processing, Loaded, Headed, IsHead, Within, Holds, PairsIn
<1> QED
  BY <1>1, <1>2, <1>4, <1>8, <1>9, <1>10 DEF Configured, ReadWell, ReadBadly, Iterating

(* A line of the section goes into the data, if it is a pair.               *)
LEMMA ProcessGoesOn ==
  ASSUME Configured, phase = "process", NEW line \in FileLines, C!Reads(line), UNCHANGED <<opened, whole>>,
         C!GoOn("process"),
         \/ line.kind = "blank" /\ UNCHANGED data
         \/ line.kind = "pair" /\ data' = C!Inserted(data, line)
  PROVE  Configured'
<1>1. phase' = "process" /\ UNCHANGED <<pos, end, ret, key, values>>
  BY DEF C!GoOn
<1>2. /\ ReadTypes /\ whole = TRUE /\ file \in Seq(FileLines) /\ data \in Seq(ConfigPairs) /\ Ascends(data)
      /\ values \in Seq({l.value : l \in FileLines})
  BY DEF Configured, ReadTypes, Processing, Iterating
<1>3. /\ opened /\ file' = Append(file, line) /\ file' \in Seq(FileLines)
      /\ Len(file') = Len(file) + 1 /\ Len(file) \in Nat
      /\ file'[Len(file) + 1] = line
  BY <1>2, ReadsLine
<1>4. PICK hd : Loaded(file, data, hd, Len(file))
  BY DEF Configured, Processing
<1>5. Len(file) \in 0 .. Len(file)
  BY <1>3
<1>6. Loaded(file', data, hd, Len(file)) /\ hd \in 1 .. Len(file)
  <2>1. Loaded(file', data, hd, Len(file))
    BY <1>2, <1>3, <1>4, <1>5, LoadedKept
  <2>2. hd \in 1 .. Len(file)
    BY <1>4 DEF Loaded, Headed
  <2> QED
    BY <2>1, <2>2
<1>7. \A i : i \in hd + 1 .. Len(file) + 1 <=> i \in hd + 1 .. Len(file) \/ i = Len(file) + 1
  BY <1>3, <1>6
<1>8. Headed(file', hd) /\ Within(file', hd, Len(file) + 1)
  BY <1>3, <1>6, <1>7 DEF Loaded, Within
<1>9. data' \in Seq(ConfigPairs) /\ Ascends(data') /\ \E at : Holds(file', data', hd, Len(file) + 1, at)
  <2>1. CASE line.kind = "blank" /\ data' = data
    <3>1. PairsIn(file', hd, Len(file) + 1) = PairsIn(file', hd, Len(file))
      BY <1>3, <1>7, <2>1 DEF PairsIn
    <3>2. PICK at : Holds(file', data, hd, Len(file), at)
      BY <1>6 DEF Loaded
    <3>3. Holds(file', data', hd, Len(file) + 1, at)
      BY <2>1, <3>1, <3>2 DEF Holds
    <3> QED
      BY <1>2, <2>1, <3>3
  <2>2. CASE line.kind = "pair" /\ data' = C!Inserted(data, line)
    <3> DEFINE n == C!Cardinality({i \in 1 .. Len(data) : data[i].key <= line.key})
    <3>1. n = Cardinality({i \in 1 .. Len(data) : data[i].key <= line.key})
      BY SameCardinality
    <3>2. line.key \in Nat
      BY ConfigAssumption
    <3>3. data' = C!Place(data, line, n)
      BY <2>2 DEF C!Inserted
    <3> HIDE DEF n
    <3>4. n \in 0 .. Len(data) /\ \A m \in 1 .. Len(data) : data[m].key <= line.key <=> m <= n
      BY <1>2, <3>1, <3>2, UpToIs
    <3>5. PlaceOf(data, n, PairOf(line))
      BY <3>4 DEF PlaceOf, PairOf
    <3>6. Placed(data, data', n, PairOf(line))
      BY <1>2, <3>3, <3>4, PlaceIs
    <3>7. PairOf(line) \in ConfigPairs
      BY PairType
    <3>8. Ascends(data') /\ data' \in Seq(ConfigPairs)
      BY <1>2, <3>5, <3>6, <3>7, PlacedAscends DEF Placed
    <3>9. PICK at : Holds(file, data, hd, Len(file), at)
      BY <1>4 DEF Loaded
    <3>10. hd \in 0 .. Len(file)
      BY <1>3, <1>6
    <3>11. \E new : Holds(Append(file, line), data', hd, Len(file) + 1, new)
      BY <1>2, <2>2, <3>5, <3>6, <3>9, <3>10, PlacedHolds
    <3> QED
      BY <1>3, <3>8, <3>11
  <2> QED
    BY <2>1, <2>2
<1>10. Loaded(file', data', hd, Len(file'))
  BY <1>3, <1>8, <1>9 DEF Loaded
<1>11. ReadTypes'
  BY <1>1, <1>2, <1>3, <1>9 DEF ReadTypes, Ascends
<1>12. Processing'
  BY <1>2, <1>10 DEF Processing, Loaded, Headed, IsHead, Within, Holds, PairsIn
<1> QED
  BY <1>1, <1>2, <1>11, <1>12 DEF Configured, Finding, ReadWell, ReadBadly, Iterating

LEMMA ProcessStep == ASSUME Configured, NEW line \in FileLines, C!ProcessSection(line) PROVE Configured'
<1>1. /\ phase = "process" /\ C!Reads(line) /\ line.kind # "long" /\ UNCHANGED <<opened, whole>>
  BY DEF C!ProcessSection, C!Good
<1>2. /\ ReadTypes /\ whole = TRUE /\ whole \in BOOLEAN /\ file \in Seq(FileLines)
      /\ data \in Seq(ConfigPairs) /\ Ascends(data)
  BY <1>1 DEF Configured, ReadTypes, Processing
<1>3. /\ opened /\ file' = Append(file, line) /\ file' \in Seq(FileLines)
      /\ Len(file') = Len(file) + 1 /\ Len(file) \in Nat /\ file'[Len(file) + 1] = line
  BY <1>1, <1>2, ReadsLine
<1>4. CASE line.kind = "end" /\ C!Return("No_Error")
  <2>1. phase' = "idle" /\ ret' = "No_Error" /\ data' = data
    BY <1>4 DEF C!Return, C!DataAfter
  <2>2. PICK hd : Loaded(file, data, hd, Len(file))
    BY <1>1 DEF Configured, Processing
  <2>3. Len(file) \in 0 .. Len(file)
    BY <1>3
  <2>4. Loaded(file', data, hd, Len(file)) /\ hd \in 1 .. Len(file)
    <3>1. Loaded(file', data, hd, Len(file))
      BY <1>2, <1>3, <2>2, <2>3, LoadedKept
    <3>2. hd \in 1 .. Len(file)
      BY <2>2 DEF Loaded, Headed
    <3> QED
      BY <3>1, <3>2
  <2> DEFINE stop == Len(file) + 1
  <2>5. stop \in hd + 1 .. Len(file') /\ file'[stop].kind = "end" /\ stop - 1 = Len(file)
    BY <1>3, <1>4, <2>4
  <2> HIDE DEF stop
  <2>6. \E k, n : n \in k + 1 .. Len(file') /\ file'[n].kind = "end" /\ Loaded(file', data', k, n - 1)
    BY <2>1, <2>4, <2>5
  <2>7. ReadWell'
    BY <1>1, <1>2, <2>6 DEF ReadWell, Loaded, Headed, IsHead, Within, Holds, PairsIn
  <2>8. ReadTypes'
    BY <1>1, <1>2, <1>3, <2>1 DEF ReadTypes, Ascends
  <2>9. Iterating'
    BY <1>2, <1>4, <2>1, ReturnIterates
  <2> QED
    BY <2>1, <2>7, <2>8, <2>9 DEF Configured, Finding, Processing, ReadBadly
<1>5. ASSUME NEW r, r # "No_Error", line.kind # "end", C!Return(r) PROVE Configured'
  <2>1. Unsound(file', whole')
    BY <1>1, <1>5, StillUnsound
  <2> QED
    BY <1>1, <1>2, <1>3, <1>5, <2>1, ErrorReturns
<1> QED
  BY <1>1, <1>4, <1>5, ProcessGoesOn DEF C!ProcessSection

LEMMA ConfigStep == Configured /\ [C!Next]_C!vars => Configured'
<1> SUFFICES ASSUME Configured, [C!Next]_C!vars PROVE Configured'
  OBVIOUS
<1>1. CASE UNCHANGED C!vars
  <2>1. UNCHANGED <<data, pos, end, phase, opened, ret, file, whole, key, values>>
    BY <1>1 DEF C!vars
  <2>2. \A m : C!UpTo(m)' = C!UpTo(m) /\ C!Below(m)' = C!Below(m)
    BY <2>1, BoundsKept
  <2>3. ReadTypes' /\ Finding' /\ Processing' /\ ReadWell' /\ ReadBadly'
    BY <2>1 DEF Configured, ReadTypes, Finding, Processing, ReadWell, ReadBadly
  <2>4. Iterating'
    BY <2>1, <2>2 DEF Configured, Iterating
  <2> QED
    BY <2>3, <2>4 DEF Configured
<1>2. ASSUME NEW line \in FileLines, C!FindSection(line) \/ C!ProcessSection(line) PROVE Configured'
  BY <1>2, FindStep, ProcessStep
<1>3. CASE C!ReadReset \/ \E k \in Keys : C!FindKey(k)
  BY <1>3, CallsStep
<1> QED
  BY <1>1, <1>2, <1>3, ReadFileStep, FailsStep, ReadKeyStep DEF C!Next

-----------------------------------------------------------------------------
(* What the properties of FileConfig call the section is what was loaded.   *)
LEMMA HeadsAre ==
  ASSUME file \in Seq(FileLines), NEW hd, Headed(file, hd)
  PROVE  /\ C!Heads # {} /\ C!Least(C!Heads) = hd /\ hd \in 1 .. Len(file) /\ Len(file) \in Nat
         /\ C!Ends = {i \in hd + 1 .. Len(file) : file[i].kind = "end"}
<1>1. hd \in 1 .. Len(file) /\ Len(file) \in Nat
  BY DEF Headed
<1>2. hd \in C!Heads /\ C!Heads \subseteq 1 .. Len(file)
  BY DEF Headed, IsHead, C!Heads
<1>3. ASSUME NEW i \in C!Heads PROVE hd <= i
  <2>1. i \in 1 .. Len(file) /\ IsHead(file, i)
    BY DEF C!Heads, IsHead
  <2>2. i \notin 1 .. hd - 1
    BY <2>1 DEF Headed
  <2> QED
    BY <1>1, <2>1, <2>2
<1>4. C!Heads \subseteq Int
  BY <1>1, <1>2
<1>5. C!Least(C!Heads) = hd
  BY <1>2, <1>3, <1>4, LeastIs
<1> QED
  BY <1>1, <1>2, <1>5 DEF C!Ends

LEMMA SoundIs ==
  ASSUME file \in Seq(FileLines), whole = TRUE, NEW hd, NEW stop \in hd + 1 .. Len(file),
         file[stop].kind = "end", Loaded(file, data, hd, stop - 1)
  PROVE  C!Sound /\ C!Pairs = PairsIn(file, hd, stop - 1)
<1>1. Headed(file, hd) /\ Within(file, hd, stop - 1)
  BY DEF Loaded
<1>2. /\ C!Heads # {} /\ C!Least(C!Heads) = hd /\ hd \in 1 .. Len(file) /\ Len(file) \in Nat
      /\ C!Ends = {i \in hd + 1 .. Len(file) : file[i].kind = "end"}
  BY <1>1, HeadsAre
<1>3. stop \in C!Ends /\ C!Ends \subseteq Int /\ stop \in Nat
  BY <1>2
<1>4. ASSUME NEW i \in C!Ends PROVE stop <= i
  <2>1. i \in hd + 1 .. Len(file) /\ file[i].kind = "end"
    BY <1>2
  <2>2. i \notin hd + 1 .. stop - 1
    BY <1>1, <2>1 DEF Within
  <2> QED
    BY <1>2, <1>3, <2>1, <2>2
<1>5. C!Least(C!Ends) = stop
  BY <1>3, <1>4, LeastIs
<1>6. \A i \in 1 .. stop : file[i].kind # "long"
  <2>1. ASSUME NEW i \in 1 .. stop PROVE file[i].kind # "long"
    <3>1. i \in 1 .. hd - 1 \/ i = hd \/ i \in hd + 1 .. stop - 1 \/ i = stop
      BY <1>2, <1>3
    <3> QED
      BY <1>1, <3>1 DEF Headed, IsHead, Within
  <2> QED
    BY <2>1
<1>7. C!Sound
  BY <1>1, <1>2, <1>3, <1>5, <1>6 DEF C!Sound, Within
<1>8. C!Pairs = PairsIn(file, hd, stop - 1)
  BY <1>2, <1>5 DEF C!Pairs, PairsIn
<1> QED
  BY <1>7, <1>8

LEMMA UnsoundIs == ASSUME file \in Seq(FileLines), Unsound(file, whole) PROVE ~C!Sound
<1>1. CASE ~whole
  BY <1>1 DEF C!Sound
<1>2. CASE \A i \in 1 .. Len(file) : ~IsHead(file, i)
  <2>1. C!Heads = {}
    BY <1>2 DEF C!Heads, IsHead
  <2> QED
    BY <2>1 DEF C!Sound
<1>3. CASE \E hd : Headed(file, hd) /\ \A i \in hd + 1 .. Len(file) : file[i].kind # "end"
  <2>1. PICK hd : Headed(file, hd) /\ \A i \in hd + 1 .. Len(file) : file[i].kind # "end"
    BY <1>3
  <2>2. C!Ends = {i \in hd + 1 .. Len(file) : file[i].kind = "end"}
    BY <2>1, HeadsAre
  <2>3. C!Ends = {}
    BY <2>1, <2>2
  <2> QED
    BY <2>3 DEF C!Sound
<1> QED
  BY <1>1, <1>2, <1>3 DEF Unsound

(* The pairs of a key are as many as it has places in the data, and one of  *)
(* them comes after as many as it has places before its own.                *)
Numbered(d, f, from, to, at, k, below, upto) ==
  LET theirs == {i \in PairsIn(f, from, to) : f[i].key = k}
  IN /\ Cardinality(theirs) = upto - below
     /\ \A m \in below + 1 .. upto :
          /\ at[m] \in theirs /\ d[m].value = f[at[m]].value
          /\ Cardinality({i \in theirs : i < at[m]}) = m - 1 - below

LEMMA PairsOfKey ==
  ASSUME NEW d \in Seq(ConfigPairs), NEW f, NEW from \in Nat, NEW to \in Int, NEW at,
         Holds(f, d, from, to, at), NEW k, NEW below, NEW upto, Bounds(d, k, below, upto), k \in Nat
  PROVE  Numbered(d, f, from, to, at, k, below, upto)
<1> DEFINE theirs == {i \in PairsIn(f, from, to) : f[i].key = k}
<1>1. below \in Nat /\ upto \in Nat /\ below <= upto /\ upto <= Len(d) /\ Len(d) \in Nat
  BY DEF Bounds
<1>2. /\ at \in [1 .. Len(d) -> PairsIn(f, from, to)]
      /\ \A i \in PairsIn(f, from, to) : \E m \in 1 .. Len(d) : at[m] = i
      /\ \A m \in 1 .. Len(d) : d[m].key = f[at[m]].key /\ d[m].value = f[at[m]].value
      /\ \A m, n \in 1 .. Len(d) :
           m < n => at[m] # at[n] /\ (d[m].key = d[n].key => at[m] < at[n])
  BY DEF Holds
<1>3. ASSUME NEW m \in 1 .. Len(d) PROVE d[m].key = k <=> m \in below + 1 .. upto
  <2>1. d[m].key \in Nat
    BY KeyIsNumber
  <2>2. /\ d[m].key <= k <=> m <= upto
        /\ d[m].key < k <=> m <= below
    BY DEF Bounds
  <2> QED
    BY <1>1, <2>1, <2>2
<1>4. ASSUME NEW m \in below + 1 .. upto
      PROVE  /\ m \in 1 .. Len(d) /\ d[m].key = k /\ at[m] \in theirs /\ d[m].value = f[at[m]].value
             /\ at[m] \in Int
  <2>1. m \in 1 .. Len(d)
    BY <1>1
  <2>2. d[m].key = k /\ at[m] \in PairsIn(f, from, to)
    BY <1>2, <1>3, <2>1
  <2>3. at[m] \in Int
    BY <2>2 DEF PairsIn
  <2> QED
    BY <1>2, <2>1, <2>2, <2>3
<1>5. ASSUME NEW i \in theirs PROVE \E m \in below + 1 .. upto : at[m] = i
  <2>1. PICK m \in 1 .. Len(d) : at[m] = i
    BY <1>2
  <2>2. d[m].key = k
    BY <1>2, <2>1
  <2> QED
    BY <1>3, <2>1, <2>2
<1>6. \A m, n \in below + 1 .. upto : m < n => at[m] # at[n] /\ at[m] < at[n]
  <2>1. ASSUME NEW m \in below + 1 .. upto, NEW n \in below + 1 .. upto, m < n
        PROVE  at[m] # at[n] /\ at[m] < at[n]
    <3>1. m \in 1 .. Len(d) /\ n \in 1 .. Len(d) /\ d[m].key = d[n].key
      BY <1>4
    <3> QED
      BY <1>2, <2>1, <3>1
  <2> QED
    BY <2>1
<1> HIDE DEF theirs
<1>7. Cardinality(theirs) = upto - below
  <2>1. \A m \in below + 1 .. upto : at[m] \in theirs
    BY <1>4
  <2> QED
    BY <1>1, <1>5, <1>6, <2>1, Counted
<1>8. ASSUME NEW m \in below + 1 .. upto PROVE Cardinality({i \in theirs : i < at[m]}) = m - 1 - below
  <2> DEFINE Before == {i \in theirs : i < at[m]}
             z == m - 1
  <2>1. /\ z \in Nat /\ below <= z
        /\ \A n \in below + 1 .. z : n \in below + 1 .. upto /\ n < m
        /\ \A n \in below + 1 .. upto : n \in below + 1 .. z \/ n = m \/ m < n
    BY <1>1
  <2>2. \A n \in below + 1 .. z : at[n] \in Before
    BY <1>4, <1>6, <2>1
  <2>3. ASSUME NEW i \in Before PROVE \E n \in below + 1 .. z : at[n] = i
    <3>1. PICK n \in below + 1 .. upto : at[n] = i
      BY <1>5
    <3>2. at[n] < at[m] /\ at[n] \in Int /\ at[m] \in Int
      BY <1>4, <3>1
    <3>3. ~(n = m) /\ ~(m < n)
      BY <1>6, <3>2
    <3> QED
      BY <2>1, <3>1, <3>3
  <2>4. \A q, n \in below + 1 .. z : q < n => at[q] # at[n]
    BY <1>6, <2>1
  <2> HIDE DEF Before, z
  <2>5. Cardinality(Before) = z - below
    BY <1>1, <2>1, <2>2, <2>3, <2>4, Counted
  <2> QED
    BY <2>5 DEF Before, z
<1> QED
  BY <1>4, <1>7, <1>8 DEF Numbered, theirs

(* So the properties of FileConfig hold wherever Configured does.           *)
LEMMA SectionIsLoaded ==
  ASSUME Configured, phase = "idle", opened, ret = "No_Error"
  PROVE  /\ C!Sound /\ Len(data) = Cardinality(C!Pairs)
         /\ \A k \in Nat \ {0} : LET theirs == {i \in C!Pairs : file[i].key = k} IN
              /\ Cardinality(theirs) = C!UpTo(k) - C!Below(k)
              /\ \A m \in C!Below(k) + 1 .. C!UpTo(k) :
                   \E i \in theirs : /\ file[i].value = data[m].value
                                     /\ Cardinality({j \in theirs : j < i}) = m - 1 - C!Below(k)
<1>1. file \in Seq(FileLines) /\ data \in Seq(ConfigPairs) /\ Ascends(data) /\ Len(data) \in Nat
  BY DEF Configured, ReadTypes
<1>2. PICK hd, stop : /\ stop \in hd + 1 .. Len(file) /\ file[stop].kind = "end"
                      /\ Loaded(file, data, hd, stop - 1)
  BY DEF Configured, ReadWell
<1>3. whole = TRUE
  BY DEF Configured, ReadWell
<1>4. C!Sound /\ C!Pairs = PairsIn(file, hd, stop - 1)
  BY <1>1, <1>2, <1>3, SoundIs
<1>5. hd \in Nat /\ stop - 1 \in Int
  <2>1. hd \in 1 .. Len(file) /\ Len(file) \in Nat
    BY <1>1, <1>2 DEF Loaded, Headed
  <2> QED
    BY <1>2, <2>1
<1>6. PICK at : Holds(file, data, hd, stop - 1, at)
  BY <1>2 DEF Loaded
<1>7. Len(data) = Cardinality(C!Pairs)
  <2> DEFINE n == Len(data)
             Ps == PairsIn(file, hd, stop - 1)
  <2>1. /\ \A m \in 0 + 1 .. n : at[m] \in Ps
        /\ \A i \in Ps : \E m \in 0 + 1 .. n : at[m] = i
        /\ \A m, q \in 0 + 1 .. n : m < q => at[m] # at[q]
    BY <1>6 DEF Holds
  <2>2. n \in Nat /\ 0 \in Nat /\ 0 <= n
    BY <1>1
  <2> HIDE DEF n, Ps
  <2>3. Cardinality(Ps) = n - 0
    BY <2>1, <2>2, Counted
  <2> QED
    BY <1>4, <2>2, <2>3 DEF n, Ps
<1>8. ASSUME NEW k \in Nat \ {0}
      PROVE  LET theirs == {i \in C!Pairs : file[i].key = k} IN
               /\ Cardinality(theirs) = C!UpTo(k) - C!Below(k)
               /\ \A m \in C!Below(k) + 1 .. C!UpTo(k) :
                    \E i \in theirs : /\ file[i].value = data[m].value
                                      /\ Cardinality({j \in theirs : j < i}) = m - 1 - C!Below(k)
  <2>1. Bounds(data, k, C!Below(k), C!UpTo(k)) /\ k \in Nat
    BY <1>1, BoundsAre
  <2> DEFINE b == C!Below(k)
             u == C!UpTo(k)
             mine == {i \in PairsIn(file, hd, stop - 1) : file[i].key = k}
  <2>2. Bounds(data, k, b, u)
    BY <2>1
  <2>3. mine = {i \in C!Pairs : file[i].key = k}
    BY <1>4
  <2> HIDE DEF b, u
  <2>4. /\ Cardinality(mine) = u - b
        /\ \A m \in b + 1 .. u : /\ at[m] \in mine /\ data[m].value = file[at[m]].value
                                 /\ Cardinality({i \in mine : i < at[m]}) = m - 1 - b
    <3>1. Numbered(data, file, hd, stop - 1, at, k, b, u)
      BY <1>1, <1>5, <1>6, <2>1, <2>2, PairsOfKey
    <3> QED
      BY <3>1 DEF Numbered
  <2> HIDE DEF mine
  <2>5. \A m \in b + 1 .. u :
          \E i \in mine : file[i].value = data[m].value /\ Cardinality({j \in mine : j < i}) = m - 1 - b
    BY <2>4
  <2> QED
    BY <2>3, <2>4, <2>5 DEF b, u
<1> QED
  BY <1>4, <1>7, <1>8

LEMMA ConfigHolds == Configured => C!SectionOrNothing /\ C!ValuesInFileOrder
<1> SUFFICES ASSUME Configured PROVE C!SectionOrNothing /\ C!ValuesInFileOrder
  OBVIOUS
<1>1. ASSUME phase = "idle", opened, ret # "No_Error" PROVE ~C!Sound
  BY <1>1, UnsoundIs DEF Configured, ReadTypes, ReadBadly
<1>2. C!SectionOrNothing
  <2>1. ASSUME phase = "idle", opened, ret = "No_Error"
        PROVE  /\ Len(data) = Cardinality(C!Pairs)
               /\ \A k \in Keys : C!UpTo(k) - C!Below(k)
                                = Cardinality({i \in C!Pairs : file[i].key = k})
    BY <2>1, SectionIsLoaded, ConfigAssumption
  <2>2. phase = "idle" /\ opened => ((ret = "No_Error") = C!Sound)
    BY <1>1, SectionIsLoaded DEF C!Sound
  <2>3. phase = "idle" /\ ret # "No_Error" => data = <<>>
    BY DEF Configured, ReadBadly
  <2> QED
    BY <2>1, <2>2, <2>3, SameCardinality DEF C!SectionOrNothing
<1>3. C!ValuesInFileOrder
  <2> SUFFICES ASSUME phase = "idle", ret = "No_Error", opened, key # 0
               PROVE  LET theirs == {i \in C!Pairs : file[i].key = key} IN
                        /\ Len(values) <= Cardinality(theirs)
                        /\ \A n \in 1 .. Len(values) :
                             \E i \in theirs : /\ file[i].value = values[n]
                                               /\ Cardinality({j \in theirs : j < i}) = n - 1
                        /\ pos = end => Len(values) = Cardinality(theirs)
    BY SameCardinality DEF C!ValuesInFileOrder
  <2> DEFINE theirs == {i \in C!Pairs : file[i].key = key}
             b == C!Below(key)
             u == C!UpTo(key)
  <2>1. /\ key \in Keys /\ end = u + 1 /\ b + 1 <= pos /\ pos \in 1 .. end
        /\ Len(values) = pos - 1 - b
        /\ \A i \in 1 .. Len(values) : values[i] = data[b + i].value
    BY DEF Configured, Iterating, Given
  <2>2. key \in Nat \ {0}
    BY <2>1, ConfigAssumption
  <2>3. b \in Nat /\ u \in Nat
    <3>1. data \in Seq(ConfigPairs) /\ Ascends(data)
      BY DEF Configured, ReadTypes
    <3> QED
      BY <2>2, <3>1, BoundsAre DEF Bounds
  <2>4. /\ Cardinality(theirs) = u - b
        /\ \A m \in b + 1 .. u :
             \E i \in theirs : /\ file[i].value = data[m].value
                               /\ Cardinality({j \in theirs : j < i}) = m - 1 - b
    BY <2>2, SectionIsLoaded
  <2> HIDE DEF theirs, b, u
  <2>5. ASSUME NEW n \in 1 .. Len(values)
        PROVE  \E i \in theirs : /\ file[i].value = values[n]
                                 /\ Cardinality({j \in theirs : j < i}) = n - 1
    <3>1. b + n \in b + 1 .. u /\ (b + n) - 1 - b = n - 1
      BY <2>1, <2>3
    <3>2. PICK i \in theirs : /\ file[i].value = data[b + n].value
                              /\ Cardinality({j \in theirs : j < i}) = (b + n) - 1 - b
      BY <2>4, <3>1
    <3> QED
      BY <2>1, <3>1, <3>2
  <2>6. Len(values) <= Cardinality(theirs) /\ (pos = end => Len(values) = Cardinality(theirs))
    BY <2>1, <2>3, <2>4
  <2> QED
    BY <2>5, <2>6 DEF theirs
<1> QED
  BY <1>2, <1>3

(* For every file: reading a section of it succeeds exactly if the section  *)
(* is sound, an error leaves nothing of it, and find_key() and              *)
(* read_key_value() then give the values of a key in the order of the file, *)
(* each once, and no other.                                                 *)
THEOREM ValuesAreInOrder == Spec => []ValuesInFileOrder
<1>1. Init => Configured
  BY ConfigInit DEF Init
<1>2. Configured /\ [Next]_<<component, fields, log, config, clock, latency, stats, prompts,
                             json, hexdump, endpoint>> => Configured'
  BY ConfigMoves, ConfigStep
<1>3. Configured => ValuesInFileOrder
  BY ConfigHolds DEF ValuesInFileOrder
<1> QED
  BY <1>1, <1>2, <1>3, PTL DEF Spec

-----------------------------------------------------------------------------
(* Clock.  Every step is a step of Clock or leaves it alone.                *)
LEMMA ClockMoves == [Next]_<<component, fields, log, config, clock, latency, stats, prompts,
                             json, hexdump, endpoint>> => [T!Next]_T!clock
  BY DEF Next, clock, T!clock

(* Digits of a number are some items, and a text may hold any items.        *)
LEMMA PrintedIs ==
  ASSUME NEW v, NEW n \in Nat, NEW Items, \A i \in 1 .. n : T!Printed(v, n)[i] \in Items
  PROVE  T!Printed(v, n) \in Seq(Items) /\ Len(T!Printed(v, n)) = n
<1> DEFINE p == T!Printed(v, n)
<1>1. p = [i \in 1 .. n |-> p[i]]
  BY DEF T!Printed
<1> HIDE DEF p
<1>2. p \in [1 .. n -> Items]
  <2>1. \A i \in 1 .. n : p[i] \in Items
    BY DEF p
  <2> QED
    BY <1>1, <2>1
<1>3. p \in Seq(Items) /\ Len(p) = n
  BY <1>2, SeqDef, LenProperties
<1> QED
  BY <1>3 DEF p

(* A text with other microseconds                                           *)
LEMMA PatchedIs ==
  ASSUME NEW Items, NEW q \in Seq(Items), NEW u, NEW v,
         T!Printed(u, 6) \in Seq(Items), Len(T!Printed(u, 6)) = 6,
         T!Printed(v, 6) \in Seq(Items), Len(T!Printed(v, 6)) = 6
  PROVE  T!Patched(q \o T!Printed(u, 6), v) = q \o T!Printed(v, 6)
<1> DEFINE old == q \o T!Printed(u, 6)
           new == q \o T!Printed(v, 6)
           n   == Len(q)
<1>1. /\ old \in Seq(Items) /\ Len(old) = n + 6 /\ n \in Nat
      /\ \A i \in 1 .. n : old[i] = q[i]
  <2> DEFINE p == T!Printed(u, 6)
  <2>1. q \in Seq(Items) /\ p \in Seq(Items) /\ Len(p) = 6
    OBVIOUS
  <2> HIDE DEF p
  <2>2. /\ q \o p \in Seq(Items) /\ Len(q \o p) = Len(q) + Len(p)
        /\ \A i \in 1 .. Len(q) : (q \o p)[i] = q[i]
    BY <2>1, Joined
  <2>3. old = q \o p
    BY DEF p
  <2> HIDE DEF old
  <2> QED
    BY <2>1, <2>2, <2>3
<1>2. /\ new \in Seq(Items) /\ Len(new) = n + 6
      /\ \A i \in 1 .. n : new[i] = q[i]
      /\ \A i \in 1 .. 6 : new[n + i] = T!Printed(v, 6)[i]
  <2> DEFINE p == T!Printed(v, 6)
  <2>1. q \in Seq(Items) /\ p \in Seq(Items) /\ Len(p) = 6
    OBVIOUS
  <2> HIDE DEF p
  <2>2. /\ q \o p \in Seq(Items) /\ Len(q \o p) = Len(q) + Len(p)
        /\ \A i \in 1 .. Len(q) : (q \o p)[i] = q[i]
    BY <2>1, Joined
  <2>3. \A i \in 1 .. Len(p) : (q \o p)[Len(q) + i] = p[i]
    BY <2>1, Joined
  <2>4. new = q \o p
    BY DEF p
  <2> HIDE DEF new
  <2> QED
    BY <2>1, <2>2, <2>3, <2>4 DEF p
<1>3. \A i \in 1 .. 6 : T!Printed(v, 6)[i] = (v \div 10^(6 - i)) % 10
  BY DEF T!Printed
<1> HIDE DEF old, new, n
<1>4. /\ DOMAIN old = 1 .. n + 6 /\ DOMAIN new = 1 .. n + 6
      /\ new = [i \in 1 .. n + 6 |-> new[i]]
  BY <1>1, <1>2
<1>5. T!Patched(old, v) = [i \in 1 .. n + 6 |-> IF i <= n THEN old[i] ELSE (v \div 10^(n + 6 - i)) % 10]
  <2>1. Len(old) - 6 = n
    BY <1>1
  <2> QED
    BY <1>1, <1>4, <2>1 DEF T!Patched
<1>6. ASSUME NEW i \in 1 .. n + 6
      PROVE  new[i] = IF i <= n THEN old[i] ELSE (v \div 10^(n + 6 - i)) % 10
  <2>1. CASE i <= n
    BY <1>1, <1>2, <2>1
  <2>2. CASE ~(i <= n)
    <3> DEFINE j == i - n
    <3>1. j \in 1 .. 6 /\ n + j = i /\ 6 - j = n + 6 - i
      BY <1>1, <2>2
    <3> HIDE DEF j
    <3>2. new[n + j] = (v \div 10^(6 - j)) % 10
      BY <1>2, <1>3, <3>1
    <3> QED
      BY <2>2, <3>1, <3>2
  <2> QED
    BY <2>1, <2>2
<1>7. T!Patched(old, v) = new
  BY <1>4, <1>5, <1>6
<1> QED
  BY <1>7 DEF old, new

-----------------------------------------------------------------------------
(* The texts of a time                                                      *)
ShortText(sec, usec, type) == T!Hms(T!Tm(sec, type)) \o <<T!Dot>> \o T!Printed(usec, 6)
FullText(sec, usec, type)  == T!YmdHms(T!Tm(sec, type), usec)

(* What they are made of: up to the dot, and the microseconds               *)
HmsDot(tm) == T!Hms(tm) \o <<T!Dot>>
YmdHmsDot(tm) == ((T!Ymd(tm) \o <<T!Dash>>) \o T!Hms(tm)) \o <<T!Dot>>
TextItems(tm, usec, usecs) ==
  {T!Colon, T!Dot, T!Dash}
  \cup {T!Printed(v, n)[i] : v \in {tm.year, tm.mon, tm.mday, tm.hour, tm.min, tm.sec, usec, usecs},
                            n \in {2, 4, 6}, i \in 1 .. 6}

(* A sequence of items of some length, and one that is joined of two        *)
Is(s, n, Items) == s \in Seq(Items) /\ Len(s) = n
LEMMA JoinedIs ==
  ASSUME NEW Items, NEW s, NEW t, NEW m, NEW n, Is(s, m, Items), Is(t, n, Items)
  PROVE  Is(s \o t, m + n, Items)
<1>1. s \in Seq(Items) /\ t \in Seq(Items) /\ Len(s) = m /\ Len(t) = n
  BY DEF Is
<1>2. s \o t \in Seq(Items) /\ Len(s \o t) = Len(s) + Len(t)
  BY <1>1, Joined
<1> QED
  BY <1>1, <1>2 DEF Is

LEMMA TextsAre ==
  ASSUME NEW tm, NEW usec, NEW other
  PROVE  LET Items == TextItems(tm, usec, other) IN
         /\ Is(T!Printed(usec, 6), 6, Items) /\ Is(T!Printed(other, 6), 6, Items)
         /\ Is(T!Ymd(tm), 8, Items) /\ Is(T!Hms(tm), 8, Items)
         /\ Is(HmsDot(tm), 9, Items) /\ Is(YmdHmsDot(tm), 18, Items)
<1> DEFINE Items == TextItems(tm, usec, other)
           Numbers == {tm.year, tm.mon, tm.mday, tm.hour, tm.min, tm.sec, usec, other}
<1>1. \A v \in Numbers, n \in {2, 4, 6}, i \in 1 .. 6 : T!Printed(v, n)[i] \in Items
  BY DEF TextItems
<1>2. T!Colon \in Items /\ T!Dot \in Items /\ T!Dash \in Items
  BY DEF TextItems
<1> HIDE DEF Items
<1>3. ASSUME NEW v \in Numbers, NEW n \in {2, 4, 6} PROVE Is(T!Printed(v, n), n, Items)
  <2>1. n \in Nat /\ \A i \in 1 .. n : i \in 1 .. 6
    OBVIOUS
  <2>2. \A i \in 1 .. n : T!Printed(v, n)[i] \in Items
    BY <1>1, <2>1
  <2> QED
    BY <2>1, <2>2, PrintedIs DEF Is
<1>4. /\ Is(T!Printed(tm.year, 4), 4, Items) /\ Is(T!Printed(tm.mon, 2), 2, Items)
      /\ Is(T!Printed(tm.mday, 2), 2, Items) /\ Is(T!Printed(tm.hour, 2), 2, Items)
      /\ Is(T!Printed(tm.min, 2), 2, Items) /\ Is(T!Printed(tm.sec, 2), 2, Items)
      /\ Is(T!Printed(usec, 6), 6, Items) /\ Is(T!Printed(other, 6), 6, Items)
  BY <1>3
<1>5. Is(<<T!Colon>>, 1, Items) /\ Is(<<T!Dot>>, 1, Items) /\ Is(<<T!Dash>>, 1, Items)
  BY <1>2 DEF Is
<1> HIDE DEF Numbers
<1>6. Is(T!Ymd(tm), 8, Items)
  <2> DEFINE s1 == T!Printed(tm.year, 4) \o T!Printed(tm.mon, 2)
             s2 == s1 \o T!Printed(tm.mday, 2)
  <2>1. T!Ymd(tm) = s2
    BY DEF T!Ymd
  <2>2. Is(s1, 6, Items)
    <3>1. Is(s1, 4 + 2, Items)
      BY <1>4, JoinedIs
    <3>2. 4 + 2 = 6
      OBVIOUS
    <3> HIDE DEF s1
    <3> QED
      BY <3>1, <3>2
  <2> HIDE DEF s1
  <2>3. Is(s2, 8, Items)
    <3>1. Is(s2, 6 + 2, Items)
      BY <1>4, <2>2, JoinedIs
    <3>2. 6 + 2 = 8
      OBVIOUS
    <3> HIDE DEF s2
    <3> QED
      BY <3>1, <3>2
  <2> HIDE DEF s2
  <2> QED
    BY <2>1, <2>3
<1>7. Is(T!Hms(tm), 8, Items)
  <2> DEFINE s1 == T!Printed(tm.hour, 2) \o <<T!Colon>>
             s2 == s1 \o T!Printed(tm.min, 2)
             s3 == s2 \o <<T!Colon>>
             s4 == s3 \o T!Printed(tm.sec, 2)
  <2>1. T!Hms(tm) = s4
    BY DEF T!Hms
  <2>2. Is(s1, 3, Items)
    <3>1. Is(s1, 2 + 1, Items)
      BY <1>4, <1>5, JoinedIs
    <3>2. 2 + 1 = 3
      OBVIOUS
    <3> HIDE DEF s1
    <3> QED
      BY <3>1, <3>2
  <2> HIDE DEF s1
  <2>3. Is(s2, 5, Items)
    <3>1. Is(s2, 3 + 2, Items)
      BY <1>4, <2>2, JoinedIs
    <3>2. 3 + 2 = 5
      OBVIOUS
    <3> HIDE DEF s2
    <3> QED
      BY <3>1, <3>2
  <2> HIDE DEF s2
  <2>4. Is(s3, 6, Items)
    <3>1. Is(s3, 5 + 1, Items)
      BY <1>5, <2>3, JoinedIs
    <3>2. 5 + 1 = 6
      OBVIOUS
    <3> HIDE DEF s3
    <3> QED
      BY <3>1, <3>2
  <2> HIDE DEF s3
  <2>5. Is(s4, 8, Items)
    <3>1. Is(s4, 6 + 2, Items)
      BY <1>4, <2>4, JoinedIs
    <3>2. 6 + 2 = 8
      OBVIOUS
    <3> HIDE DEF s4
    <3> QED
      BY <3>1, <3>2
  <2> HIDE DEF s4
  <2> QED
    BY <2>1, <2>5
<1>8. Is(HmsDot(tm), 9, Items)
  <2> DEFINE s1 == T!Hms(tm) \o <<T!Dot>>
  <2>1. HmsDot(tm) = s1
    BY DEF HmsDot
  <2>2. Is(s1, 9, Items)
    <3>1. Is(s1, 8 + 1, Items)
      BY <1>5, <1>7, JoinedIs
    <3>2. 8 + 1 = 9
      OBVIOUS
    <3> HIDE DEF s1
    <3> QED
      BY <3>1, <3>2
  <2> HIDE DEF s1
  <2> QED
    BY <2>1, <2>2
<1>9. Is(YmdHmsDot(tm), 18, Items)
  <2> DEFINE s1 == T!Ymd(tm) \o <<T!Dash>>
             s2 == s1 \o T!Hms(tm)
             s3 == s2 \o <<T!Dot>>
  <2>1. YmdHmsDot(tm) = s3
    BY DEF YmdHmsDot
  <2>2. Is(s1, 9, Items)
    <3>1. Is(s1, 8 + 1, Items)
      BY <1>5, <1>6, JoinedIs
    <3>2. 8 + 1 = 9
      OBVIOUS
    <3> HIDE DEF s1
    <3> QED
      BY <3>1, <3>2
  <2> HIDE DEF s1
  <2>3. Is(s2, 17, Items)
    <3>1. Is(s2, 9 + 8, Items)
      BY <1>7, <2>2, JoinedIs
    <3>2. 9 + 8 = 17
      OBVIOUS
    <3> HIDE DEF s2
    <3> QED
      BY <3>1, <3>2
  <2> HIDE DEF s2
  <2>4. Is(s3, 18, Items)
    <3>1. Is(s3, 17 + 1, Items)
      BY <1>5, <2>3, JoinedIs
    <3>2. 17 + 1 = 18
      OBVIOUS
    <3> HIDE DEF s3
    <3> QED
      BY <3>1, <3>2
  <2> HIDE DEF s3
  <2> QED
    BY <2>1, <2>4
<1> QED
  BY <1>4, <1>6, <1>7, <1>8, <1>9 DEF Items

-----------------------------------------------------------------------------
(* What a cache holds, whatever it held                                     *)
Cache(time, usecs, type, text) == [time |-> time, usecs |-> usecs, type |-> type, text |-> text]
LEMMA CachePatched ==
  ASSUME NEW sec, NEW usecs, NEW type, NEW text, NEW usec, NEW new, usec # usecs
  PROVE  T!Refreshed(Cache(sec, usecs, type, text), sec, usec, type, new)
           = Cache(sec, usec, type, T!Patched(text, usec))
<1> DEFINE r == Cache(sec, usecs, type, text)
           e == [r EXCEPT !.usecs = usec]
           now == T!Patched(text, usec)
<1>1. T!Refreshed(r, sec, usec, type, new) = [r EXCEPT !.usecs = usec, !.text = now]
  BY DEF T!Refreshed, T!Fresh, Cache
<1>2. e = Cache(sec, usec, type, text)
  BY DEF Cache
<1> HIDE DEF now
<1>3. [r EXCEPT !.usecs = usec, !.text = now] = [e EXCEPT !.text = now]
  BY DEF Cache
<1>4. [Cache(sec, usec, type, text) EXCEPT !.text = now] = Cache(sec, usec, type, now)
  BY DEF Cache
<1> QED
  BY <1>1, <1>2, <1>3, <1>4 DEF now

LEMMA RefreshedIs ==
  ASSUME NEW sec, NEW usec, NEW type, NEW time, NEW usecs, NEW kind, NEW text, NEW q, NEW Items,
         q \in Seq(Items), Is(T!Printed(usec, 6), 6, Items), Is(T!Printed(usecs, 6), 6, Items),
         time = sec /\ kind = type => text = q \o T!Printed(usecs, 6)
  PROVE  T!Refreshed(Cache(time, usecs, kind, text), sec, usec, type, q \o T!Printed(usec, 6))
           = Cache(sec, usec, type, q \o T!Printed(usec, 6))
<1> DEFINE new == q \o T!Printed(usec, 6)
<1>1. CASE time = sec /\ kind = type /\ usec = usecs
  BY <1>1 DEF T!Refreshed, T!Fresh, Cache
<1>2. CASE time = sec /\ kind = type /\ usec # usecs
  <2>1. T!Patched(text, usec) = new
    <3>1. text = q \o T!Printed(usecs, 6)
      BY <1>2
    <3>2. /\ T!Printed(usec, 6) \in Seq(Items) /\ Len(T!Printed(usec, 6)) = 6
          /\ T!Printed(usecs, 6) \in Seq(Items) /\ Len(T!Printed(usecs, 6)) = 6
      BY DEF Is
    <3>3. T!Patched(q \o T!Printed(usecs, 6), usec) = q \o T!Printed(usec, 6)
      BY <3>2, PatchedIs
    <3> QED
      BY <3>1, <3>3
  <2> HIDE DEF new
  <2>2. T!Refreshed(Cache(sec, usecs, type, text), sec, usec, type, new)
          = Cache(sec, usec, type, T!Patched(text, usec))
    BY <1>2, CachePatched
  <2> QED
    BY <1>2, <2>1, <2>2 DEF new
<1>3. CASE ~(time = sec /\ kind = type)
  BY <1>3 DEF T!Refreshed, T!Fresh, Cache
<1> QED
  BY <1>1, <1>2, <1>3

(* The three caches hold what was so at the time they name, if they name one.*)
Kept ==
  /\ short = Cache(short.time, short.usecs, short.type, short.text)
  /\ full = Cache(full.time, full.usecs, full.type, full.text)
  /\ short.time # 0 => short.text = ShortText(short.time, short.usecs, short.type)
  /\ full.time # 0 => full.text = FullText(full.time, full.usecs, full.type)
  /\ day.time # 0 => day.daysec = T!DaySec(T!Tm(day.time, day.type))

LEMMA TextParts ==
  ASSUME NEW sec, NEW usec, NEW type
  PROVE  /\ ShortText(sec, usec, type) = HmsDot(T!Tm(sec, type)) \o T!Printed(usec, 6)
         /\ FullText(sec, usec, type) = YmdHmsDot(T!Tm(sec, type)) \o T!Printed(usec, 6)
  BY DEF ShortText, FullText, HmsDot, YmdHmsDot, T!YmdHms

(* The text of the time of day is the end of that with the date.            *)
LEMMA ShortIsEnd ==
  ASSUME NEW sec, NEW usec, NEW type
  PROVE  ShortText(sec, usec, type) = SubSeq(FullText(sec, usec, type), 10, 24)
<1> DEFINE tm == T!Tm(sec, type)
           Items == TextItems(tm, usec, usec)
           front == T!Ymd(tm) \o <<T!Dash>>
           hms == T!Hms(tm)
           dot == <<T!Dot>>
           digits == T!Printed(usec, 6)
           tail == (hms \o dot) \o digits
<1>1. Is(T!Ymd(tm), 8, Items) /\ Is(hms, 8, Items) /\ Is(digits, 6, Items)
  BY TextsAre
<1>2. Is(dot, 1, Items) /\ Is(<<T!Dash>>, 1, Items)
  BY DEF Is, TextItems
<1>3. FullText(sec, usec, type) = ((front \o hms) \o dot) \o digits /\ ShortText(sec, usec, type) = tail
  BY DEF FullText, ShortText, T!YmdHms
<1> HIDE DEF tm, Items, hms, dot, digits
<1>4. Is(front, 8 + 1, Items) /\ Is(hms \o dot, 8 + 1, Items)
  BY <1>1, <1>2, JoinedIs
<1>5. front \in Seq(Items) /\ Len(front) = 9 /\ hms \in Seq(Items) /\ dot \in Seq(Items) /\ digits \in Seq(Items)
      /\ hms \o dot \in Seq(Items) /\ Len(hms \o dot) = 9 /\ Len(digits) = 6
  BY <1>1, <1>2, <1>4 DEF Is
<1> HIDE DEF front
<1>6. tail \in Seq(Items) /\ Len(tail) = 15
  <2> DEFINE hd == hms \o dot
  <2>1. hd \in Seq(Items) /\ Len(hd) = 9
    BY <1>5
  <2> HIDE DEF hd
  <2>2. hd \o digits \in Seq(Items) /\ Len(hd \o digits) = Len(hd) + Len(digits)
    BY <1>5, <2>1, Joined
  <2> QED
    BY <1>5, <2>1, <2>2 DEF hd
<1>7. ((front \o hms) \o dot) \o digits = front \o tail
  <2> DEFINE hd == hms \o dot
  <2>1. (front \o hms) \o dot = front \o hd
    <3>1. front \in Seq(Items) /\ hms \in Seq(Items) /\ dot \in Seq(Items)
      BY <1>5
    <3> QED
      BY <3>1, ConcatAssociative
  <2>2. hd \in Seq(Items)
    BY <1>5
  <2> HIDE DEF hd
  <2>3. (front \o hd) \o digits = front \o (hd \o digits)
    <3>1. front \in Seq(Items) /\ hd \in Seq(Items) /\ digits \in Seq(Items)
      BY <1>5, <2>2
    <3> QED
      BY <3>1, ConcatAssociative
  <2> QED
    BY <2>1, <2>3 DEF hd
<1> HIDE DEF tail
<1> DEFINE all == front \o tail
<1>8. /\ all \in Seq(Items) /\ Len(all) = 24
      /\ \A i \in 1 .. 15 : all[9 + i] = tail[i]
  <2>0. front \in Seq(Items) /\ tail \in Seq(Items)
    BY <1>5, <1>6
  <2>1. front \o tail \in Seq(Items) /\ Len(front \o tail) = Len(front) + Len(tail)
    BY <2>0, Joined
  <2>2. \A i \in 1 .. Len(tail) : (front \o tail)[Len(front) + i] = tail[i]
    BY <2>0, Joined
  <2>3. all = front \o tail
    OBVIOUS
  <2> HIDE DEF all
  <2>4. Len(front) = 9 /\ Len(tail) = 15
    BY <1>5, <1>6
  <2>5. \A i \in 1 .. 15 : all[9 + i] = tail[i]
    BY <2>2, <2>3, <2>4
  <2>6. all \in Seq(Items) /\ Len(all) = 24
    BY <2>1, <2>3, <2>4
  <2> QED
    BY <2>5, <2>6
<1> HIDE DEF all
<1>9. SubSeq(all, 10, 24) = [i \in 1 .. 15 |-> all[9 + i]]
  <2> DEFINE cut == SubSeq(all, 10, 24)
  <2>1. \A i \in 10 .. 24 : all[i] \in Items
    <3>1. \A i \in 10 .. 24 : i \in 1 .. 24
      OBVIOUS
    <3>2. \A i \in 1 .. Len(all) : all[i] \in Items
      BY <1>8, ElementOfSeq
    <3> QED
      BY <1>8, <3>1, <3>2
  <2>2. cut \in Seq(Items) /\ Len(cut) = 15 /\ \A i \in 1 .. 15 : cut[i] = all[10 + i - 1]
    <3>1. /\ SubSeq(all, 10, 24) \in Seq(Items)
          /\ Len(SubSeq(all, 10, 24)) = IF 10 <= 24 THEN 24 - 10 + 1 ELSE 0
          /\ \A i \in 1 .. 24 - 10 + 1 : SubSeq(all, 10, 24)[i] = all[10 + i - 1]
      BY <2>1, SubSeqProperties
    <3> QED
      BY <3>1
  <2> HIDE DEF cut
  <2>3. \A i \in 1 .. 15 : 10 + i - 1 = 9 + i
    OBVIOUS
  <2>4. cut = [i \in 1 .. 15 |-> cut[i]]
    BY <2>2
  <2> QED
    BY <2>2, <2>3, <2>4 DEF cut
<1>10. tail = [i \in 1 .. 15 |-> tail[i]]
  BY <1>6
<1> QED
  BY <1>3, <1>7, <1>8, <1>9, <1>10 DEF all

LEMMA TextsStand ==
  ASSUME offset' = offset, NEW sec, NEW usec, NEW type
  PROVE  /\ T!Tm(sec, type)' = T!Tm(sec, type)
         /\ ShortText(sec, usec, type)' = ShortText(sec, usec, type)
         /\ FullText(sec, usec, type)' = FullText(sec, usec, type)
  BY DEF ShortText, FullText, T!Tm

LEMMA ClockInit == T!Init => Kept /\ T!KeptIsNow
  BY DEF T!Init, Kept, Cache, T!KeptIsNow

LEMMA ClockStep == Kept /\ T!KeptIsNow /\ [T!Next]_T!clock => Kept' /\ T!KeptIsNow'
<1> SUFFICES ASSUME Kept, T!KeptIsNow, [T!Next]_T!clock PROVE Kept' /\ T!KeptIsNow'
  OBVIOUS
<1>1. CASE UNCHANGED T!clock
  <2>1. UNCHANGED <<offset, short, full, day, told>>
    BY <1>1 DEF T!clock
  <2>2. Kept'
    BY <2>1, TextsStand DEF Kept
  <2>3. T!KeptIsNow'
    BY <2>1, TextsStand DEF T!KeptIsNow, T!ymdhmsu_today_slow, T!usecs_today_slow, FullText
  <2> QED
    BY <2>2, <2>3
<1>2. ASSUME NEW sec \in Seconds, NEW usec \in Usecs, NEW type \in T!Kinds,
             \/ T!HmsuToday(sec, usec, type) \/ T!YmdhmsuToday(sec, usec, type)
             \/ T!UsecsToday(sec, usec, type)
      PROVE  Kept' /\ T!KeptIsNow'
  <2>0. sec # 0 /\ offset' = offset
    BY <1>2, ClockAssumption DEF T!HmsuToday, T!YmdhmsuToday, T!UsecsToday
  <2> DEFINE tm == T!Tm(sec, type)
  <2>1. CASE T!HmsuToday(sec, usec, type)
    <3> DEFINE Items == TextItems(tm, usec, short.usecs)
               new   == ShortText(sec, usec, type)
    <3>1. Is(T!Printed(usec, 6), 6, Items) /\ Is(T!Printed(short.usecs, 6), 6, Items) /\ HmsDot(tm) \in Seq(Items)
      BY TextsAre DEF Is
    <3>2. short.time = sec /\ short.type = type => short.text = HmsDot(tm) \o T!Printed(short.usecs, 6)
      BY <2>0, TextParts DEF Kept
    <3> HIDE DEF Items, tm
    <3>3. T!Refreshed(Cache(short.time, short.usecs, short.type, short.text), sec, usec, type,
                      HmsDot(tm) \o T!Printed(usec, 6))
            = Cache(sec, usec, type, HmsDot(tm) \o T!Printed(usec, 6))
      BY <3>1, <3>2, RefreshedIs
    <3>4. short = Cache(short.time, short.usecs, short.type, short.text)
      BY DEF Kept
    <3>5. new = HmsDot(tm) \o T!Printed(usec, 6)
      BY TextParts DEF tm
    <3>6. short' = T!Refreshed(short, sec, usec, type, new)
      BY <2>1 DEF T!HmsuToday, ShortText
    <3> HIDE DEF new
    <3>7. short' = Cache(sec, usec, type, new)
      BY <3>3, <3>4, <3>5, <3>6
    <3>8. /\ short'.time = sec /\ short'.usecs = usec /\ short'.type = type /\ short'.text = new
          /\ short' = Cache(short'.time, short'.usecs, short'.type, short'.text)
      BY <3>7 DEF Cache
    <3>9. /\ UNCHANGED <<full, day>>
          /\ told'.call = "hmsu_today" /\ told'.sec = sec /\ told'.usec = usec /\ told'.type = type
          /\ told'.result = new
      BY <2>1, <3>8 DEF T!HmsuToday, T!Called
    <3>10. Kept'
      BY <2>0, <3>8, <3>9, TextsStand DEF Kept, new
    <3>11. T!KeptIsNow'
      <4>1. new = SubSeq(T!ymdhmsu_today_slow(sec, usec, type), 10, 24)
        BY ShortIsEnd DEF new, FullText, T!ymdhmsu_today_slow
      <4>2. T!ymdhmsu_today_slow(sec, usec, type)' = T!ymdhmsu_today_slow(sec, usec, type)
        BY <2>0, TextsStand DEF FullText, T!ymdhmsu_today_slow
      <4> QED
        BY <3>9, <4>1, <4>2 DEF T!KeptIsNow
    <3> QED
      BY <3>10, <3>11
  <2>2. CASE T!YmdhmsuToday(sec, usec, type)
    <3> DEFINE Items == TextItems(tm, usec, full.usecs)
               new   == FullText(sec, usec, type)
    <3>1. Is(T!Printed(usec, 6), 6, Items) /\ Is(T!Printed(full.usecs, 6), 6, Items) /\ YmdHmsDot(tm) \in Seq(Items)
      BY TextsAre DEF Is
    <3>2. full.time = sec /\ full.type = type => full.text = YmdHmsDot(tm) \o T!Printed(full.usecs, 6)
      BY <2>0, TextParts DEF Kept
    <3> HIDE DEF Items, tm
    <3>3. T!Refreshed(Cache(full.time, full.usecs, full.type, full.text), sec, usec, type,
                      YmdHmsDot(tm) \o T!Printed(usec, 6))
            = Cache(sec, usec, type, YmdHmsDot(tm) \o T!Printed(usec, 6))
      BY <3>1, <3>2, RefreshedIs
    <3>4. full = Cache(full.time, full.usecs, full.type, full.text)
      BY DEF Kept
    <3>5. new = YmdHmsDot(tm) \o T!Printed(usec, 6)
      BY TextParts DEF tm
    <3>6. full' = T!Refreshed(full, sec, usec, type, new)
      BY <2>2 DEF T!YmdhmsuToday, FullText
    <3> HIDE DEF new
    <3>7. full' = Cache(sec, usec, type, new)
      BY <3>3, <3>4, <3>5, <3>6
    <3>8. /\ full'.time = sec /\ full'.usecs = usec /\ full'.type = type /\ full'.text = new
          /\ full' = Cache(full'.time, full'.usecs, full'.type, full'.text)
      BY <3>7 DEF Cache
    <3>9. /\ UNCHANGED <<short, day>>
          /\ told'.call = "ymdhmsu_today" /\ told'.sec = sec /\ told'.usec = usec /\ told'.type = type
          /\ told'.result = new
      BY <2>2, <3>8 DEF T!YmdhmsuToday, T!Called
    <3>10. Kept'
      BY <2>0, <3>8, <3>9, TextsStand DEF Kept, new
    <3>11. T!KeptIsNow'
      <4>1. new = T!ymdhmsu_today_slow(sec, usec, type)
        BY DEF new, FullText, T!ymdhmsu_today_slow
      <4>2. T!ymdhmsu_today_slow(sec, usec, type)' = T!ymdhmsu_today_slow(sec, usec, type)
        BY <2>0, TextsStand DEF FullText, T!ymdhmsu_today_slow
      <4> QED
        BY <3>9, <4>1, <4>2 DEF T!KeptIsNow
    <3> QED
      BY <3>10, <3>11
  <2>3. CASE T!UsecsToday(sec, usec, type)
    <3>1. /\ day'.time = sec /\ day'.type = type /\ UNCHANGED <<short, full>>
          /\ day'.daysec = T!DaySec(tm)
      BY <2>0, <2>3 DEF T!UsecsToday, T!Fresh, Kept
    <3>2. /\ told'.call = "usecs_today" /\ told'.sec = sec /\ told'.usec = usec /\ told'.type = type
          /\ told'.result = <<T!DaySec(tm), usec>>
      BY <2>3, <3>1 DEF T!UsecsToday, T!Called
    <3>3. Kept'
      BY <2>0, <3>1, TextsStand DEF Kept, T!DaySec
    <3>4. T!KeptIsNow'
      <4>1. T!usecs_today_slow(sec, usec, type)' = T!usecs_today_slow(sec, usec, type)
        BY <2>0, TextsStand DEF T!usecs_today_slow, T!DaySec
      <4> QED
        BY <3>2, <4>1 DEF T!KeptIsNow, T!usecs_today_slow
    <3> QED
      BY <3>3, <3>4
  <2> QED
    BY <1>2, <2>1, <2>2, <2>3
<1> QED
  BY <1>1, <1>2 DEF T!Next

(* For any clock, set back or not, and any offset: a time that is kept is   *)
(* the time of the call, as the slow functions give it.                     *)
THEOREM KeptTimesAreNow == Spec => []T!KeptIsNow
<1>1. Init => Kept /\ T!KeptIsNow
  BY ClockInit DEF Init
<1>2. Kept /\ T!KeptIsNow /\ [Next]_<<component, fields, log, config, clock, latency, stats,
                                      prompts, json, hexdump, endpoint>>
        => Kept' /\ T!KeptIsNow'
  BY ClockMoves, ClockStep
<1> QED
  BY <1>1, <1>2, PTL DEF Spec
-----------------------------------------------------------------------------
(* Latency                                                                  *)
LEMMA LatencyMove == [Next]_<<component, fields, log, config, clock, latency, stats, prompts,
                              json, hexdump, endpoint>> => [H!Next]_latency
  BY DEF Next, latency

(* A sum over a part of the domain of f, as the reports make it.            *)
Added(f, part) == H!FoldFunctionOnSet(+, 0, f, part)
Addable(f, part) == IsFiniteSet(part) /\ \A x \in part : f[x] \in Nat

LEMMA AddedIs ==
  ASSUME NEW f, NEW part, Addable(f, part) PROVE \E it : SumsTo(f, part, it) /\ Added(f, part) = it[part]
  <1>1. Added(f, part) = (CHOOSE it : EqSum(f, part, it))[part]
    BY DEF Added, H!FoldFunctionOnSet, H!MapThenFoldSet, EqSum
  <1>2. SumsTo(f, part, CHOOSE it : EqSum(f, part, it))
    BY SumChosen DEF Addable
  <1> QED BY <1>1, <1>2

LEMMA AddedNothing == ASSUME NEW f PROVE Added(f, {}) = 0
  <1>1. Addable(f, {})
    BY FS_EmptySet DEF Addable
  <1> QED BY <1>1, AddedIs DEF SumsTo

LEMMA AddedIsNat == ASSUME NEW f, NEW part, Addable(f, part) PROVE Added(f, part) \in Nat
  <1>1. PICK it : SumsTo(f, part, it) /\ Added(f, part) = it[part]
    BY AddedIs
  <1>2. part \in SUBSET part
    OBVIOUS
  <1> QED BY <1>1, <1>2 DEF SumsTo

LEMMA AddedSame ==
  ASSUME NEW f, NEW g, NEW part, Addable(f, part), \A x \in part : f[x] = g[x]
  PROVE  Added(f, part) = Added(g, part)
  <1>1. Addable(g, part)
    BY DEF Addable
  <1>2. PICK it : SumsTo(f, part, it) /\ Added(f, part) = it[part]
    BY AddedIs
  <1>3. PICK jt : SumsTo(g, part, jt) /\ Added(g, part) = jt[part]
    BY <1>1, AddedIs
  <1>4. part \subseteq part /\ IsFiniteSet(part) /\ Agree(f, g, part)
    BY DEF Addable, Agree
  <1>5. it[part] = jt[part]
    BY <1>2, <1>3, <1>4, SumSame
  <1> QED BY <1>2, <1>3, <1>5

LEMMA AddedOne ==
  ASSUME NEW f, NEW part, Addable(f, part), NEW k \in part
  PROVE  /\ Addable(f, part \ {k}) /\ f[k] \in Nat
         /\ Added(f, part) = Added(f, part \ {k}) + f[k]
  <1> DEFINE r == part \ {k}
  <1>1. Addable(f, r)
    BY FS_RemoveElement DEF Addable
  <1>2. PICK it : SumsTo(f, part, it) /\ Added(f, part) = it[part]
    BY AddedIs
  <1>3. PICK jt : SumsTo(f, r, jt) /\ Added(f, r) = jt[r]
    BY <1>1, AddedIs
  <1>4. r \subseteq part /\ r \subseteq r /\ IsFiniteSet(part) /\ part \in SUBSET part /\ Agree(f, f, r)
    BY DEF Addable, Agree
  <1>5. it[part] = it[r] + f[k]
    BY <1>2, <1>4 DEF SumsTo
  <1> HIDE DEF r
  <1>6. it[r] = jt[r]
    BY <1>2, <1>3, <1>4, SumSame
  <1>7. f[k] \in Nat
    BY DEF Addable
  <1> QED BY <1>1, <1>2, <1>3, <1>5, <1>6, <1>7 DEF r

(* Two parts without an element in common.                                  *)
LEMMA AddedParts ==
  ASSUME NEW f, NEW part, NEW also, Addable(f, part), Addable(f, also), part \cap also = {}
  PROVE  Addable(f, part \cup also) /\ Added(f, part \cup also) = Added(f, part) + Added(f, also)
  <1> DEFINE A == {n \in Nat : \A s \in SUBSET also : Cardinality(s) = n => Added(f, part \cup s) = Added(f, part) + Added(f, s)}
  <1>1. \A s \in SUBSET also : IsFiniteSet(s) /\ Cardinality(s) \in Nat /\ Addable(f, s) /\ Addable(f, part \cup s)
    BY FS_Subset, FS_CardinalityType, FS_Union DEF Addable
  <1>2. 0 \in A
    <2> SUFFICES ASSUME NEW s \in SUBSET also, Cardinality(s) = 0 PROVE Added(f, part \cup s) = Added(f, part) + Added(f, s)
      OBVIOUS
    <2>1. s = {}
      BY <1>1, FS_EmptySet
    <2>2. Added(f, s) = 0 /\ Added(f, part) \in Nat
      BY <2>1, AddedNothing, AddedIsNat
    <2>3. part \cup s = part
      BY <2>1
    <2>4. Added(f, part \cup s) = Added(f, part)
      BY <2>3, Zenon
    <2> QED BY <2>2, <2>4
  <1>3. ASSUME NEW n \in Nat, n \in A PROVE n + 1 \in A
    <2> SUFFICES ASSUME NEW s \in SUBSET also, Cardinality(s) = n + 1 PROVE Added(f, part \cup s) = Added(f, part) + Added(f, s)
      OBVIOUS
    <2>1. PICK k \in s : TRUE
      <3>1. Cardinality({}) = 0
        BY FS_EmptySet
      <3> QED BY <3>1
    <2> DEFINE r == s \ {k}
    <2>2. r \in SUBSET also /\ Cardinality(r) = n /\ k \in part \cup s
      <3>1. Cardinality(r) = Cardinality(s) - 1
        BY <2>1, <1>1, FS_RemoveElement
      <3>2. (n + 1) - 1 = n
        OBVIOUS
      <3> QED BY <2>1, <3>1, <3>2
    <2>3. (part \cup s) \ {k} = part \cup r
      BY <2>1
    <2>4. Added(f, part \cup r) = Added(f, part) + Added(f, r)
      BY <2>2, <1>3
    <2>5. Added(f, part \cup s) = Added(f, part \cup r) + f[k] /\ f[k] \in Nat
      BY <2>2, <2>3, <1>1, AddedOne
    <2>6. Added(f, s) = Added(f, r) + f[k]
      BY <2>1, <1>1, AddedOne
    <2>7. Added(f, part) \in Nat /\ Added(f, r) \in Nat
      BY <2>2, <1>1, AddedIsNat
    <2> HIDE DEF r
    <2>8. \A u, v, w \in Nat : (u + v) + w = u + (v + w)
      OBVIOUS
    <2> QED BY <2>4, <2>5, <2>6, <2>7, <2>8
  <1>4. Nat \subseteq A
    <2> HIDE DEF A
    <2> QED BY <1>2, <1>3, Induction
  <1> QED BY <1>1, <1>4

(* Where all are 0, so is their sum, and only there.                        *)
LEMMA AddedZeros ==
  ASSUME NEW f, NEW part, Addable(f, part)
  PROVE  Added(f, part) = 0 <=> \A x \in part : f[x] = 0
  <1>1. ASSUME NEW x \in part, Added(f, part) = 0 PROVE f[x] = 0
    <2>1. Added(f, part \ {x}) \in Nat /\ f[x] \in Nat /\ Added(f, part) = Added(f, part \ {x}) + f[x]
      BY AddedOne, AddedIsNat
    <2> QED BY <1>1, <2>1
  <1>2. ASSUME \A x \in part : f[x] = 0 PROVE Added(f, part) = 0
    <2> DEFINE A == {n \in Nat : \A s \in SUBSET part : Cardinality(s) = n => Added(f, s) = 0}
    <2>1. \A s \in SUBSET part : IsFiniteSet(s) /\ Cardinality(s) \in Nat /\ Addable(f, s)
      BY FS_Subset, FS_CardinalityType DEF Addable
    <2>2. 0 \in A
      <3> SUFFICES ASSUME NEW s \in SUBSET part, Cardinality(s) = 0 PROVE Added(f, s) = 0
        OBVIOUS
      <3>1. s = {}
        BY <2>1, FS_EmptySet
      <3> QED BY <3>1, AddedNothing
    <2>3. ASSUME NEW n \in Nat, n \in A PROVE n + 1 \in A
      <3> SUFFICES ASSUME NEW s \in SUBSET part, Cardinality(s) = n + 1 PROVE Added(f, s) = 0
        OBVIOUS
      <3>1. PICK k \in s : TRUE
        <4>1. Cardinality({}) = 0
          BY FS_EmptySet
        <4> QED BY <4>1
      <3>2. s \ {k} \in SUBSET part /\ Cardinality(s \ {k}) = n
        <4>1. Cardinality(s \ {k}) = Cardinality(s) - 1
          BY <3>1, <2>1, FS_RemoveElement
        <4>2. (n + 1) - 1 = n
          OBVIOUS
        <4> QED BY <3>1, <4>1, <4>2
      <3>3. Added(f, s \ {k}) = 0 /\ f[k] = 0
        BY <3>2, <2>3, <1>2
      <3>4. Added(f, s) = Added(f, s \ {k}) + f[k]
        BY <3>1, <2>1, AddedOne
      <3> QED BY <3>3, <3>4
    <2>4. Nat \subseteq A
      <3> HIDE DEF A
      <3> QED BY <2>2, <2>3, Induction
    <2> QED BY <2>1, <2>4
  <1> QED BY <1>1, <1>2

(* One more of k.                                                           *)
LEMMA AddedMore ==
  ASSUME NEW f, NEW part, Addable(f, part), NEW k
  PROVE  LET g == [f EXCEPT ![k] = @ + 1]
         IN  (k \in DOMAIN f) =>
               Addable(g, part) /\ Added(g, part) = IF k \in part THEN Added(f, part) + 1 ELSE Added(f, part)
  <1> DEFINE g == [f EXCEPT ![k] = @ + 1]
  <1> SUFFICES ASSUME k \in DOMAIN f PROVE Addable(g, part) /\ Added(g, part) = IF k \in part THEN Added(f, part) + 1 ELSE Added(f, part)
    OBVIOUS
  <1>1. g[k] = f[k] + 1 /\ \A x \in part \ {k} : g[x] = f[x]
    OBVIOUS
  <1> HIDE DEF g
  <1>2. Addable(g, part)
    <2> SUFFICES ASSUME NEW x \in part PROVE g[x] \in Nat
      BY DEF Addable
    <2>1. f[x] \in Nat
      BY DEF Addable
    <2> QED BY <1>1, <2>1
  <1>3. CASE k \in part
    <2>1. Addable(f, part \ {k}) /\ f[k] \in Nat /\ Added(f, part) = Added(f, part \ {k}) + f[k]
      BY <1>3, AddedOne
    <2>2. Added(g, part) = Added(g, part \ {k}) + g[k]
      BY <1>2, <1>3, AddedOne
    <2>3. Added(f, part \ {k}) = Added(g, part \ {k})
      BY <1>1, <2>1, AddedSame
    <2>4. Added(f, part \ {k}) \in Nat
      BY <2>1, AddedIsNat
    <2>5. \A u, v \in Nat : u + (v + 1) = (u + v) + 1
      OBVIOUS
    <2> QED BY <1>1, <1>2, <1>3, <2>1, <2>2, <2>3, <2>4, <2>5
  <1>4. CASE k \notin part
    <2>1. \A x \in part : f[x] = g[x]
      BY <1>1, <1>4
    <2>2. Added(f, part) = Added(g, part)
      BY <2>1, AddedSame
    <2> QED BY <1>2, <1>4, <2>2
  <1> QED BY <1>3, <1>4

(* Lines of a report, and the sum of their counts.                          *)
PrintedLine == [from : Nat, to : Int, count : Nat]
CountsOf(ls) == [k \in 1 .. Len(ls) |-> ls[k].count]
LinesSum(ls) == H!FoldLeft(LAMBDA n, line : n + line.count, 0, ls)
LineAdds(ls, r) == \E g \in [0 .. Len(ls) -> Nat] :
  g[0] = 0 /\ (\A k \in 0 .. Len(ls) - 1 : g[k + 1] = g[k] + ls[k + 1].count) /\ r = g[Len(ls)]

LEMMA LinesHave ==
  ASSUME NEW ls \in Seq(PrintedLine)
  PROVE  /\ Len(ls) \in Nat /\ DOMAIN ls = 1 .. Len(ls)
         /\ \A i \in 1 .. Len(ls) : ls[i] \in PrintedLine /\ ls[i].count \in Nat
  <1>1. Len(ls) \in Nat /\ DOMAIN ls = 1 .. Len(ls) /\ \A i \in 1 .. Len(ls) : ls[i] \in PrintedLine
    OBVIOUS
  <1>2. \A line \in PrintedLine : line.count \in Nat
    BY DEF PrintedLine
  <1> QED BY <1>1, <1>2

LEMMA LinesAdd ==
  ASSUME NEW ls \in Seq(PrintedLine) PROVE LineAdds(ls, LinesSum(ls))
  <1> DEFINE n == Len(ls)
             Eq(iter) == [s \in SUBSET DOMAIN ls |-> IF s = {} THEN 0 ELSE iter[s \ {Msg!Max(s)}] + ls[Msg!Max(s)].count]
             go == [q \in (1 .. n) \X Nat |-> q[2] + ls[q[1]].count]
             it == CHOOSE iter : iter = Eq(iter)
  <1>1. n \in Nat /\ DOMAIN ls = 1 .. n /\ \A i \in 1 .. n : ls[i].count \in Nat
    BY LinesHave
  <1>2. LinesSum(ls) = it[DOMAIN ls]
    BY DEF LinesSum, H!FoldLeft, H!MapThenFoldSet, H!Max, Msg!Max
  <1>3. \A i \in 1 .. n, v \in Nat : go[<<i, v>>] = v + ls[i].count /\ go[<<i, v>>] \in Nat
    BY <1>1
  <1>4. go \in [(1 .. n) \X Nat -> Nat]
    BY <1>3
  <1> HIDE DEF Eq, go, it, n
  <1>6. PICK f \in [SUBSET (1 .. n) -> Nat] : \A s \in SUBSET (1 .. n) :
          f[s] = IF s = {} THEN 0 ELSE go[<<Msg!Max(s), f[s \ {Msg!Max(s)}]>>]
    <2>1. Foldable(Nat, n, 0, go)
      BY <1>1, <1>4, FoldExists
    <2> QED BY <2>1 DEF Foldable
  <1>7. f = Eq(f)
    <2>1. ASSUME NEW s \in SUBSET (1 .. n), s # {} PROVE f[s] = f[s \ {Msg!Max(s)}] + ls[Msg!Max(s)].count
      <3>1. Msg!Max(s) \in 1 .. n /\ f[s \ {Msg!Max(s)}] \in Nat
        BY <1>1, <2>1, MaxIs
      <3> QED BY <3>1, <2>1, <1>3, <1>6
    <2>2. \A s \in SUBSET (1 .. n) : f[s] = IF s = {} THEN 0 ELSE f[s \ {Msg!Max(s)}] + ls[Msg!Max(s)].count
      BY <2>1, <1>6
    <2> QED BY <2>2, <1>1 DEF Eq
  <1>8. it = Eq(it)
    BY <1>7 DEF it
  <1>9. it[{}] = 0 /\ \A s \in SUBSET (1 .. n) : s # {} => it[s] = it[s \ {Msg!Max(s)}] + ls[Msg!Max(s)].count
    BY <1>8, <1>1 DEF Eq
  <1>10. ASSUME NEW s \in SUBSET (1 .. n), NEW v \in Nat, s # {}, it[s \ {Msg!Max(s)}] = v
         PROVE  it[s] = go[<<Msg!Max(s), v>>]
    <2>1. Msg!Max(s) \in 1 .. n
      BY <1>1, <1>10, MaxIs
    <2> QED BY <2>1, <1>3, <1>9, <1>10
  <1>11. Folded(Nat, n, 0, go, it[1 .. n])
    <2>1. it[{}] = 0 /\ \A s \in SUBSET (1 .. n), v \in Nat :
            s # {} /\ it[s \ {Msg!Max(s)}] = v => it[s] = go[<<Msg!Max(s), v>>]
      BY <1>9, <1>10
    <2>2. 0 \in Nat
      OBVIOUS
    <2> QED BY <1>1, <1>4, <2>1, <2>2, FoldIs, Zenon
  <1>12. PICK g \in [0 .. n -> Nat] : g[0] = 0 /\ (\A k \in 0 .. n - 1 : g[k + 1] = go[<<k + 1, g[k]>>]) /\ it[1 .. n] = g[n]
    BY <1>11 DEF Folded
  <1>13. ASSUME NEW k \in 0 .. n - 1 PROVE g[k + 1] = g[k] + ls[k + 1].count
    <2>1. k + 1 \in 1 .. n /\ g[k] \in Nat
      BY <1>1
    <2> QED BY <2>1, <1>3, <1>12
  <1> QED
    BY <1>1, <1>2, <1>12, <1>13 DEF LineAdds, n

LEMMA LinesSumIs ==
  ASSUME NEW ls \in Seq(PrintedLine)
  PROVE  CountsOf(ls) \in Seq(Nat) /\ LinesSum(ls) = SumOf(CountsOf(ls))
  <1> DEFINE w == CountsOf(ls)
             n == Len(ls)
  <1>1. w \in Seq(Nat) /\ Len(w) = n /\ n \in Nat /\ \A i \in 1 .. n : w[i] = ls[i].count
    BY LinesHave DEF CountsOf
  <1>2. PICK g \in [0 .. n -> Nat] :
          g[0] = 0 /\ (\A k \in 0 .. n - 1 : g[k + 1] = g[k] + ls[k + 1].count) /\ LinesSum(ls) = g[n]
    BY LinesAdd DEF LineAdds
  <1> HIDE DEF w, n
  <1>3. \A k \in 0 .. Len(w) - 1 : g[k + 1] = g[k] + w[k + 1]
    <2> SUFFICES ASSUME NEW k \in 0 .. n - 1 PROVE g[k + 1] = g[k] + w[k + 1]
      BY <1>1
    <2>1. k + 1 \in 1 .. n
      BY <1>1
    <2> QED BY <2>1, <1>1, <1>2
  <1>4. n \in 0 .. Len(w) /\ g \in [0 .. Len(w) -> Nat]
    BY <1>1
  <1>5. SumOf(SubSeq(w, 1, n)) = g[n]
    BY <1>1, <1>2, <1>3, <1>4, PrefixSums
  <1>6. SubSeq(w, 1, n) = w
    BY <1>1
  <1> QED BY <1>1, <1>2, <1>5, <1>6 DEF w

LEMMA NoLines == LinesSum(<<>>) = 0
  <1>1. <<>> \in Seq(PrintedLine) /\ Len(<<>>) = 0
    OBVIOUS
  <1>2. LineAdds(<<>>, LinesSum(<<>>))
    BY <1>1, LinesAdd
  <1> QED BY <1>1, <1>2 DEF LineAdds

LEMMA OneMoreLine ==
  ASSUME NEW ls \in Seq(PrintedLine), NEW line \in PrintedLine
  PROVE  LinesSum(Append(ls, line)) = LinesSum(ls) + line.count
  <1> DEFINE more == Append(ls, line)
             n == Len(ls)
             w == CountsOf(ls)
             u == CountsOf(more)
  <1>1. more \in Seq(PrintedLine) /\ n \in Nat /\ Len(more) = n + 1 /\ more[n + 1] = line
        /\ \A i \in 1 .. n : more[i] = ls[i]
    OBVIOUS
  <1> HIDE DEF more
  <1>2. LinesSum(ls) = SumOf(w) /\ w \in Seq(Nat) /\ LinesSum(more) = SumOf(u) /\ u \in Seq(Nat)
    BY <1>1, LinesSumIs
  <1>3. Len(u) = n + 1 /\ u[n + 1] = line.count /\ Len(w) = n /\ \A i \in 1 .. n : u[i] = w[i]
    BY <1>1 DEF CountsOf
  <1> HIDE DEF n, u, w
  <1>4. PICK g \in [0 .. n + 1 -> Nat] :
          g[0] = 0 /\ (\A k \in 0 .. (n + 1) - 1 : g[k + 1] = g[k] + u[k + 1]) /\ SumOf(u) = g[n + 1]
    <2>1. Adds(u, SumOf(u))
      BY <1>2, SumAdds
    <2> QED BY <2>1, <1>3 DEF Adds
  <1>5. n \in 0 .. Len(u) /\ g \in [0 .. Len(u) -> Nat] /\ \A k \in 0 .. Len(u) - 1 : g[k + 1] = g[k] + u[k + 1]
    BY <1>1, <1>3, <1>4
  <1>6. SumOf(SubSeq(u, 1, n)) = g[n]
    BY <1>2, <1>4, <1>5, PrefixSums
  <1>7. SubSeq(u, 1, n) = w
    <2>1. SubSeq(u, 1, n) \in Seq(Nat) /\ Len(SubSeq(u, 1, n)) = n /\ \A i \in 1 .. n : SubSeq(u, 1, n)[i] = u[i]
      BY <1>1, <1>2, <1>3
    <2> QED BY <2>1, <1>1, <1>2, <1>3
  <1>8. n \in 0 .. (n + 1) - 1
    BY <1>1
  <1>9. g[n + 1] = g[n] + line.count
    BY <1>3, <1>4, <1>8
  <1> QED BY <1>2, <1>4, <1>6, <1>7, <1>9 DEF more

(* The ranges of a report: where the next one begins, after k of them.      *)
Rounds == Len(H!Starts)
Top(k) == IF k < Rounds THEN H!Starts[k + 1] ELSE Million
StartsFit ==
  /\ display_range \in Nat /\ Rounds \in Nat /\ Top(0) = 0 /\ Top(Rounds) = Million /\ DOMAIN H!Starts = 1 .. Rounds
  /\ \A k \in 0 .. Rounds - 1 :
       /\ H!Starts[k + 1] = Top(k) /\ Top(k) \in 0 .. Million - 1
       /\ Top(k) + H!RangeLen(Top(k)) = Top(k + 1) /\ Top(k) < Top(k + 1)
       /\ Top(k + 1) \in 0 .. Million

LEMMA StartsAre == ASSUME display_range \in Nat \ {0} PROVE StartsFit
  <1> DEFINE d == display_range
             q == (Million - 1) \div d
             S1 == H!Starts
  <1>1. Million \in Nat \ {0}
    BY LatencyAssumption
  <1>2. /\ \A u \in Nat, v \in Nat \ {0} : u \div v \in Nat /\ (u \div v) * v <= u /\ u < (u \div v) * v + v
    OBVIOUS
  <1>3. q \in Nat /\ q * d <= Million - 1 /\ Million - 1 < q * d + d
    BY <1>1, <1>2
  <1>4. S1 = [k \in 1 .. q + 1 |-> (k - 1) * d]
    BY DEF H!Starts
  <1>5. \A k \in Nat : k * d \in Nat /\ (k + 1) * d = k * d + d /\ (k <= q => k * d <= q * d)
    <2> HIDE DEF q
    <2>1. d \in Nat
      OBVIOUS
    <2> HIDE DEF d
    <2>2. \A k, b \in Nat : k * b \in Nat
      OBVIOUS
    <2>3. \A k, b \in Nat : (k + 1) * b = k * b + b
      OBVIOUS
    <2>4. \A k, e, b \in Nat : (k + e) * b = k * b + e * b
      OBVIOUS
    <2>5. ASSUME NEW k \in Nat, k <= q PROVE k * d <= q * d
      <3>1. q - k \in Nat /\ k + (q - k) = q
        BY <1>3, <2>5
      <3> DEFINE e == q - k
      <3>2. q * d = k * d + e * d
        BY <2>1, <2>4, <3>1
      <3>3. k * d \in Nat /\ e * d \in Nat
        BY <2>1, <2>2, <3>1
      <3> HIDE DEF e
      <3>4. \A u, v \in Nat : u <= u + v
        OBVIOUS
      <3> QED BY <3>2, <3>3, <3>4
    <2> QED BY <2>1, <2>2, <2>3, <2>5
  <1> HIDE DEF d, q, S1
  <1>6. Len(S1) = q + 1 /\ DOMAIN S1 = 1 .. q + 1 /\ \A k \in 0 .. q : S1[k + 1] = k * d
    BY <1>3, <1>4
  <1>7. Rounds = q + 1
    BY <1>6 DEF Rounds, S1
  <1>8. \A k \in 0 .. q : Top(k) = k * d
    BY <1>3, <1>6, <1>7 DEF Top, S1
  <1>9. Top(q + 1) = Million
    BY <1>3, <1>7 DEF Top
  <1>10. Top(0) = 0
    <2>1. 0 \in 0 .. q /\ 0 * d = 0
      BY <1>3 DEF d
    <2> QED BY <2>1, <1>8
  <1>11. ASSUME NEW k \in 0 .. q
         PROVE  /\ Top(k) \in 0 .. Million - 1 /\ Top(k) + H!RangeLen(Top(k)) = Top(k + 1)
                /\ Top(k) < Top(k + 1) /\ Top(k + 1) \in 0 .. Million
    <2> DEFINE i == Top(k)
    <2>1. i = k * d /\ k \in Nat /\ k <= q /\ d \in Nat \ {0}
      BY <1>3, <1>8 DEF d
    <2>2. i \in Nat /\ i <= q * d /\ (k + 1) * d = i + d
      BY <2>1, <1>5
    <2>3. q * d \in Nat
      BY <1>3, <1>5
    <2>4. i \in 0 .. Million - 1
      BY <2>2, <2>3, <1>1, <1>3
    <2>5. H!RangeLen(i) = IF Million - i > d THEN d ELSE Million - i
      BY DEF H!RangeLen, d
    <2> HIDE DEF i
    <2>6. CASE k = q
      <3>1. Top(k + 1) = Million /\ i = q * d
        BY <2>1, <2>6, <1>9
      <3>2. Million - i <= d
        BY <3>1, <2>1, <2>3, <1>1, <1>3
      <3> QED BY <3>1, <3>2, <2>1, <2>2, <2>4, <2>5, <1>1 DEF i
    <2>7. CASE k # q
      <3>1. k + 1 \in 0 .. q
        BY <2>1, <2>7, <1>3
      <3>2. Top(k + 1) = i + d /\ i + d <= q * d
        <4>1. Top(k + 1) = (k + 1) * d
          BY <3>1, <1>8
        <4>2. (k + 1) * d <= q * d
          BY <3>1, <1>5
        <4> QED BY <4>1, <4>2, <2>2
      <3>3. i + d <= Million - 1
        BY <3>2, <2>1, <2>2, <2>3, <1>1, <1>3
      <3> QED BY <3>2, <3>3, <2>1, <2>2, <2>4, <2>5, <1>1 DEF i
    <2> QED BY <2>6, <2>7
  <1>12. ASSUME NEW k \in 0 .. Rounds - 1 PROVE k \in 0 .. q /\ H!Starts[k + 1] = Top(k)
    <2>1. k \in 0 .. q
      BY <1>3, <1>7
    <2> QED BY <2>1, <1>6, <1>8 DEF S1
  <1>13. Rounds \in Nat /\ Top(Rounds) = Million /\ DOMAIN H!Starts = 1 .. Rounds
    BY <1>3, <1>6, <1>7, <1>9 DEF S1
  <1> QED BY <1>10, <1>11, <1>12, <1>13 DEF StartsFit

(* A line has the sum of the counters of its range.                         *)
CountersAre == histogram.counters \in [0 .. Million - 1 -> Nat]
RangeOf(k) == Top(k) .. Top(k + 1) - 1
LineOfRange(k) == [from |-> Top(k), to |-> Top(k + 1) - 1, count |-> Added(histogram.counters, RangeOf(k))]

LEMMA CountersAddable ==
  ASSUME CountersAre, NEW part, part \subseteq 0 .. Million - 1 PROVE Addable(histogram.counters, part)
  <1>1. IsFiniteSet(part)
    <2>1. 0 \in Int /\ Million - 1 \in Int
      BY LatencyAssumption
    <2>2. IsFiniteSet(0 .. Million - 1)
      BY <2>1, FS_Interval
    <2> QED BY <2>2, FS_Subset
  <1> QED BY <1>1 DEF Addable, CountersAre

LEMMA RangePrinted ==
  ASSUME CountersAre, StartsFit, NEW k \in 0 .. Rounds - 1, NEW ls \in Seq(PrintedLine)
  PROVE  /\ LineOfRange(k) \in PrintedLine /\ RangeOf(k) \subseteq 0 .. Million - 1
         /\ H!Printed(ls, H!Starts[k + 1]) = IF LineOfRange(k).count > 0 THEN Append(ls, LineOfRange(k)) ELSE ls
         /\ H!Printed(ls, H!Starts[k + 1]) \in Seq(PrintedLine)
  <1> DEFINE i == Top(k)
             e == Top(k + 1)
             n == Added(histogram.counters, RangeOf(k))
  <1>1. H!Starts[k + 1] = i /\ i \in 0 .. Million - 1 /\ i + H!RangeLen(i) = e /\ e \in 0 .. Million
    BY DEF StartsFit
  <1>2. RangeOf(k) \subseteq 0 .. Million - 1
    BY <1>1, LatencyAssumption DEF RangeOf
  <1>3. n \in Nat
    BY <1>2, CountersAddable, AddedIsNat
  <1>4. H!RangeLen(i) \in Int
    BY <1>1, LatencyAssumption DEF H!RangeLen, StartsFit
  <1>5. i + H!RangeLen(i) - 1 = e - 1
    BY <1>1, <1>4
  <1>6. H!CountersOf(i) = n
    BY <1>5 DEF H!CountersOf, Added, RangeOf
  <1>7. LineOfRange(k) = [from |-> i, to |-> e - 1, count |-> n]
    BY DEF LineOfRange
  <1>8. H!Printed(ls, i) = IF n > 0 THEN Append(ls, [from |-> i, to |-> e - 1, count |-> n]) ELSE ls
    BY <1>5, <1>6 DEF H!Printed
  <1> HIDE DEF i, e, n
  <1>9. [from |-> i, to |-> e - 1, count |-> n] \in PrintedLine /\ [from |-> i, to |-> e - 1, count |-> n].count = n
    BY <1>1, <1>3, LatencyAssumption DEF PrintedLine
  <1> DEFINE line == [from |-> i, to |-> e - 1, count |-> n]
  <1> HIDE DEF line
  <1>10. line \in PrintedLine /\ line.count = n /\ LineOfRange(k) = line
         /\ H!Printed(ls, i) = IF n > 0 THEN Append(ls, line) ELSE ls
    BY <1>7, <1>8, <1>9 DEF line
  <1>11. Append(ls, line) \in Seq(PrintedLine)
    BY <1>10
  <1>12. H!Printed(ls, i) \in Seq(PrintedLine)
    BY <1>10, <1>11
  <1> QED BY <1>1, <1>2, <1>10, <1>12

(* The lines after each range.                                              *)
PrintsAll == \E g \in [0 .. Rounds -> Seq(PrintedLine)] :
  /\ g[0] = <<>> /\ H!Lines = g[Rounds]
  /\ \A k \in 0 .. Rounds - 1 : g[k + 1] = H!Printed(g[k], H!Starts[k + 1])

LEMMA LinesPrinted == ASSUME CountersAre, StartsFit PROVE PrintsAll
  <1> DEFINE n == Rounds
             V == Seq(PrintedLine)
             S1 == H!Starts
             Eq(iter) == [s \in SUBSET DOMAIN S1 |-> IF s = {} THEN <<>> ELSE H!Printed(iter[s \ {Msg!Max(s)}], S1[Msg!Max(s)])]
             go == [q \in (1 .. n) \X V |-> H!Printed(q[2], S1[q[1]])]
             it == CHOOSE iter : iter = Eq(iter)
  <1>1. n \in Nat /\ DOMAIN S1 = 1 .. n
    BY DEF StartsFit
  <1>2. H!Lines = it[DOMAIN S1]
    BY DEF H!Lines, H!FoldLeft, H!MapThenFoldSet, H!Max, Msg!Max
  <1>3. \A i \in 1 .. n, v \in V : go[<<i, v>>] = H!Printed(v, S1[i]) /\ go[<<i, v>>] \in V
    <2> SUFFICES ASSUME NEW i \in 1 .. n, NEW v \in V PROVE H!Printed(v, S1[i]) \in V
      OBVIOUS
    <2> DEFINE k == i - 1
    <2>1. k \in 0 .. Rounds - 1 /\ k + 1 = i
      BY <1>1
    <2> HIDE DEF k
    <2>2. H!Printed(v, H!Starts[k + 1]) \in Seq(PrintedLine)
      BY <2>1, RangePrinted
    <2> QED BY <2>1, <2>2
  <1>4. go \in [(1 .. n) \X V -> V]
    <2> SUFFICES ASSUME NEW q \in (1 .. n) \X V PROVE go[q] \in V
      <3> HIDE DEF V
      <3> QED OBVIOUS
    <2>1. PICK i \in 1 .. n, v \in V : q = <<i, v>>
      <3> HIDE DEF V, n
      <3> QED OBVIOUS
    <2> HIDE DEF go, V, n
    <2> QED BY <2>1, <1>3
  <1>5. <<>> \in V
    OBVIOUS
  <1> HIDE DEF Eq, go, it, n, V, S1
  <1>6. PICK f \in [SUBSET (1 .. n) -> V] : \A s \in SUBSET (1 .. n) :
          f[s] = IF s = {} THEN <<>> ELSE go[<<Msg!Max(s), f[s \ {Msg!Max(s)}]>>]
    <2>1. Foldable(V, n, <<>>, go)
      BY <1>1, <1>4, <1>5, FoldExists
    <2> QED BY <2>1 DEF Foldable
  <1>7. f = Eq(f)
    <2>1. ASSUME NEW s \in SUBSET (1 .. n), s # {} PROVE f[s] = H!Printed(f[s \ {Msg!Max(s)}], S1[Msg!Max(s)])
      <3>1. Msg!Max(s) \in 1 .. n /\ f[s \ {Msg!Max(s)}] \in V
        BY <1>1, <2>1, MaxIs
      <3> QED BY <3>1, <2>1, <1>3, <1>6
    <2>2. \A s \in SUBSET (1 .. n) : f[s] = IF s = {} THEN <<>> ELSE H!Printed(f[s \ {Msg!Max(s)}], S1[Msg!Max(s)])
      BY <2>1, <1>6
    <2> QED BY <2>2, <1>1 DEF Eq
  <1>8. it = Eq(it)
    BY <1>7 DEF it
  <1>9. it[{}] = <<>> /\ \A s \in SUBSET (1 .. n) : s # {} => it[s] = H!Printed(it[s \ {Msg!Max(s)}], S1[Msg!Max(s)])
    BY <1>8, <1>1 DEF Eq
  <1>10. ASSUME NEW s \in SUBSET (1 .. n), NEW v \in V, s # {}, it[s \ {Msg!Max(s)}] = v
         PROVE  it[s] = go[<<Msg!Max(s), v>>]
    <2>1. Msg!Max(s) \in 1 .. n
      BY <1>1, <1>10, MaxIs
    <2> QED BY <2>1, <1>3, <1>9, <1>10
  <1>11. Folded(V, n, <<>>, go, it[1 .. n])
    <2>1. it[{}] = <<>> /\ \A s \in SUBSET (1 .. n), v \in V :
            s # {} /\ it[s \ {Msg!Max(s)}] = v => it[s] = go[<<Msg!Max(s), v>>]
      BY <1>9, <1>10
    <2> QED BY <1>1, <1>4, <1>5, <2>1, FoldIs, Zenon
  <1>12. PICK g \in [0 .. n -> V] : g[0] = <<>> /\ (\A k \in 0 .. n - 1 : g[k + 1] = go[<<k + 1, g[k]>>]) /\ it[1 .. n] = g[n]
    BY <1>11 DEF Folded
  <1>13. ASSUME NEW k \in 0 .. n - 1 PROVE g[k + 1] = H!Printed(g[k], S1[k + 1])
    <2>1. k + 1 \in 1 .. n /\ g[k] \in V
      BY <1>1
    <2> QED BY <2>1, <1>3, <1>12
  <1> QED
    BY <1>1, <1>2, <1>12, <1>13 DEF PrintsAll, n, V, S1

(* The lines printed after k ranges: they ascend, each has the count of its *)
(* range, and together they have the counters so far.                       *)
LineIn(line, top) == /\ line.from \in 0 .. Million - 1 /\ line.to \in 0 .. top - 1
                     /\ line.count = Added(histogram.counters, line.from .. line.to)
ReportOf(ls, k) ==
  /\ ls \in Seq(PrintedLine) /\ LinesSum(ls) = Added(histogram.counters, 0 .. Top(k) - 1)
  /\ \A j \in 1 .. Len(ls) : LineIn(ls[j], Top(k))
  /\ \A j \in 2 .. Len(ls) : ls[j - 1].to < ls[j].from

LEMMA ReportGrows ==
  ASSUME CountersAre, StartsFit, NEW k \in 0 .. Rounds - 1, NEW ls, ReportOf(ls, k)
  PROVE  ReportOf(H!Printed(ls, H!Starts[k + 1]), k + 1)
  <1> DEFINE i == Top(k)
             e == Top(k + 1)
             line == LineOfRange(k)
             counters == histogram.counters
  <1>1. i \in 0 .. Million - 1 /\ e \in 0 .. Million /\ i < e
    BY DEF StartsFit
  <1>2. ls \in Seq(PrintedLine) /\ LinesSum(ls) = Added(counters, 0 .. i - 1)
    BY DEF ReportOf
  <1>3. line \in PrintedLine /\ RangeOf(k) \subseteq 0 .. Million - 1
        /\ H!Printed(ls, H!Starts[k + 1]) = IF line.count > 0 THEN Append(ls, line) ELSE ls
    BY <1>2, RangePrinted
  <1>4. line.from = i /\ line.to = e - 1 /\ line.count = Added(counters, RangeOf(k)) /\ RangeOf(k) = i .. e - 1
    BY DEF LineOfRange, RangeOf
  <1>5. Added(counters, 0 .. e - 1) = Added(counters, 0 .. i - 1) + line.count
    <2>1. 0 .. i - 1 \subseteq 0 .. Million - 1 /\ (0 .. i - 1) \cap RangeOf(k) = {}
          /\ (0 .. i - 1) \cup RangeOf(k) = 0 .. e - 1
      BY <1>1, <1>4, LatencyAssumption
    <2>2. Addable(counters, 0 .. i - 1) /\ Addable(counters, RangeOf(k))
      BY <2>1, <1>3, CountersAddable
    <2> DEFINE was == 0 .. i - 1
               new == RangeOf(k)
    <2>3. was \cap new = {} /\ Addable(counters, was) /\ Addable(counters, new)
      BY <2>1, <2>2
    <2> HIDE DEF was, new, counters
    <2>4. Added(counters, was \cup new) = Added(counters, was) + Added(counters, new)
      BY <2>3, AddedParts
    <2>5. was \cup new = 0 .. e - 1
      BY <2>1 DEF was, new
    <2> QED BY <2>4, <2>5, <1>4, Zenon DEF was, new
  <1>6. \A j \in 1 .. Len(ls) : LineIn(ls[j], e)
    <2> SUFFICES ASSUME NEW j \in 1 .. Len(ls) PROVE LineIn(ls[j], e)
      OBVIOUS
    <2>1. LineIn(ls[j], i)
      BY DEF ReportOf
    <2>2. 0 .. i - 1 \subseteq 0 .. e - 1
      BY <1>1, LatencyAssumption
    <2> HIDE DEF i, e
    <2> QED BY <2>1, <2>2 DEF LineIn
  <1>7. LineIn(line, e)
    <2>1. e - 1 \in 0 .. e - 1
      BY <1>1, LatencyAssumption
    <2> HIDE DEF i, e, line
    <2> QED BY <2>1, <1>1, <1>4 DEF LineIn, counters
  <1>8. CASE line.count > 0
    <2> DEFINE more == Append(ls, line)
               n == Len(ls)
    <2>1. more \in Seq(PrintedLine) /\ n \in Nat /\ Len(more) = n + 1 /\ more[n + 1] = line
          /\ \A j \in 1 .. n : more[j] = ls[j]
      <3> HIDE DEF line
      <3> QED BY <1>2, <1>3
    <2>2. LinesSum(more) = Added(counters, 0 .. e - 1)
      <3>1. LinesSum(more) = LinesSum(ls) + line.count
        BY <1>2, <1>3, OneMoreLine
      <3> QED BY <3>1, <1>2, <1>5
    <2>3. ASSUME NEW j \in 1 .. n + 1 PROVE LineIn(more[j], e)
      <3>1. CASE j = n + 1
        BY <3>1, <2>1, <1>7
      <3>2. CASE j # n + 1
        <4>1. j \in 1 .. n
          BY <3>2, <2>1
        <4> QED BY <4>1, <2>1, <1>6
      <3> QED BY <3>1, <3>2
    <2>4. ASSUME NEW j \in 2 .. n + 1 PROVE more[j - 1].to < more[j].from
      <3>1. j - 1 \in 1 .. n /\ more[j - 1] = ls[j - 1]
        BY <2>1
      <3>2. CASE j = n + 1
        <4>1. LineIn(ls[j - 1], i)
          BY <3>1 DEF ReportOf
        <4>2. ls[j - 1].to < i
          BY <4>1, <1>1, LatencyAssumption DEF LineIn
        <4> QED BY <4>2, <3>1, <3>2, <2>1, <1>4
      <3>3. CASE j # n + 1
        <4>1. j \in 2 .. n /\ j \in 1 .. n
          BY <3>3, <2>1
        <4>2. ls[j - 1].to < ls[j].from
          BY <4>1 DEF ReportOf
        <4> QED BY <4>1, <4>2, <3>1, <2>1
      <3> QED BY <3>2, <3>3
    <2> HIDE DEF more, n, line
    <2> QED BY <2>1, <2>2, <2>3, <2>4, <1>3, <1>8 DEF ReportOf, more, counters
  <1>9. CASE ~(line.count > 0)
    <2>1. line.count = 0
      <3>1. \A l \in PrintedLine : ~(l.count > 0) => l.count = 0
        BY DEF PrintedLine
      <3> QED BY <3>1, <1>3, <1>9
    <2>2. Added(counters, 0 .. i - 1) \in Nat
      <3>1. 0 .. i - 1 \subseteq 0 .. Million - 1
        BY <1>1, LatencyAssumption
      <3> QED BY <3>1, CountersAddable, AddedIsNat
    <2>3. LinesSum(ls) = Added(counters, 0 .. e - 1)
      BY <2>1, <2>2, <1>2, <1>5
    <2>4. \A j \in 2 .. Len(ls) : ls[j - 1].to < ls[j].from
      BY DEF ReportOf
    <2> HIDE DEF line
    <2> QED BY <2>3, <2>4, <1>2, <1>3, <1>6, <1>9 DEF ReportOf, counters
  <1> QED BY <1>8, <1>9

LEMMA LinesReport == ASSUME CountersAre, StartsFit PROVE ReportOf(H!Lines, Rounds)
  <1>1. PICK g \in [0 .. Rounds -> Seq(PrintedLine)] :
          /\ g[0] = <<>> /\ H!Lines = g[Rounds]
          /\ \A k \in 0 .. Rounds - 1 : g[k + 1] = H!Printed(g[k], H!Starts[k + 1])
    BY LinesPrinted DEF PrintsAll
  <1>2. Rounds \in Nat /\ Top(0) = 0
    BY DEF StartsFit
  <1> DEFINE A == {k \in Nat : k <= Rounds => ReportOf(g[k], k)}
  <1>3. 0 \in A
    <2>1. <<>> \in Seq(PrintedLine) /\ Len(<<>>) = 0 /\ 0 .. 0 - 1 = {} /\ 1 .. 0 = {} /\ 2 .. 0 = {}
      OBVIOUS
    <2>2. LinesSum(<<>>) = 0 /\ Added(histogram.counters, {}) = 0
      BY NoLines, AddedNothing
    <2>3. Added(histogram.counters, 0 .. 0 - 1) = 0
      BY <2>1, <2>2, Zenon
    <2>4. ReportOf(<<>>, 0)
      BY <2>1, <2>2, <2>3, <1>2 DEF ReportOf
    <2> QED BY <2>4, <1>1
  <1>4. ASSUME NEW k \in Nat, k \in A PROVE k + 1 \in A
    <2> SUFFICES ASSUME k + 1 <= Rounds PROVE ReportOf(g[k + 1], k + 1)
      OBVIOUS
    <2>1. k \in 0 .. Rounds - 1 /\ ReportOf(g[k], k)
      BY <1>2, <1>4
    <2>2. ReportOf(H!Printed(g[k], H!Starts[k + 1]), k + 1)
      BY <2>1, ReportGrows
    <2> QED BY <2>1, <2>2, <1>1
  <1>5. Nat \subseteq A
    <2> HIDE DEF A
    <2> QED BY <1>3, <1>4, Induction
  <1> QED BY <1>1, <1>2, <1>5

(* The histogram has each value added since the reset: below 0, from a      *)
(* million on, or in its counter.                                           *)
Below == {t \in Times : t < 0}
Above == {t \in Times : t >= Million}
AddsAre == adds \in [Times -> Nat]
Tied == \A i \in 0 .. Million - 1 : histogram.counters[i] = IF i \in Times THEN adds[i] ELSE 0

LEMMA AddsAddable == ASSUME AddsAre, NEW part, part \subseteq Times PROVE Addable(adds, part)
  <1>1. IsFiniteSet(part)
    BY LatencyAssumption, FS_Subset
  <1> QED BY <1>1 DEF Addable, AddsAre

LEMMA RangeAdds ==
  ASSUME CountersAre, AddsAre, Tied, NEW part, part \subseteq 0 .. Million - 1
  PROVE  Added(histogram.counters, part) = Added(adds, part \cap Times)
  <1> DEFINE in == part \cap Times
             no == part \ Times
             counters == histogram.counters
  <1>1. in \cap no = {} /\ in \cup no = part /\ in \subseteq part /\ no \subseteq part
    OBVIOUS
  <1>2. Addable(counters, in) /\ Addable(counters, no) /\ \A x \in no : counters[x] = 0
    BY CountersAddable DEF Tied
  <1>3. \A x \in in : counters[x] = adds[x]
    BY DEF Tied
  <1> HIDE DEF in, no, counters
  <1>4. Added(counters, in \cup no) = Added(counters, in) + Added(counters, no)
    BY <1>1, <1>2, AddedParts
  <1>5. Added(counters, no) = 0
    BY <1>2, AddedZeros
  <1>6. Added(counters, in) = Added(adds, in) /\ Added(counters, in) \in Nat
    BY <1>2, <1>3, AddedSame, AddedIsNat
  <1>7. Added(counters, part) = Added(counters, in \cup no)
    BY <1>1, Zenon
  <1>8. Added(counters, part) = Added(adds, in)
    BY <1>4, <1>5, <1>6, <1>7
  <1> QED BY <1>8 DEF in, counters

LEMMA AllAdds ==
  ASSUME CountersAre, AddsAre, Tied
  PROVE  Added(adds, Times) = Added(adds, Below) + Added(adds, Above) + Added(histogram.counters, 0 .. Million - 1)
  <1> DEFINE mid == (0 .. Million - 1) \cap Times
             out1 == Below \cup Above
  <1>1. Below \cap Above = {} /\ out1 \cap mid = {} /\ out1 \cup mid = Times
    <2>1. ASSUME NEW t \in Times
          PROVE  /\ ~(t < 0 /\ t >= Million)
                 /\ t \in 0 .. Million - 1 <=> ~(t < 0) /\ ~(t >= Million)
      <3>1. t \in Int /\ Million \in Nat \ {0}
        BY LatencyAssumption
      <3> QED BY <3>1
    <2>2. mid \subseteq Times /\ Below \subseteq Times /\ Above \subseteq Times
      BY DEF Below, Above
    <2>3. \A t \in Times : /\ t \in Below <=> t < 0
                           /\ t \in Above <=> t >= Million
                           /\ t \in mid <=> t \in 0 .. Million - 1
      BY DEF Below, Above
    <2> HIDE DEF mid
    <2> QED BY <2>1, <2>2, <2>3
  <1>2. Addable(adds, Below) /\ Addable(adds, Above) /\ Addable(adds, mid) /\ Addable(adds, out1)
    BY AddsAddable DEF Below, Above
  <1>3. Added(adds, out1) = Added(adds, Below) + Added(adds, Above)
    BY <1>1, <1>2, AddedParts
  <1>4. Added(histogram.counters, 0 .. Million - 1) = Added(adds, mid)
    BY RangeAdds
  <1> HIDE DEF mid, out1
  <1>5. Added(adds, out1 \cup mid) = Added(adds, out1) + Added(adds, mid)
    BY <1>1, <1>2, AddedParts
  <1>6. Added(adds, Times) = Added(adds, out1 \cup mid)
    BY <1>1, Zenon
  <1> QED BY <1>3, <1>4, <1>5, <1>6

(* What is in the histogram, and what a report of it said when it was made. *)
HistogramIs ==
  /\ histogram = [counters |-> histogram.counters, under |-> histogram.under, over |-> histogram.over,
                  total_count |-> histogram.total_count, total_time |-> histogram.total_time]
  /\ CountersAre /\ AddsAre /\ Tied
  /\ histogram.under = Added(adds, Below) /\ histogram.over = Added(adds, Above)
  /\ histogram.total_count = Added(adds, Times)
LinesTell(ls, ad) ==
  \A k \in DOMAIN ls : /\ ls[k].count = Added(ad, (ls[k].from .. ls[k].to) \cap Times)
                       /\ k > 1 => ls[k - 1].to < ls[k].from
TellsAll(r) ==
  r.made => /\ LinesTell(r.lines, r.adds)
            /\ r.total = Added(r.adds, Times) /\ r.under = Added(r.adds, Below)
            /\ r.total = r.under + r.over + LinesSum(r.lines)
LatencyInv ==
  /\ display_range \in Nat /\ HistogramIs /\ TellsAll(report)
  /\ fate = "crashed" => adds = H!Nothing
  /\ fate = "looping" => display_range = 0

LEMMA NothingAdded ==
  ASSUME histogram = H!Cleared, adds = H!Nothing PROVE HistogramIs
  <1>1. histogram.counters = [i \in 0 .. Million - 1 |-> 0] /\ histogram.under = 0 /\ histogram.over = 0
        /\ histogram.total_count = 0 /\ histogram.total_time = 0
    BY DEF H!Cleared
  <1>2. histogram = [counters |-> histogram.counters, under |-> histogram.under, over |-> histogram.over,
                     total_count |-> histogram.total_count, total_time |-> histogram.total_time]
    BY DEF H!Cleared
  <1>3. CountersAre
    BY <1>1 DEF CountersAre
  <1>4. AddsAre /\ \A t \in Times : adds[t] = 0
    BY DEF AddsAre, H!Nothing
  <1>5. Tied
    BY <1>1, <1>4 DEF Tied
  <1>6. Below \subseteq Times /\ Above \subseteq Times
    BY DEF Below, Above
  <1>7. \A part \in SUBSET Times : Added(adds, part) = 0
    BY <1>4, AddsAddable, AddedZeros
  <1> QED BY <1>1, <1>2, <1>3, <1>4, <1>5, <1>6, <1>7 DEF HistogramIs

LEMMA LatencyInitially == ASSUME H!Init PROVE LatencyInv
  <1>1. HistogramIs /\ display_range \in Nat
    BY NothingAdded, LatencyAssumption DEF H!Init
  <1>2. ~report.made /\ fate = "running"
    BY DEF H!Init, H!NoReport
  <1> QED BY <1>1, <1>2 DEF LatencyInv, TellsAll

(* The same, after a step that changes neither the histogram nor the adds.  *)
LEMMA SameHistogram ==
  ASSUME HistogramIs, histogram' = histogram, adds' = adds PROVE HistogramIs'
  BY DEF HistogramIs, CountersAre, AddsAre, Tied

LEMMA ClearedHistogram == (histogram = H!Cleared /\ adds = H!Nothing => HistogramIs)'
  <1>1. histogram = H!Cleared /\ adds = H!Nothing => HistogramIs
    BY NothingAdded
  <1> QED BY <1>1, PTL

LEMMA AddStep == ASSUME LatencyInv, NEW usec \in Times, H!Add(usec) PROVE LatencyInv'
  <1>1. display_range' = display_range /\ fate' = "running" /\ ~report'.made
    BY DEF H!Add, H!NoReport
  <1>2. adds' = [adds EXCEPT ![usec] = @ + 1] /\ AddsAre /\ usec \in DOMAIN adds
    BY DEF H!Add, LatencyInv, HistogramIs, AddsAre
  <1>3. AddsAre'
    BY <1>2 DEF AddsAre
  <1>4. \A part \in SUBSET Times : Added(adds', part) = IF usec \in part THEN Added(adds, part) + 1 ELSE Added(adds, part)
    <2> SUFFICES ASSUME NEW part \in SUBSET Times
                 PROVE  Added(adds', part) = IF usec \in part THEN Added(adds, part) + 1 ELSE Added(adds, part)
      OBVIOUS
    <2>1. Addable(adds, part)
      BY <1>2, AddsAddable
    <2> QED BY <2>1, <1>2, AddedMore
  <1> DEFINE hist == H!Counted(histogram, usec)
             counters == histogram.counters
  <1>5. histogram' = [hist EXCEPT !.total_count = @ + 1, !.total_time = @ + usec]
    BY DEF H!Add
  <1>6. histogram = [counters |-> counters, under |-> histogram.under, over |-> histogram.over,
                     total_count |-> histogram.total_count, total_time |-> histogram.total_time]
        /\ counters \in [0 .. Million - 1 -> Nat] /\ Tied
        /\ histogram.under = Added(adds, Below) /\ histogram.over = Added(adds, Above)
        /\ histogram.total_count = Added(adds, Times)
    BY DEF LatencyInv, HistogramIs, CountersAre
  <1>7. usec \in Int /\ Million \in Nat \ {0}
    BY LatencyAssumption
  <1>8. Below \in SUBSET Times /\ Above \in SUBSET Times /\ Times \in SUBSET Times
        /\ (usec \in Below <=> usec < 0) /\ (usec \in Above <=> usec >= Million)
    BY DEF Below, Above
  <1>9. hist = [counters |-> IF usec \in 0 .. Million - 1 THEN [counters EXCEPT ![usec] = @ + 1] ELSE counters,
                under |-> IF usec < 0 THEN histogram.under + 1 ELSE histogram.under,
                over |-> IF usec >= Million THEN histogram.over + 1 ELSE histogram.over,
                total_count |-> histogram.total_count, total_time |-> histogram.total_time]
    <2>1. CASE usec >= Million
      <3>1. ~(usec < 0) /\ usec \notin 0 .. Million - 1
        BY <2>1, <1>7
      <3> QED BY <2>1, <3>1, <1>6 DEF H!Counted
    <2>2. CASE usec < 0
      <3>1. ~(usec >= Million) /\ usec \notin 0 .. Million - 1
        BY <2>2, <1>7
      <3> QED BY <2>2, <3>1, <1>6 DEF H!Counted
    <2>3. CASE ~(usec >= Million) /\ ~(usec < 0)
      <3>1. usec \in 0 .. Million - 1
        BY <2>3, <1>7
      <3> QED BY <2>3, <3>1, <1>6 DEF H!Counted
    <2> QED BY <2>1, <2>2, <2>3
  <1>10. histogram'.counters = (IF usec \in 0 .. Million - 1 THEN [counters EXCEPT ![usec] = @ + 1] ELSE counters)
         /\ histogram'.under = (IF usec < 0 THEN histogram.under + 1 ELSE histogram.under)
         /\ histogram'.over = (IF usec >= Million THEN histogram.over + 1 ELSE histogram.over)
         /\ histogram'.total_count = histogram.total_count + 1
         /\ histogram' = [counters |-> histogram'.counters, under |-> histogram'.under, over |-> histogram'.over,
                          total_count |-> histogram'.total_count, total_time |-> histogram'.total_time]
    <2> HIDE DEF hist, counters
    <2> QED BY <1>5, <1>9
  <1>11. CountersAre' /\ Tied'
    <2> HIDE DEF hist
    <2>1. histogram'.counters \in [0 .. Million - 1 -> Nat]
      <3> HIDE DEF counters
      <3>1. CASE usec \in 0 .. Million - 1
        <4>1. counters[usec] \in Nat /\ counters[usec] + 1 \in Nat
          BY <3>1, <1>6
        <4>2. [counters EXCEPT ![usec] = @ + 1] \in [0 .. Million - 1 -> Nat]
          BY <4>1, <1>6
        <4> QED BY <3>1, <4>2, <1>10
      <3>2. CASE usec \notin 0 .. Million - 1
        BY <3>2, <1>6, <1>10
      <3> QED BY <3>1, <3>2
    <2>2. ASSUME NEW i \in 0 .. Million - 1
          PROVE  histogram'.counters[i] = IF i \in Times THEN adds'[i] ELSE 0
      <3>1. counters[i] = IF i \in Times THEN adds[i] ELSE 0
        BY <1>6 DEF Tied
      <3>2. CASE i = usec
        <4>1. histogram'.counters[i] = counters[i] + 1
          BY <3>2, <1>6, <1>10
        <4>2. adds'[i] = adds[i] + 1
          BY <3>2, <1>2
        <4> QED BY <3>1, <3>2, <4>1, <4>2
      <3>3. CASE i # usec
        <4>1. histogram'.counters[i] = counters[i]
          BY <3>3, <1>6, <1>10
        <4>2. i \in Times => adds'[i] = adds[i]
          BY <3>3, <1>2 DEF AddsAre
        <4> QED BY <3>1, <4>1, <4>2
      <3> QED BY <3>2, <3>3
    <2> QED BY <2>1, <2>2 DEF CountersAre, Tied
  <1>12. histogram'.under = Added(adds', Below) /\ histogram'.over = Added(adds', Above)
         /\ histogram'.total_count = Added(adds', Times)
    <2> HIDE DEF hist, counters
    <2> QED BY <1>4, <1>6, <1>8, <1>10
  <1>13. HistogramIs'
    <2> HIDE DEF hist, counters
    <2> QED BY <1>3, <1>10, <1>11, <1>12 DEF HistogramIs
  <1> QED BY <1>1, <1>13 DEF LatencyInv, TellsAll

LEMMA SetDisplayRangeStep ==
  ASSUME LatencyInv, NEW range \in Ranges, H!SetDisplayRange(range) PROVE LatencyInv'
  <1>1. histogram' = histogram /\ adds' = adds /\ fate' = "running" /\ ~report'.made
    BY DEF H!SetDisplayRange, H!NoReport
  <1>2. display_range' \in Nat
    BY LatencyAssumption DEF H!SetDisplayRange
  <1>3. HistogramIs'
    BY <1>1, SameHistogram DEF LatencyInv
  <1> QED BY <1>1, <1>2, <1>3 DEF LatencyInv, TellsAll

LEMMA ReportTells ==
  ASSUME HistogramIs, display_range \in Nat \ {0}, NEW average, NEW r,
         r = [made |-> TRUE, lines |-> H!Lines, average |-> average, total |-> histogram.total_count,
              under |-> histogram.under, over |-> histogram.over, adds |-> adds]
  PROVE  TellsAll(r)
  <1> DEFINE ls == H!Lines
             counters == histogram.counters
  <1>1. CountersAre /\ AddsAre /\ Tied
    BY DEF HistogramIs
  <1>2. StartsFit
    BY StartsAre
  <1>3. ReportOf(ls, Rounds) /\ Top(Rounds) = Million
    BY <1>1, <1>2, LinesReport DEF Top, StartsFit
  <1>4. ls \in Seq(PrintedLine) /\ LinesSum(ls) = Added(counters, 0 .. Million - 1)
        /\ (\A j \in 1 .. Len(ls) : LineIn(ls[j], Million))
        /\ (\A j \in 2 .. Len(ls) : ls[j - 1].to < ls[j].from)
    BY <1>3 DEF ReportOf
  <1>5. Len(ls) \in Nat /\ DOMAIN ls = 1 .. Len(ls)
    BY <1>4, LinesHave
  <1>6. r.made /\ r.lines = ls /\ r.adds = adds /\ r.total = Added(adds, Times)
        /\ r.under = Added(adds, Below) /\ r.over = Added(adds, Above)
    BY DEF HistogramIs
  <1>7. r.total = r.under + r.over + LinesSum(r.lines)
    <2>1. Added(adds, Times) = Added(adds, Below) + Added(adds, Above) + Added(counters, 0 .. Million - 1)
      BY <1>1, AllAdds
    <2> HIDE DEF ls, counters
    <2> QED BY <2>1, <1>4, <1>6
  <1>8. ASSUME NEW k \in 1 .. Len(ls)
        PROVE  /\ ls[k].count = Added(adds, (ls[k].from .. ls[k].to) \cap Times)
               /\ k > 1 => ls[k - 1].to < ls[k].from
    <2>1. LineIn(ls[k], Million)
      BY <1>4
    <2> HIDE DEF ls
    <2>2. ls[k].count = Added(counters, ls[k].from .. ls[k].to)
      BY <2>1 DEF LineIn
    <2>3. ls[k].from .. ls[k].to \subseteq 0 .. Million - 1
      <3>1. \A u, v \in 0 .. Million - 1 : u .. v \subseteq 0 .. Million - 1
        BY LatencyAssumption
      <3> QED BY <3>1, <2>1 DEF LineIn
    <2>4. Added(counters, ls[k].from .. ls[k].to) = Added(adds, (ls[k].from .. ls[k].to) \cap Times)
      BY <2>3, <1>1, RangeAdds
    <2>5. k > 1 => k \in 2 .. Len(ls)
      BY <1>5
    <2> QED BY <2>2, <2>4, <2>5, <1>4
  <1> HIDE DEF ls
  <1>9. LinesTell(ls, adds)
    BY <1>5, <1>8 DEF LinesTell
  <1> QED BY <1>6, <1>7, <1>9 DEF TellsAll

LEMMA CalcStep ==
  ASSUME LatencyInv, NEW toFile \in BOOLEAN, NEW reset \in BOOLEAN, H!Calc(toFile, reset)
  PROVE  LatencyInv'
  <1>1. display_range' = display_range /\ display_range \in Nat /\ HistogramIs /\ TellsAll(report)
        /\ fate = "running"
    BY DEF H!Calc, LatencyInv
  <1>2. CASE display_range = 0
    <2>1. fate' = "looping" /\ histogram' = histogram /\ report' = report /\ adds' = adds
      BY <1>2 DEF H!Calc
    <2>2. HistogramIs'
      BY <2>1, <1>1, SameHistogram
    <2>3. TellsAll(report')
      BY <2>1, <1>1
    <2> QED BY <2>1, <2>2, <2>3, <1>1, <1>2 DEF LatencyInv
  <1>3. CASE display_range > 0 /\ toFile /\ histogram.total_count = 0
    <2>1. fate' = "crashed" /\ histogram' = histogram /\ report' = report /\ adds' = adds
      BY <1>1, <1>3 DEF H!Calc
    <2>2. HistogramIs'
      BY <2>1, <1>1, SameHistogram
    <2>3. TellsAll(report')
      BY <2>1, <1>1
    <2>4. adds = H!Nothing
      <3>1. Addable(adds, Times) /\ Added(adds, Times) = 0 /\ adds \in [Times -> Nat]
        BY <1>1, <1>3, AddsAddable DEF HistogramIs, AddsAre
      <3>2. \A t \in Times : adds[t] = 0
        BY <3>1, AddedZeros
      <3> QED BY <3>1, <3>2 DEF H!Nothing
    <2> QED BY <2>1, <2>2, <2>3, <2>4, <1>1 DEF LatencyInv
  <1>4. CASE display_range > 0 /\ ~(toFile /\ histogram.total_count = 0)
    <2> DEFINE average == IF toFile THEN H!Truncated(histogram.total_time, histogram.total_count) ELSE 0
    <2>1. /\ report' = [made |-> TRUE, lines |-> H!Lines, average |-> average,
                        total |-> histogram.total_count, under |-> histogram.under,
                        over |-> histogram.over, adds |-> adds]
          /\ IF reset THEN histogram' = H!Cleared /\ adds' = H!Nothing ELSE UNCHANGED <<histogram, adds>>
          /\ fate' = fate
      BY <1>1, <1>4 DEF H!Calc, H!Report
    <2> HIDE DEF average
    <2>2. TellsAll(report')
      BY <2>1, <1>1, <1>4, ReportTells
    <2>3. HistogramIs'
      <3>1. CASE reset
        <4>1. histogram' = H!Cleared /\ adds' = H!Nothing
          BY <2>1, <3>1
        <4> QED BY <4>1, ClearedHistogram
      <3>2. CASE ~reset
        BY <2>1, <3>2, <1>1, SameHistogram
      <3> QED BY <3>1, <3>2
    <2> QED BY <2>1, <2>2, <2>3, <1>1 DEF LatencyInv
  <1> QED BY <1>1, <1>2, <1>3, <1>4

LEMMA LatencyStep == ASSUME LatencyInv, [H!Next]_latency PROVE LatencyInv'
  <1>1. CASE UNCHANGED latency
    <2>1. histogram' = histogram /\ display_range' = display_range /\ report' = report /\ fate' = fate /\ adds' = adds
      BY <1>1 DEF latency
    <2>2. HistogramIs' /\ TellsAll(report')
      BY <2>1, SameHistogram DEF LatencyInv
    <2> QED BY <2>1, <2>2 DEF LatencyInv
  <1>2. CASE H!CannotOpen
    BY <1>1, <1>2 DEF H!CannotOpen, H!latency, latency
  <1>3. CASE H!Stream
    <2>1. CASE H!Calc(FALSE, FALSE)
      BY <2>1, CalcStep
    <2>2. CASE fate' = "overread" /\ UNCHANGED <<histogram, display_range, report, adds>>
      <3>1. HistogramIs' /\ TellsAll(report')
        BY <2>2, SameHistogram DEF LatencyInv
      <3> QED BY <2>2, <3>1 DEF LatencyInv
    <2> QED BY <1>3, <2>1, <2>2 DEF H!Stream
  <1> QED BY <1>1, <1>2, <1>3, AddStep, SetDisplayRangeStep, CalcStep DEF H!Next

(* The reports of latency::calc() account for each value added since the    *)
(* last reset once, whatever the range of a line, whether it divides the    *)
(* counters or not: the lines ascend and do not overlap, each has as many   *)
(* as there are values in it, and with those under 0 and over the counters  *)
(* they are all that were added.  But for what operator<< prints before its *)
(* buffer is filled, only a report of nothing to a file ends the program,   *)
(* and only a range of 0 hangs it.                                          *)
THEOREM ReportsAddUp == Spec => []ReportAddsUp
  <1>1. Init => LatencyInv
    BY LatencyInitially DEF Init
  <1>2. LatencyInv /\ [Next]_<<component, fields, log, config, clock, latency, stats, prompts, json,
                               hexdump, endpoint>> => LatencyInv'
    BY LatencyMove, LatencyStep
  <1>3. LatencyInv => ReportAddsUp
    BY DEF LatencyInv, TellsAll, LinesTell, ReportAddsUp, H!ReportAddsUp, Added, LinesSum, Below
  <1> QED BY <1>1, <1>2, <1>3, PTL DEF Spec
=============================================================================
