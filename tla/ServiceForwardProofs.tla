-------------------------- MODULE ServiceForwardProofs ---------------------------
(***************************************************************************)
(* Proofs about ServiceForward, for any services, hosts and ports.  The    *)
(* invariant says of each command how far it has come, and of each binding *)
(* behind it that it has its tunnel or is untouched.  That two commands    *)
(* use the same ports takes a second one: there is one assignment of first *)
(* ports to types that both have kept to so far, whichever is ahead.       *)
(***************************************************************************)
EXTENDS ServiceForward, SequenceTheorems, TLAPS

---------------------------------------------------------------------------------
(* One binding: what forward finds in its credentials and what it writes. *)

LEMMA URLFields ==
  ASSUME NEW hosts, NEW ports, NEW url \in URLs(hosts, ports)
  PROVE  /\ url.form \in {"none", "bad", "url"}
         /\ url.host \in hosts \cup {NoHost} /\ url.port \in ports \cup {NoPort}
         /\ url.form # "url" => url.host = NoHost /\ url.port = NoPort
BY DEF URLs

LEMMA RewriteURLType ==
  ASSUME NEW url \in URLs(Hosts, Ports), NEW p \in Nat
  PROVE  RewriteURL(url, p) \in URLs(Hosts \cup {Local}, Nat)
<1>1. CASE url.form = "none"
  <2>1. url = [form |-> "none", host |-> NoHost, port |-> NoPort]
    BY <1>1 DEF URLs
  <2>2. QED
    BY <1>1, <2>1 DEF RewriteURL, URLs
<1>2. CASE url.form # "none"
  BY <1>2 DEF RewriteURL, URLs
<1>3. QED
  BY <1>1, <1>2

\* The credentials that forward writes are credentials still.
LEMMA RewriteType ==
  ASSUME NEW creds \in Credentials, NEW p \in Nat
  PROVE  Rewrite(creds, p) \in CredentialsFor(Hosts \cup {Local}, Nat)
<1>1. creds.uri \in URLs(Hosts, Ports) /\ creds.jdbcUrl \in URLs(Hosts, Ports)
  BY DEF Credentials, CredentialsFor
<1>2. /\ RewriteURL(creds.uri, p) \in URLs(Hosts \cup {Local}, Nat)
      /\ RewriteURL(creds.jdbcUrl, p) \in URLs(Hosts \cup {Local}, Nat)
  BY <1>1, RewriteURLType
<1>3. QED
  BY <1>2 DEF Rewrite, CredentialsFor, NoPort

\* What Address takes its halves from.
LEMMA AddressFields ==
  ASSUME NEW creds \in Credentials
  PROVE  /\ Address(creds).host = IF creds.hostname # NoHost THEN creds.hostname
                                  ELSE IF creds.uri.host # NoHost THEN creds.uri.host
                                  ELSE creds.jdbcUrl.host
         /\ Address(creds).port = IF creds.port # NoPort THEN creds.port
                                  ELSE IF creds.uri.port # NoPort THEN creds.uri.port
                                  ELSE creds.jdbcUrl.port
         /\ Address(creds) = [host |-> Address(creds).host, port |-> Address(creds).port]
BY DEF Address, EnsureHostPort

LEMMA CredentialFields ==
  ASSUME NEW creds \in Credentials
  PROVE  /\ creds.hostname \in Hosts \cup {NoHost} /\ creds.port \in Ports \cup {NoPort}
         /\ creds.uri.host \in Hosts \cup {NoHost} /\ creds.uri.port \in Ports \cup {NoPort}
         /\ creds.jdbcUrl.host \in Hosts \cup {NoHost}
         /\ creds.jdbcUrl.port \in Ports \cup {NoPort}
         /\ creds.uri.form = "none" =>
              creds.uri.host = NoHost /\ creds.uri.port = NoPort
         /\ creds.jdbcUrl.form = "none" =>
              creds.jdbcUrl.host = NoHost /\ creds.jdbcUrl.port = NoPort
<1>1. creds.uri \in URLs(Hosts, Ports) /\ creds.jdbcUrl \in URLs(Hosts, Ports)
  BY DEF Credentials, CredentialsFor
<1>2. creds.hostname \in Hosts \cup {NoHost} /\ creds.port \in Ports \cup {NoPort}
  BY DEF Credentials, CredentialsFor
<1>3. QED
  BY <1>1, <1>2, URLFields

\* A tunnel goes to a host and a port of a service.
LEMMA AddressType ==
  ASSUME NEW creds \in Credentials, Forwardable(creds)
  PROVE  Address(creds) \in [host : Hosts, port : Ports]
<1>1. Address(creds).host \in Hosts /\ Address(creds).port \in Ports
  BY AddressFields, CredentialFields DEF Forwardable
<1>2. QED
  BY <1>1, AddressFields

\* forward looks for exactly what the credentials name.
LEMMA ForwardableIfNamed ==
  ASSUME NEW creds \in Credentials
  PROVE  Forwardable(creds) <=>
           ~HasBadURL(creds) /\ HostsIn(creds) # {} /\ PortsIn(creds) # {}
<1>1. Address(creds).host # NoHost <=> HostsIn(creds) # {}
  BY AddressFields DEF HostsIn
<1>2. Address(creds).port # NoPort <=> PortsIn(creds) # {}
  BY AddressFields DEF PortsIn
<1>3. QED
  BY <1>1, <1>2 DEF Forwardable

LEMMA AddressIsNamed ==
  ASSUME NEW creds \in Credentials, Forwardable(creds)
  PROVE  NamedBy(creds, Address(creds))
<1>1. Address(creds).host \in HostsIn(creds)
  BY AddressFields DEF HostsIn, Forwardable
<1>2. Address(creds).port \in PortsIn(creds)
  BY AddressFields DEF PortsIn, Forwardable
<1>3. /\ creds.hostname # NoHost => Address(creds).host = creds.hostname
      /\ creds.port # NoPort => Address(creds).port = creds.port
  BY AddressFields
<1>4. QED
  BY <1>1, <1>2, <1>3 DEF NamedBy

\* Whatever a binding that is forwarded named, it names the local end of its tunnel now.
LEMMA RewriteIsLocal ==
  ASSUME NEW creds \in Credentials, Forwardable(creds), NEW p \in Nat \ {NoPort}
  PROVE  /\ HostsIn(Rewrite(creds, p)) = {Local} /\ PortsIn(Rewrite(creds, p)) = {p}
         /\ Rewrite(creds, p) # creds
<1> DEFINE new == Rewrite(creds, p)
<1>1. /\ new.hostname = IF creds.hostname # NoHost THEN Local ELSE NoHost
      /\ new.port = IF creds.hostname # NoHost \/ creds.port # NoPort THEN p ELSE NoPort
      /\ new.uri = RewriteURL(creds.uri, p) /\ new.jdbcUrl = RewriteURL(creds.jdbcUrl, p)
  BY DEF Rewrite
<1>2. ASSUME NEW url, url.form = "none" => url.host = NoHost /\ url.port = NoPort
      PROVE  /\ url.form = "none" => /\ RewriteURL(url, p).host = NoHost
                                     /\ RewriteURL(url, p).port = NoPort
             /\ url.form # "none" => /\ RewriteURL(url, p).host = Local
                                     /\ RewriteURL(url, p).port = p
  BY <1>2 DEF RewriteURL
<1>3. /\ new.uri.host \in {NoHost, Local} /\ new.uri.port \in {NoPort, p}
      /\ new.jdbcUrl.host \in {NoHost, Local} /\ new.jdbcUrl.port \in {NoPort, p}
      /\ creds.uri.host # NoHost \/ creds.uri.port # NoPort =>
           new.uri.host = Local /\ new.uri.port = p
      /\ creds.jdbcUrl.host # NoHost \/ creds.jdbcUrl.port # NoPort =>
           new.jdbcUrl.host = Local /\ new.jdbcUrl.port = p
  BY <1>1, <1>2, CredentialFields
<1>4. Local # NoHost /\ p # NoPort
  BY DEF Local, NoHost
<1>5. HostsIn(new) = {Local}
  <2>1. new.hostname \in {NoHost, Local}
    BY <1>1
  <2>2. creds.hostname # NoHost \/ creds.uri.host # NoHost \/ creds.jdbcUrl.host # NoHost
    BY AddressFields DEF Forwardable
  <2>3. new.hostname = Local \/ new.uri.host = Local \/ new.jdbcUrl.host = Local
    BY <1>1, <1>3, <2>2
  <2>4. QED
    BY <1>3, <1>4, <2>1, <2>3 DEF HostsIn
<1>6. PortsIn(new) = {p}
  <2>1. new.port \in {NoPort, p}
    BY <1>1
  <2>2. creds.port # NoPort \/ creds.uri.port # NoPort \/ creds.jdbcUrl.port # NoPort
    BY AddressFields DEF Forwardable
  <2>3. new.port = p \/ new.uri.port = p \/ new.jdbcUrl.port = p
    BY <1>1, <1>3, <2>2
  <2>4. QED
    BY <1>3, <1>4, <2>1, <2>3 DEF PortsIn
<1>7. new # creds
  <2>1. Local \notin HostsIn(creds)
    BY CredentialFields, AddressAssumption, <1>4 DEF HostsIn
  <2>2. QED
    BY <1>5, <2>1
<1>8. QED
  BY <1>5, <1>6, <1>7

---------------------------------------------------------------------------------
(* The invariant: one command. *)

Visited(c, t, i) == t < type[c] \/ (t = type[c] /\ i < index[c])

\* How far the command has come: types before the one it is at are done, later ones are
\* still to do.
Progress(c) ==
  /\ at[c] \notin {"loop", "done"} => type[c] = NoType
  /\ type[c] = NoType => port[c] = FirstPort
  /\ FirstPort <= port[c]
  /\ todo[c] = {t \in Types : type[c] < t}
  /\ type[c] # NoType => index[c] <= Len(services[type[c]]) + 1
  /\ at[c] = "done" =>
       /\ todo[c] = {}
       /\ type[c] # NoType => index[c] = Len(services[type[c]]) + 1
       /\ details[c] <=> forwards[c] # <<>>

\* A tunnel is that of one binding behind the command, which has been rewritten to it.
TunnelIsOwn(c, k) ==
  LET tunnel == forwards[c][k]
      t == tunnel.binding[1]
      i == tunnel.binding[2]
  IN  /\ FirstPort <= tunnel.from /\ tunnel.from < port[c]
      /\ Visited(c, t, i) /\ i <= Len(services[t])
      /\ Forwardable(services[t][i])
      /\ tunnel.to = Address(services[t][i])
      /\ svcs[c][t][i] = Rewrite(services[t][i], tunnel.from)
      /\ \A l \in 1..Len(forwards[c]) \ {k} :
           forwards[c][l].from # tunnel.from /\ forwards[c][l].binding # tunnel.binding

\* A binding behind the command that can be forwarded has a tunnel; any other is untouched.
BindingIsDone(c, t, i) ==
  IF Visited(c, t, i) /\ Forwardable(services[t][i])
  THEN \E k \in 1..Len(forwards[c]) : forwards[c][k].binding = <<t, i>>
  ELSE svcs[c][t][i] = services[t][i]

CommandInv(c) ==
  /\ Progress(c)
  /\ \A k \in 1..Len(forwards[c]) : TunnelIsOwn(c, k)
  /\ \A t \in Types : \A i \in 1..Len(services[t]) : BindingIsDone(c, t, i)

IInv == TypeOK /\ \A c \in Commands : CommandInv(c)

---------------------------------------------------------------------------------
(* The invariant: two commands. *)

\* Every command has given the bindings of a type the ports from base[t] on, one after
\* another, and base follows from the order of the types.
KeepsTo(c, base) ==
  /\ type[c] # NoType => port[c] + 1 = base[type[c]] + index[c]
  /\ \A k \in 1..Len(forwards[c]) :
       forwards[c][k].from + 1 = base[forwards[c][k].binding[1]] + forwards[c][k].binding[2]
  /\ \A t \in Types : t <= type[c] =>
       /\ (\A u \in Types : t <= u) => base[t] = FirstPort
       /\ \A u \in Types : u < t /\ (\A v \in Types : v <= u \/ t <= v) =>
            base[t] = base[u] + Len(services[u])

PortInv == \E base \in [Types -> Nat] : \A c \in Commands : KeepsTo(c, base)

---------------------------------------------------------------------------------
(* It is inductive. *)

\* A step of one command does nothing to another.
LEMMA OthersUnmoved ==
  ASSUME NEW c \in Commands, services' = services,
         at'[c] = at[c], svcs'[c] = svcs[c], todo'[c] = todo[c], type'[c] = type[c],
         index'[c] = index[c], port'[c] = port[c], forwards'[c] = forwards[c],
         details'[c] = details[c]
  PROVE  CommandInv(c) => CommandInv(c)'
<1>1. Progress(c) => Progress(c)'
  BY DEF Progress
<1>2. \A k : TunnelIsOwn(c, k) => TunnelIsOwn(c, k)'
  BY DEF TunnelIsOwn, Visited
<1>3. \A t, i : BindingIsDone(c, t, i) => BindingIsDone(c, t, i)'
  BY DEF BindingIsDone, Visited
<1>4. QED
  BY <1>1, <1>2, <1>3 DEF CommandInv

\* What is rewritten may name the local end, and any port.
LEMMA CredentialsGrow == Credentials \subseteq CredentialsFor(Hosts \cup {Local}, Nat)
<1>1. URLs(Hosts, Ports) \subseteq URLs(Hosts \cup {Local}, Nat)
  BY AddressAssumption DEF URLs, NoPort
<1>2. QED
  BY <1>1, AddressAssumption DEF Credentials, CredentialsFor, NoPort

LEMMA ServicesGrow ==
  ASSUME services \in Bindings
  PROVE  services \in [Types -> Seq(CredentialsFor(Hosts \cup {Local}, Nat))]
<1>1. services \in [Types -> Seq(Credentials)]
  BY BindingsAssumption
<1>2. Seq(Credentials) \subseteq Seq(CredentialsFor(Hosts \cup {Local}, Nat))
  BY CredentialsGrow, SeqMonotonic
<1>3. QED
  BY <1>1, <1>2

LEMMA InitIInv == Init => IInv
<1> SUFFICES ASSUME Init PROVE IInv
  OBVIOUS
<1>1. services \in [Types -> Seq(CredentialsFor(Hosts \cup {Local}, Nat))]
  BY ServicesGrow DEF Init
<1>2. TypeOK
  <2>1. FirstPort \in Nat /\ NoType \in Types \cup {NoType}
    BY AddressAssumption
  <2>2. forwards \in [Commands -> Seq(Tunnels)]
    BY EmptySeq DEF Init
  <2>3. svcs \in [Commands -> [Types -> Seq(CredentialsFor(Hosts \cup {Local}, Nat))]]
    BY <1>1 DEF Init
  <2>4. \A c \in Commands : svcs[c] = services
    BY DEF Init
  <2>5. /\ type \in [Commands -> Types \cup {NoType}]
        /\ index \in [Commands -> Nat \ {0}]
        /\ port \in [Commands -> Nat]
    BY <2>1 DEF Init
  <2>6. /\ at \in [Commands -> {"start", "endpoint", "loop", "done", "failed"}]
        /\ todo \in [Commands -> SUBSET Types]
        /\ details \in [Commands -> BOOLEAN]
        /\ services \in Bindings
    BY DEF Init
  <2>7. QED
    BY <2>2, <2>3, <2>4, <2>5, <2>6 DEF TypeOK
<1>3. ASSUME NEW c \in Commands
      PROVE  CommandInv(c)
  <2>1. /\ at[c] = "start" /\ svcs[c] = services /\ todo[c] = Types /\ type[c] = NoType
        /\ port[c] = FirstPort /\ forwards[c] = <<>> /\ FirstPort \in Nat
    BY AddressAssumption DEF Init
  <2>2. \A t \in Types : NoType < t
    BY TypesAssumption DEF NoType
  <2>3. Progress(c)
    BY <2>1, <2>2 DEF Progress
  <2>4. \A t \in Types : \A i \in 1..Len(services[t]) : BindingIsDone(c, t, i)
    <3>1. \A t \in Types, i \in Nat : ~Visited(c, t, i)
      BY <2>1, TypesAssumption DEF Visited, NoType
    <3>2. QED
      BY <2>1, <3>1 DEF BindingIsDone
  <2>5. Len(forwards[c]) = 0
    BY <2>1, EmptySeq
  <2>6. QED
    BY <2>3, <2>4, <2>5 DEF CommandInv
<1>4. QED
  BY <1>2, <1>3 DEF IInv

\* The requests before the loop.
LEMMA RequestKeepsIInv ==
  ASSUME IInv, NEW c \in Commands, ReadServices(c) \/ FindEndpoint(c) \/ RequestFails(c)
  PROVE  IInv'
<1>1. PICK place \in {"endpoint", "loop", "failed"} : at' = [at EXCEPT ![c] = place]
  BY DEF ReadServices, FindEndpoint, RequestFails
<1>2. /\ at[c] \in {"start", "endpoint"}
      /\ UNCHANGED <<services, svcs, todo, type, index, port, forwards, details>>
  BY DEF ReadServices, FindEndpoint, RequestFails
<1>3. TypeOK /\ \A d \in Commands : CommandInv(d)
  BY DEF IInv
<1>4. TypeOK'
  BY <1>1, <1>2, <1>3 DEF TypeOK
<1>5. at'[c] = place /\ \A d \in Commands \ {c} : at'[d] = at[d]
  BY <1>1, <1>3 DEF TypeOK
<1>6. \A d \in Commands \ {c} : CommandInv(d)'
  BY <1>2, <1>3, <1>5, OthersUnmoved
<1>7. CommandInv(c)'
  <2>1. Progress(c)'
    BY <1>2, <1>3, <1>5 DEF CommandInv, Progress
  <2>2. \A k : TunnelIsOwn(c, k) => TunnelIsOwn(c, k)'
    BY <1>2 DEF TunnelIsOwn, Visited
  <2>3. \A t, i : BindingIsDone(c, t, i) => BindingIsDone(c, t, i)'
    BY <1>2 DEF BindingIsDone, Visited
  <2>4. QED
    BY <1>2, <1>3, <2>1, <2>2, <2>3 DEF CommandInv
<1>8. QED
  BY <1>4, <1>6, <1>7 DEF IInv

\* The bindings that Cloud Foundry has.
LEMMA ServicesAreLists ==
  ASSUME TypeOK
  PROVE  /\ services \in [Types -> Seq(Credentials)]
         /\ \A t \in Types : /\ Len(services[t]) \in Nat
                             /\ \A i \in 1..Len(services[t]) : services[t][i] \in Credentials
<1>1. services \in [Types -> Seq(Credentials)]
  BY BindingsAssumption DEF TypeOK
<1>2. QED
  BY <1>1, LenProperties, ElementOfSeq

\* Behind the last binding of a type.
LEMMA AtEnd ==
  ASSUME IInv, NEW c \in Commands, at[c] = "loop", ~AtBinding(c), type[c] # NoType
  PROVE  /\ type[c] \in Types /\ Len(services[type[c]]) \in Nat
         /\ index[c] = Len(services[type[c]]) + 1
<1>1. TypeOK /\ Progress(c)
  BY DEF IInv, CommandInv
<1>2. type[c] \in Types /\ index[c] \in Nat
  BY <1>1 DEF TypeOK
<1>3. Len(svcs[c][type[c]]) = Len(services[type[c]]) /\ Len(services[type[c]]) \in Nat
  BY <1>1, <1>2, ServicesAreLists DEF TypeOK
<1>4. index[c] > Len(services[type[c]])
  BY <1>2, <1>3 DEF AtBinding
<1>5. index[c] <= Len(services[type[c]]) + 1
  BY <1>1 DEF Progress
<1>6. QED
  BY <1>2, <1>3, <1>4, <1>5

\* A type is a number, and so is the mark for none.
LEMMA TypeIsNumber ==
  ASSUME TypeOK, NEW c \in Commands
  PROVE  type[c] \in Nat
<1>1. type[c] = 0 \/ type[c] \in Types
  BY DEF TypeOK, NoType
<1>2. type[c] = 0 => type[c] \in Nat
  OBVIOUS
<1>3. type[c] \in Types => type[c] \in Nat
  BY TypesAssumption
<1>4. QED
  BY <1>1, <1>2, <1>3

\* At a binding, which is still as Cloud Foundry has it.
LEMMA AtPlace ==
  ASSUME IInv, NEW c \in Commands, AtBinding(c)
  PROVE  /\ type[c] \in Types /\ type[c] # NoType
         /\ index[c] \in Nat /\ index[c] \in 1..Len(services[type[c]])
         /\ Current(c) = services[type[c]][index[c]] /\ Current(c) \in Credentials
         /\ ~Visited(c, type[c], index[c])
<1>1. TypeOK /\ CommandInv(c)
  BY DEF IInv
<1>2. type[c] \in Types /\ type[c] # NoType /\ index[c] \in Nat \ {0}
  BY <1>1 DEF AtBinding, TypeOK
<1>3. Len(svcs[c][type[c]]) = Len(services[type[c]]) /\ Len(services[type[c]]) \in Nat
  BY <1>1, <1>2, ServicesAreLists DEF TypeOK
<1>4. index[c] \in 1..Len(services[type[c]])
  BY <1>2, <1>3 DEF AtBinding
<1>5. ~Visited(c, type[c], index[c])
  <2>1. type[c] \in Nat
    BY <1>2, TypesAssumption
  <2>2. ~(type[c] < type[c]) /\ ~(index[c] < index[c])
    BY <1>2, <2>1
  <2>3. QED
    BY <2>2 DEF Visited
<1>6. BindingIsDone(c, type[c], index[c])
  BY <1>1, <1>2, <1>4 DEF CommandInv
<1>7. QED
  BY <1>1, <1>2, <1>4, <1>5, <1>6, ServicesAreLists DEF BindingIsDone, Current

\* What a tunnel is made of.
LEMMA TunnelFields ==
  ASSUME TypeOK, NEW c \in Commands, NEW k \in 1..Len(forwards[c])
  PROVE  /\ forwards[c][k].binding = <<forwards[c][k].binding[1], forwards[c][k].binding[2]>>
         /\ forwards[c][k].binding[1] \in Types /\ forwards[c][k].binding[2] \in Nat \ {0}
         /\ forwards[c][k].from \in Nat
<1>1. forwards[c] \in Seq(Tunnels)
  BY DEF TypeOK
<1>2. forwards[c][k] \in Tunnels
  BY <1>1, ElementOfSeq
<1>3. QED
  BY <1>2 DEF Tunnels

LEMMA FinishKeepsIInv ==
  ASSUME IInv, NEW c \in Commands, Finish(c)
  PROVE  IInv'
<1>1. /\ at[c] = "loop" /\ ~AtBinding(c) /\ todo[c] = {}
      /\ at' = [at EXCEPT ![c] = "done"]
      /\ details' = [details EXCEPT ![c] = forwards[c] # <<>>]
      /\ UNCHANGED <<services, svcs, todo, type, index, port, forwards>>
  BY DEF Finish
<1>2. TypeOK /\ \A d \in Commands : CommandInv(d)
  BY DEF IInv
<1>3. TypeOK'
  <2>1. (forwards[c] # <<>>) \in BOOLEAN
    OBVIOUS
  <2>2. details' \in [Commands -> BOOLEAN]
    BY <1>1, <1>2, <2>1 DEF TypeOK
  <2>3. QED
    BY <1>1, <1>2, <2>2 DEF TypeOK
<1>4. /\ at'[c] = "done" /\ (details'[c] <=> forwards[c] # <<>>)
      /\ \A d \in Commands \ {c} : at'[d] = at[d] /\ details'[d] = details[d]
  BY <1>1, <1>2 DEF TypeOK
<1>5. \A d \in Commands \ {c} : CommandInv(d)'
  BY <1>1, <1>2, <1>4, OthersUnmoved
<1>6. type[c] # NoType => index[c] = Len(services[type[c]]) + 1
  BY <1>1, AtEnd
<1>7. CommandInv(c)'
  <2>1. Progress(c)'
    BY <1>1, <1>2, <1>4, <1>6 DEF CommandInv, Progress
  <2>2. \A k : TunnelIsOwn(c, k) => TunnelIsOwn(c, k)'
    BY <1>1 DEF TunnelIsOwn, Visited
  <2>3. \A t, i : BindingIsDone(c, t, i) => BindingIsDone(c, t, i)'
    BY <1>1 DEF BindingIsDone, Visited
  <2>4. QED
    BY <1>1, <1>2, <2>1, <2>2, <2>3 DEF CommandInv
<1>8. QED
  BY <1>3, <1>5, <1>7 DEF IInv

LEMMA StartTypeKeepsIInv ==
  ASSUME IInv, NEW c \in Commands, StartType(c)
  PROVE  IInv'
<1>1. PICK t \in todo[c] :
        /\ \A u \in todo[c] : t <= u
        /\ type' = [type EXCEPT ![c] = t]
        /\ todo' = [todo EXCEPT ![c] = @ \ {t}]
  BY DEF StartType
<1>2. /\ at[c] = "loop" /\ ~AtBinding(c)
      /\ index' = [index EXCEPT ![c] = 1]
      /\ UNCHANGED <<services, at, svcs, port, forwards, details>>
  BY DEF StartType
<1>3. TypeOK /\ \A d \in Commands : CommandInv(d)
  BY DEF IInv
<1>4. t \in Types /\ t \in Nat /\ t # NoType /\ type[c] < t /\ type[c] \in Nat
  <2>1. Progress(c) /\ type[c] \in Types \cup {NoType}
    BY <1>3 DEF CommandInv, TypeOK
  <2>2. t \in Types /\ type[c] < t
    BY <1>1, <2>1 DEF Progress
  <2>3. t \in Nat /\ t # NoType
    BY <2>2, TypesAssumption
  <2>4. type[c] \in Nat
    BY <1>3, TypeIsNumber
  <2>5. QED
    BY <2>2, <2>3, <2>4
<1>5. TypeOK'
  <2>1. todo' \in [Commands -> SUBSET Types]
    BY <1>1, <1>3 DEF TypeOK
  <2>2. type' \in [Commands -> Types \cup {NoType}] /\ index' \in [Commands -> Nat \ {0}]
    BY <1>1, <1>2, <1>3, <1>4 DEF TypeOK
  <2>3. QED
    BY <1>2, <1>3, <2>1, <2>2 DEF TypeOK
<1>6. /\ type'[c] = t /\ todo'[c] = todo[c] \ {t} /\ index'[c] = 1
      /\ \A d \in Commands \ {c} :
           type'[d] = type[d] /\ todo'[d] = todo[d] /\ index'[d] = index[d]
  BY <1>1, <1>2, <1>3 DEF TypeOK
<1>7. \A d \in Commands \ {c} : CommandInv(d)'
  BY <1>2, <1>3, <1>6, OthersUnmoved
<1>8. \A u \in Types : \A i \in 1..Len(services[u]) : Visited(c, u, i)' <=> Visited(c, u, i)
  <2> SUFFICES ASSUME NEW u \in Types, NEW i \in 1..Len(services[u])
               PROVE  Visited(c, u, i)' <=> Visited(c, u, i)
    OBVIOUS
  <2>1. u \in Nat /\ u # NoType /\ i \in Nat /\ 1 <= i /\ index[c] \in Nat
    BY <1>3, TypesAssumption, ServicesAreLists DEF TypeOK
  <2>2. u < t => u <= type[c]
    <3>1. u \in todo[c] => t <= u
      BY <1>1
    <3>2. u \notin todo[c] => u <= type[c]
      BY <1>3, <1>4, <2>1 DEF CommandInv, Progress
    <3>3. QED
      BY <1>4, <2>1, <3>1, <3>2
  <2>3. u = type[c] => i < index[c]
    BY <1>2, <1>3, <2>1, AtEnd
  <2>4. Visited(c, u, i)' <=> u < t
    BY <1>6, <2>1 DEF Visited
  <2>5. QED
    BY <1>4, <2>1, <2>2, <2>3, <2>4 DEF Visited
<1>9. Progress(c)'
  <2>1. todo'[c] = {u \in Types : t < u}
    <3>1. todo[c] = {u \in Types : type[c] < u}
      BY <1>3 DEF CommandInv, Progress
    <3>2. ASSUME NEW u \in Types
          PROVE  u \in todo'[c] <=> t < u
      <4>1. u \in Nat
        BY TypesAssumption
      <4>2. u \in todo[c] /\ u # t => t < u
        BY <1>1, <1>4, <4>1
      <4>3. t < u => u \in todo[c] /\ u # t
        BY <1>4, <3>1, <4>1
      <4>4. QED
        BY <1>6, <4>2, <4>3, <1>4
    <3>3. todo'[c] \subseteq Types
      BY <1>6, <3>1
    <3>4. QED
      BY <3>2, <3>3
  <2>2. Len(services[t]) \in Nat
    BY <1>3, <1>4, ServicesAreLists
  <2>3. QED
    BY <1>2, <1>3, <1>4, <1>6, <2>1, <2>2 DEF CommandInv, Progress
<1>10. \A k \in 1..Len(forwards'[c]) : TunnelIsOwn(c, k)'
  <2> SUFFICES ASSUME NEW k \in 1..Len(forwards[c]) PROVE TunnelIsOwn(c, k)'
    BY <1>2
  <2>1. TunnelIsOwn(c, k)
    BY <1>3 DEF CommandInv
  <2>u. PICK u, i : u = forwards[c][k].binding[1] /\ i = forwards[c][k].binding[2]
    OBVIOUS
  <2>2. u \in Types /\ i \in Nat \ {0}
    BY <1>3, <2>u, TunnelFields
  <2>3. i <= Len(services[u]) /\ Visited(c, u, i)
    BY <2>1, <2>u DEF TunnelIsOwn
  <2>4. Len(services[u]) \in Nat
    BY <1>3, <2>2, ServicesAreLists
  <2>5. i \in 1..Len(services[u])
    BY <2>2, <2>3, <2>4
  <2>6. Visited(c, u, i)'
    BY <1>8, <2>2, <2>3, <2>5
  <2>7. Visited(c, forwards[c][k].binding[1], forwards[c][k].binding[2])'
    BY <1>2, <2>6, <2>u DEF Visited
  <2>8. QED
    BY <1>2, <2>1, <2>7 DEF TunnelIsOwn
<1>11. \A u \in Types : \A i \in 1..Len(services[u]) : BindingIsDone(c, u, i)'
  BY <1>2, <1>3, <1>8 DEF CommandInv, BindingIsDone
<1>12. QED
  BY <1>2, <1>5, <1>7, <1>9, <1>10, <1>11 DEF IInv, CommandInv

LEMMA RefuseKeepsIInv ==
  ASSUME IInv, NEW c \in Commands, RefuseBinding(c)
  PROVE  IInv'
<1> DEFINE t == type[c]
           i == index[c]
<1>1. /\ AtBinding(c) /\ ~Forwardable(Current(c))
      /\ index' = [index EXCEPT ![c] = @ + 1] /\ port' = [port EXCEPT ![c] = @ + 1]
      /\ UNCHANGED <<services, at, svcs, todo, type, forwards, details>>
  BY DEF RefuseBinding
<1>2. TypeOK /\ \A d \in Commands : CommandInv(d)
  BY DEF IInv
<1>3. /\ t \in Types /\ t \in Nat /\ t # NoType
      /\ i \in Nat /\ i \in 1..Len(services[t])
      /\ Current(c) = services[t][i]
      /\ port[c] \in Nat /\ FirstPort \in Nat /\ Len(services[t]) \in Nat
  BY <1>1, <1>2, AtPlace, ServicesAreLists, TypesAssumption, AddressAssumption DEF TypeOK
<1>4. TypeOK'
  <2>1. index' \in [Commands -> Nat \ {0}] /\ port' \in [Commands -> Nat]
    BY <1>1, <1>2 DEF TypeOK
  <2>2. QED
    BY <1>1, <1>2, <2>1 DEF TypeOK
<1>5. /\ index'[c] = i + 1 /\ port'[c] = port[c] + 1
      /\ \A d \in Commands \ {c} : index'[d] = index[d] /\ port'[d] = port[d]
  BY <1>1, <1>2 DEF TypeOK
<1>6. \A d \in Commands \ {c} : CommandInv(d)'
  BY <1>1, <1>2, <1>5, OthersUnmoved
<1>7. \A u \in Types, j \in Nat :
        Visited(c, u, j)' <=> Visited(c, u, j) \/ (u = t /\ j = i)
  BY <1>1, <1>3, <1>5 DEF Visited
<1>8. Progress(c)'
  BY <1>1, <1>2, <1>3, <1>5 DEF CommandInv, Progress, AtBinding
<1>9. \A k \in 1..Len(forwards'[c]) : TunnelIsOwn(c, k)'
  <2> SUFFICES ASSUME NEW k \in 1..Len(forwards[c]) PROVE TunnelIsOwn(c, k)'
    BY <1>1
  <2>1. TunnelIsOwn(c, k)
    BY <1>2 DEF CommandInv
  <2>2. /\ forwards[c][k].binding[1] \in Types /\ forwards[c][k].binding[2] \in Nat \ {0}
        /\ forwards[c][k].from \in Nat
    BY <1>2, TunnelFields
  <2>3. Visited(c, forwards[c][k].binding[1], forwards[c][k].binding[2])'
    BY <1>1, <1>7, <2>1, <2>2 DEF TunnelIsOwn, Visited
  <2>4. forwards[c][k].from < port'[c]
    <3>1. forwards[c][k].from < port[c]
      BY <2>1 DEF TunnelIsOwn
    <3>2. QED
      BY <1>3, <1>5, <2>2, <3>1
  <2>5. QED
    BY <1>1, <2>1, <2>3, <2>4 DEF TunnelIsOwn
<1>10. \A u \in Types : \A j \in 1..Len(services[u]) : BindingIsDone(c, u, j)'
  <2> SUFFICES ASSUME NEW u \in Types, NEW j \in 1..Len(services[u])
               PROVE  BindingIsDone(c, u, j)'
    OBVIOUS
  <2>1. BindingIsDone(c, u, j) /\ j \in Nat
    BY <1>2, ServicesAreLists DEF CommandInv
  <2>2. CASE u = t /\ j = i
    <3>1. ~Forwardable(services[u][j])
      BY <1>1, <1>3, <2>2
    <3>2. QED
      BY <1>1, <2>1, <3>1 DEF BindingIsDone
  <2>3. CASE ~(u = t /\ j = i)
    BY <1>1, <1>7, <2>1, <2>3 DEF BindingIsDone
  <2>4. QED
    BY <2>2, <2>3
<1>11. QED
  BY <1>1, <1>4, <1>6, <1>8, <1>9, <1>10 DEF IInv, CommandInv

\* The tunnel that a binding gets comes after the others.
LEMMA NewTunnel ==
  ASSUME IInv, NEW c \in Commands, ForwardBinding(c)
  PROVE  LET tunnel == [binding |-> <<type[c], index[c]>>, from |-> port[c],
                        to |-> Address(services[type[c]][index[c]])]
             n == Len(forwards[c])
         IN  /\ n \in Nat /\ Len(forwards'[c]) = n + 1
             /\ forwards'[c] \in Seq(Tunnels) /\ forwards'[c][n + 1] = tunnel
             /\ \A k \in 1..n : forwards'[c][k] = forwards[c][k]
             /\ forwards' \in [Commands -> Seq(Tunnels)]
             /\ \A d \in Commands \ {c} : forwards'[d] = forwards[d]
<1> DEFINE tunnel == [binding |-> <<type[c], index[c]>>, from |-> port[c],
                      to |-> Address(services[type[c]][index[c]])]
           n == Len(forwards[c])
<1>1. TypeOK /\ AtBinding(c) /\ Forwardable(Current(c))
  BY DEF IInv, ForwardBinding
<1>2. /\ type[c] \in Types /\ index[c] \in Nat \ {0} /\ port[c] \in Nat
      /\ Current(c) = services[type[c]][index[c]] /\ Current(c) \in Credentials
  BY <1>1, AtPlace DEF TypeOK
<1>3. tunnel \in Tunnels
  BY <1>1, <1>2, AddressType DEF Tunnels
<1>4. forwards' = [forwards EXCEPT ![c] = Append(@, tunnel)]
  BY <1>2 DEF ForwardBinding
<1> HIDE DEF tunnel
<1>5. forwards \in [Commands -> Seq(Tunnels)]
  BY <1>1 DEF TypeOK
<1>6. /\ forwards'[c] = Append(forwards[c], tunnel) /\ forwards[c] \in Seq(Tunnels)
      /\ \A d \in Commands \ {c} : forwards'[d] = forwards[d]
  BY <1>4, <1>5
<1>7. /\ n \in Nat /\ Len(forwards'[c]) = n + 1
      /\ forwards'[c][n + 1] = tunnel /\ forwards'[c] \in Seq(Tunnels)
      /\ \A k \in 1..n : forwards'[c][k] = forwards[c][k]
  BY <1>3, <1>6, AppendProperties, LenProperties
<1>8. QED
  BY <1>4, <1>5, <1>6, <1>7 DEF tunnel

LEMMA ForwardKeepsIInv ==
  ASSUME IInv, NEW c \in Commands, ForwardBinding(c)
  PROVE  IInv'
<1>1. PICK t, i, p, old :
        t = type[c] /\ i = index[c] /\ p = port[c] /\ old = services[t][i]
  OBVIOUS
<1>2. TypeOK /\ \A d \in Commands : CommandInv(d)
  BY DEF IInv
<1>3. AtBinding(c) /\ at[c] = "loop" /\ Forwardable(Current(c))
  BY DEF ForwardBinding, AtBinding
<1>4. /\ t \in Types /\ t # NoType
      /\ i \in Nat /\ i \in 1..Len(services[t]) /\ ~Visited(c, t, i)
      /\ Current(c) = old /\ old \in Credentials /\ Forwardable(old)
  BY <1>1, <1>3, AtPlace
<1>5. p \in Nat /\ FirstPort \in Nat /\ FirstPort <= p /\ t \in Nat /\ Len(services[t]) \in Nat
  BY <1>1, <1>2, <1>4, AddressAssumption, TypeIsNumber, ServicesAreLists
     DEF TypeOK, CommandInv, Progress
<1> DEFINE tunnel == [binding |-> <<t, i>>, from |-> p, to |-> Address(old)]
           Cs == CredentialsFor(Hosts \cup {Local}, Nat)
<1>6. /\ svcs' = [svcs EXCEPT ![c][t][i] = Rewrite(old, p)]
      /\ index' = [index EXCEPT ![c] = i + 1] /\ port' = [port EXCEPT ![c] = p + 1]
      /\ UNCHANGED <<services, at, todo, type, details>>
  <2>1. svcs[c][t][i] = old
    BY <1>1, <1>4 DEF Current
  <2>2. QED
    BY <1>1, <1>4, <2>1 DEF ForwardBinding
<1>7. /\ svcs[c] \in [Types -> Seq(Cs)] /\ svcs[c][t] \in Seq(Cs)
      /\ Len(svcs[c][t]) = Len(services[t])
  BY <1>2, <1>4 DEF TypeOK
<1>8. Rewrite(old, p) \in Cs
  BY <1>4, <1>5, RewriteType
<1> HIDE DEF Cs
<1> DEFINE list == [svcs[c][t] EXCEPT ![i] = Rewrite(old, p)]
<1>9. /\ list \in Seq(Cs) /\ Len(list) = Len(services[t]) /\ list[i] = Rewrite(old, p)
       /\ \A j \in 1..Len(services[t]) \ {i} : list[j] = svcs[c][t][j]
  BY <1>4, <1>7, <1>8, ExceptSeq
<1>10. /\ svcs'[c][t] = list
       /\ svcs'[c] \in [Types -> Seq(Cs)]
       /\ \A u \in Types \ {t} : svcs'[c][u] = svcs[c][u]
       /\ \A d \in Commands \ {c} : svcs'[d] = svcs[d]
  <2>1. svcs' = [svcs EXCEPT ![c] = [svcs[c] EXCEPT ![t] = list]]
    BY <1>6
  <2> HIDE DEF list
  <2>2. /\ svcs'[c] = [svcs[c] EXCEPT ![t] = list]
        /\ \A d \in Commands \ {c} : svcs'[d] = svcs[d]
    BY <1>2, <2>1 DEF TypeOK
  <2>3. QED
    BY <1>4, <1>7, <1>9, <2>2
<1> HIDE DEF list
<1> DEFINE n == Len(forwards[c])
<1>11. /\ n \in Nat /\ Len(forwards'[c]) = n + 1 /\ forwards'[c][n + 1] = tunnel
       /\ \A k \in 1..n : forwards'[c][k] = forwards[c][k]
       /\ \A d \in Commands \ {c} : forwards'[d] = forwards[d]
       /\ forwards' \in [Commands -> Seq(Tunnels)]
  BY <1>1, NewTunnel
<1> HIDE DEF tunnel
<1>12. /\ index'[c] = i + 1 /\ port'[c] = p + 1
       /\ \A d \in Commands \ {c} : index'[d] = index[d] /\ port'[d] = port[d]
  BY <1>2, <1>6 DEF TypeOK
<1>13. TypeOK'
  <2>1. index' \in [Commands -> Nat \ {0}] /\ port' \in [Commands -> Nat]
    BY <1>2, <1>4, <1>5, <1>6 DEF TypeOK
  <2>3. svcs' \in [Commands -> [Types -> Seq(Cs)]]
    <3>1. DOMAIN svcs' = Commands /\ svcs' = [d \in Commands |-> svcs'[d]]
      BY <1>2, <1>6 DEF TypeOK
    <3>2. \A d \in Commands : svcs[d] \in [Types -> Seq(Cs)]
      BY <1>2 DEF TypeOK, Cs
    <3>3. QED
      BY <1>10, <3>1, <3>2
  <2>4. ASSUME NEW d \in Commands, NEW u \in Types
        PROVE  Len(svcs'[d][u]) = Len(services[u])
    <3>1. Len(svcs[d][u]) = Len(services[u])
      BY <1>2 DEF TypeOK
    <3>2. CASE d = c /\ u = t
      BY <1>9, <1>10, <3>2
    <3>3. CASE ~(d = c /\ u = t)
      <4>1. svcs'[d][u] = svcs[d][u]
        BY <1>10, <3>3
      <4>2. QED
        BY <3>1, <4>1
    <3>4. QED
      BY <3>2, <3>3
  <2>5. QED
    BY <1>2, <1>6, <1>11, <2>1, <2>3, <2>4 DEF TypeOK, Cs
<1>14. \A d \in Commands \ {c} : CommandInv(d)'
  BY <1>2, <1>6, <1>10, <1>11, <1>12, OthersUnmoved
<1>15. \A u, j \in Nat : Visited(c, u, j)' <=> Visited(c, u, j) \/ (u = t /\ j = i)
  BY <1>1, <1>4, <1>5, <1>6, <1>12 DEF Visited
<1>16. \A u \in Types : \A j \in 1..Len(services[u]) :
         ~(u = t /\ j = i) => svcs'[c][u][j] = svcs[c][u][j]
  BY <1>4, <1>9, <1>10
<1>17. Progress(c)'
  BY <1>1, <1>2, <1>3, <1>4, <1>5, <1>6, <1>12 DEF CommandInv, Progress
<1>18. ASSUME NEW k \in 1..(n + 1)
       PROVE  TunnelIsOwn(c, k)'
  <2>1. CASE k \in 1..n
    <3>1. PICK u, j : u = forwards[c][k].binding[1] /\ j = forwards[c][k].binding[2]
      OBVIOUS
    <3>2. /\ u \in Types /\ u \in Nat /\ j \in Nat \ {0} /\ forwards[c][k].from \in Nat
          /\ forwards[c][k].binding = <<u, j>>
      <4>1. /\ u \in Types /\ j \in Nat \ {0} /\ forwards[c][k].from \in Nat
            /\ forwards[c][k].binding = <<u, j>>
        BY <1>2, <2>1, <3>1, TunnelFields
      <4>2. u \in Nat
        BY <4>1, TypesAssumption
      <4>3. QED
        BY <4>1, <4>2
    <3>3. TunnelIsOwn(c, k)
      BY <1>2, <2>1 DEF CommandInv
    <3>4. forwards[c][k].from < p /\ Visited(c, u, j) /\ j <= Len(services[u])
      BY <1>1, <3>1, <3>3 DEF TunnelIsOwn
    <3>5. ~(u = t /\ j = i)
      BY <1>4, <3>4
    <3>6. svcs'[c][u][j] = svcs[c][u][j]
      BY <1>2, <1>16, <3>2, <3>4, <3>5, ServicesAreLists
    <3>7. ASSUME NEW l \in 1..(n + 1) \ {k}
          PROVE  /\ forwards'[c][l].from # forwards[c][k].from
                 /\ forwards'[c][l].binding # forwards[c][k].binding
      <4>1. CASE l \in 1..n
        BY <1>11, <3>3, <4>1 DEF TunnelIsOwn
      <4>2. CASE l = n + 1
        BY <1>11, <3>2, <3>4, <3>5, <4>2, <1>5 DEF tunnel
      <4>3. QED
        BY <1>11, <4>1, <4>2
    <3>8. Visited(c, u, j)'
      BY <1>15, <3>2, <3>4
    <3>9. forwards[c][k].from < p + 1
      BY <1>5, <3>2, <3>4
    <3>10. forwards'[c][k] = forwards[c][k]
      BY <1>11, <2>1
    <3>11. QED
      BY <1>6, <1>11, <1>12, <3>1, <3>3, <3>6, <3>7, <3>8, <3>9, <3>10 DEF TunnelIsOwn
  <2>2. CASE k = n + 1
    <3>1. forwards'[c][k] = tunnel
      BY <1>11, <2>2
    <3>2. Visited(c, t, i)' /\ i <= Len(services[t])
      BY <1>4, <1>5, <1>15
    <3>3. svcs'[c][t][i] = Rewrite(old, p)
      BY <1>9, <1>10
    <3>4. ASSUME NEW l \in 1..n
          PROVE  forwards'[c][l].from # p /\ forwards'[c][l].binding # <<t, i>>
      <4>1. TunnelIsOwn(c, l)
        BY <1>2 DEF CommandInv
      <4>2. forwards[c][l].from < p /\ forwards[c][l].from \in Nat
        BY <1>1, <1>2, <4>1, TunnelFields DEF TunnelIsOwn
      <4>3. Visited(c, forwards[c][l].binding[1], forwards[c][l].binding[2])
        BY <4>1 DEF TunnelIsOwn
      <4>4. forwards[c][l].binding = <<t, i>> => Visited(c, t, i)
        BY <4>3
      <4>5. forwards'[c][l] = forwards[c][l]
        BY <1>11
      <4>6. forwards[c][l].from # p
        BY <1>5, <4>2
      <4>7. QED
        BY <1>4, <4>4, <4>5, <4>6
    <3>5. \A l \in 1..Len(forwards'[c]) \ {k} : l \in 1..n
      BY <1>11, <2>2
    <3>6. FirstPort <= p /\ p < p + 1
      BY <1>5
    <3>7. /\ forwards'[c][k].from = p /\ forwards'[c][k].to = Address(old)
          /\ forwards'[c][k].binding = <<t, i>>
          /\ forwards'[c][k].binding[1] = t /\ forwards'[c][k].binding[2] = i
      BY <3>1 DEF tunnel
    <3>8. services' = services /\ port'[c] = p + 1 /\ Forwardable(services[t][i])
      BY <1>1, <1>4, <1>6, <1>12
    <3>9. QED
      BY <1>1, <3>2, <3>3, <3>4, <3>5, <3>6, <3>7, <3>8 DEF TunnelIsOwn
  <2>3. QED
    BY <1>11, <2>1, <2>2
<1>19. ASSUME NEW u \in Types, NEW j \in 1..Len(services[u])
       PROVE  BindingIsDone(c, u, j)'
  <2>1. BindingIsDone(c, u, j) /\ u \in Nat /\ j \in Nat
    BY <1>2, ServicesAreLists, TypesAssumption DEF CommandInv
  <2>2. CASE u = t /\ j = i
    <3>1. Visited(c, u, j)' /\ Forwardable(services'[u][j])
      BY <1>1, <1>4, <1>6, <1>15, <2>1, <2>2
    <3>2. n + 1 \in 1..Len(forwards'[c]) /\ forwards'[c][n + 1].binding = <<u, j>>
      BY <1>11, <2>2 DEF tunnel
    <3>3. QED
      BY <3>1, <3>2 DEF BindingIsDone
  <2>3. CASE ~(u = t /\ j = i)
    <3>1. Visited(c, u, j)' <=> Visited(c, u, j)
      BY <1>15, <2>1, <2>3
    <3>2. svcs'[c][u][j] = svcs[c][u][j]
      BY <1>16, <2>3
    <3>3. \A k \in 1..n : k \in 1..Len(forwards'[c]) /\ forwards'[c][k] = forwards[c][k]
      BY <1>11
    <3>4. QED
      BY <1>6, <2>1, <3>1, <3>2, <3>3 DEF BindingIsDone
  <2>4. QED
    BY <2>2, <2>3
<1>20. QED
  BY <1>6, <1>11, <1>13, <1>14, <1>17, <1>18, <1>19 DEF IInv, CommandInv

\* How far each command of remote/service.go's Forward has come accounts for all that it
\* has written: ports, tunnels and bindings.
THEOREM InvariantHolds == Spec => []IInv
<1>1. IInv /\ [Next]_vars => IInv'
  <2> SUFFICES ASSUME IInv, [Next]_vars PROVE IInv'
    OBVIOUS
  <2>1. CASE UNCHANGED vars
    <3>1. UNCHANGED <<services, at, svcs, todo, type, index, port, forwards, details>>
      BY <2>1 DEF vars, cmdVars
    <3>2. TypeOK'
      BY <3>1 DEF IInv, TypeOK
    <3>3. \A d \in Commands : CommandInv(d)'
      BY <3>1, OthersUnmoved DEF IInv
    <3>4. QED
      BY <3>2, <3>3 DEF IInv
  <2>2. CASE Next
    <3>1. PICK c \in Commands :
            \/ ReadServices(c) \/ FindEndpoint(c) \/ RequestFails(c)
            \/ StartType(c) \/ ForwardBinding(c) \/ RefuseBinding(c) \/ Finish(c)
      BY <2>2 DEF Next
    <3>2. QED
      BY <3>1, RequestKeepsIInv, StartTypeKeepsIInv, ForwardKeepsIInv, RefuseKeepsIInv,
         FinishKeepsIInv
  <2>3. QED
    BY <2>1, <2>2
<1>2. QED
  BY InitIInv, <1>1, PTL DEF Spec

\* The values that remote/service.go:35-80 and its loop work on keep their types: a port
\* is a number, a tunnel has an address, and no binding is added or lost.
THEOREM TypesHold == Spec => []TypeOK
<1>1. IInv => TypeOK
  BY DEF IInv
<1>2. QED
  BY InvariantHolds, <1>1, PTL

---------------------------------------------------------------------------------
(* What Cloud Foundry's bindings have become. *)

LEMMA SameBindings ==
  ASSUME NEW S, NEW f \in [Types -> Seq(S)], NEW g \in [Types -> Seq(S)],
         \A t \in Types : Len(f[t]) = Len(g[t]),
         \A t \in Types : \A i \in 1..Len(f[t]) : f[t][i] = g[t][i]
  PROVE  f = g
<1>1. \A t \in Types : f[t] = g[t]
  BY SeqEqual
<1>2. QED
  BY <1>1

\* A tunnel of a binding is that of TunnelIsOwn.
LEMMA OwnTunnel ==
  ASSUME IInv, NEW c \in Commands, NEW t \in Types, NEW i \in 1..Len(services[t]),
         NEW k \in 1..Len(forwards[c]), forwards[c][k].binding = <<t, i>>
  PROVE  /\ Visited(c, t, i) /\ Forwardable(services[t][i])
         /\ forwards[c][k].to = Address(services[t][i])
         /\ svcs[c][t][i] = Rewrite(services[t][i], forwards[c][k].from)
         /\ forwards[c][k].from \in Nat \ {NoPort}
         /\ TunnelsOf(c, t, i) = {k}
<1>1. TypeOK /\ TunnelIsOwn(c, k)
  BY DEF IInv, CommandInv
<1>2. forwards[c][k].binding[1] = t /\ forwards[c][k].binding[2] = i
  OBVIOUS
<1>3. /\ Visited(c, t, i) /\ Forwardable(services[t][i])
      /\ forwards[c][k].to = Address(services[t][i])
      /\ svcs[c][t][i] = Rewrite(services[t][i], forwards[c][k].from)
  BY <1>1, <1>2 DEF TunnelIsOwn
<1>4. forwards[c][k].from \in Nat \ {NoPort}
  <2>1. forwards[c][k].from \in Nat /\ FirstPort \in Nat \ {NoPort}
    BY <1>1, TunnelFields, AddressAssumption
  <2>2. FirstPort <= forwards[c][k].from
    BY <1>1 DEF TunnelIsOwn
  <2>3. QED
    BY <2>1, <2>2 DEF NoPort
<1>5. \A l \in 1..Len(forwards[c]) \ {k} : forwards[c][l].binding # <<t, i>>
  BY <1>1 DEF TunnelIsOwn
<1>6. TunnelsOf(c, t, i) = {k}
  BY <1>5 DEF TunnelsOf
<1>7. QED
  BY <1>3, <1>4, <1>6

LEMMA InvRewrites ==
  ASSUME IInv
  PROVE  RewrittenOrUntouched
<1>1. TypeOK
  BY DEF IInv
<1>2. ASSUME NEW c \in Commands, NEW t \in Types, NEW i \in 1..Len(services[t])
      PROVE  \/ svcs[c][t][i] = services[t][i] /\ TunnelsOf(c, t, i) = {}
             \/ /\ HostsIn(svcs[c][t][i]) = {Local}
                /\ \E k \in 1..Len(forwards[c]) :
                     /\ TunnelsOf(c, t, i) = {k}
                     /\ PortsIn(svcs[c][t][i]) = {forwards[c][k].from}
                     /\ \A l \in 1..Len(forwards[c]) \ {k} :
                          forwards[c][l].from # forwards[c][k].from
  <2>1. services[t][i] \in Credentials /\ BindingIsDone(c, t, i)
    BY <1>1, ServicesAreLists DEF IInv, CommandInv
  <2>2. CASE Visited(c, t, i) /\ Forwardable(services[t][i])
    <3>1. PICK k \in 1..Len(forwards[c]) : forwards[c][k].binding = <<t, i>>
      BY <2>1, <2>2 DEF BindingIsDone
    <3>2. /\ svcs[c][t][i] = Rewrite(services[t][i], forwards[c][k].from)
          /\ forwards[c][k].from \in Nat \ {NoPort} /\ TunnelsOf(c, t, i) = {k}
      BY <3>1, OwnTunnel
    <3>3. HostsIn(svcs[c][t][i]) = {Local} /\ PortsIn(svcs[c][t][i]) = {forwards[c][k].from}
      BY <2>1, <2>2, <3>2, RewriteIsLocal
    <3>4. \A l \in 1..Len(forwards[c]) \ {k} : forwards[c][l].from # forwards[c][k].from
      BY DEF IInv, CommandInv, TunnelIsOwn
    <3>5. QED
      BY <3>2, <3>3, <3>4
  <2>3. CASE ~(Visited(c, t, i) /\ Forwardable(services[t][i]))
    <3>1. TunnelsOf(c, t, i) = {}
      BY <2>3, OwnTunnel DEF TunnelsOf
    <3>2. QED
      BY <2>1, <2>3, <3>1 DEF BindingIsDone
  <2>4. QED
    BY <2>2, <2>3
<1>3. ASSUME NEW c \in Commands, at[c] = "done"
      PROVE  details[c] <=> svcs[c] # services
  <2> DEFINE Cs == CredentialsFor(Hosts \cup {Local}, Nat)
  <2>1. details[c] <=> forwards[c] # <<>>
    BY <1>3 DEF IInv, CommandInv, Progress
  <2>2. CASE forwards[c] # <<>>
    <3>1. 1 \in 1..Len(forwards[c])
      BY <1>1, <2>2, EmptySeq DEF TypeOK
    <3>2. PICK t, i : forwards[c][1].binding = <<t, i>> /\ t \in Types /\ i \in Nat \ {0}
      BY <1>1, <3>1, TunnelFields
    <3>3. i <= Len(services[t]) /\ Len(services[t]) \in Nat
      <4>1. TunnelIsOwn(c, 1)
        BY <3>1 DEF IInv, CommandInv
      <4>2. QED
        BY <1>1, <3>2, <4>1, ServicesAreLists DEF TunnelIsOwn
    <3>4. i \in 1..Len(services[t])
      BY <3>2, <3>3
    <3>5. services[t][i] \in Credentials
      BY <1>1, <3>2, <3>4, ServicesAreLists
    <3>6. svcs[c][t][i] # services[t][i]
      BY <3>1, <3>2, <3>4, <3>5, OwnTunnel, RewriteIsLocal
    <3>7. QED
      BY <2>1, <2>2, <3>6
  <2>3. CASE forwards[c] = <<>>
    <3>1. svcs[c] \in [Types -> Seq(Cs)] /\ services \in [Types -> Seq(Cs)]
      BY <1>1, ServicesGrow DEF TypeOK
    <3>2. \A t \in Types : Len(services[t]) = Len(svcs[c][t])
      BY <1>1 DEF TypeOK
    <3>3. ASSUME NEW t \in Types, NEW i \in 1..Len(services[t])
          PROVE  services[t][i] = svcs[c][t][i]
      <4>1. Len(forwards[c]) = 0
        BY <2>3, EmptySeq
      <4>2. BindingIsDone(c, t, i)
        BY DEF IInv, CommandInv
      <4>3. QED
        BY <4>1, <4>2 DEF BindingIsDone
    <3> HIDE DEF Cs
    <3>4. services = svcs[c]
      BY <3>1, <3>2, <3>3, SameBindings
    <3>5. QED
      BY <2>1, <2>3, <3>4
  <2>4. QED
    BY <2>2, <2>3
<1>4. QED
  BY <1>2, <1>3 DEF RewrittenOrUntouched

\* At every moment of Forward (remote/service.go:35-80) a binding is either as Cloud
\* Foundry has it, or names nothing but the local end of a tunnel of its own, and the
\* command is given a config for the tunnels exactly when some binding was rewritten.
THEOREM BindingsAreWhole == Spec => []RewrittenOrUntouched
BY InvariantHolds, InvRewrites, PTL

\* A command that is done has been at every binding.
LEMMA DoneIsVisited ==
  ASSUME IInv, NEW c \in Commands, at[c] = "done",
         NEW t \in Types, NEW i \in 1..Len(services[t])
  PROVE  Visited(c, t, i) /\ t <= type[c]
<1>1. TypeOK /\ Progress(c)
  BY DEF IInv, CommandInv
<1>2. t \in Nat /\ t # NoType /\ type[c] \in Nat
  BY <1>1, TypesAssumption, TypeIsNumber
<1>3. ~(type[c] < t)
  BY <1>1 DEF Progress
<1>4. t <= type[c] /\ type[c] # NoType
  BY <1>2, <1>3 DEF NoType
<1>5. index[c] = Len(services[type[c]]) + 1
  BY <1>1, <1>4 DEF Progress
<1>6. Len(services[t]) \in Nat
  BY <1>1, ServicesAreLists
<1>7. t < type[c] \/ (t = type[c] /\ i < index[c])
  BY <1>2, <1>4, <1>5, <1>6
<1>8. QED
  BY <1>4, <1>7 DEF Visited

LEMMA InvLeads ==
  ASSUME IInv
  PROVE  TunnelsLeadWhereNamed
<1> SUFFICES ASSUME NEW c \in Commands, at[c] = "done",
                    NEW t \in Types, NEW i \in 1..Len(services[t])
             PROVE  LET old == services[t][i]
                    IN  IF HasBadURL(old) \/ HostsIn(old) = {} \/ PortsIn(old) = {}
                        THEN TunnelsOf(c, t, i) = {}
                        ELSE \E k \in TunnelsOf(c, t, i) : NamedBy(old, forwards[c][k].to)
  BY DEF TunnelsLeadWhereNamed
<1>1. PICK old : old = services[t][i]
  OBVIOUS
<1>2. TypeOK /\ BindingIsDone(c, t, i) /\ old \in Credentials
  BY <1>1, ServicesAreLists DEF IInv, CommandInv
<1>3. CASE HasBadURL(old) \/ HostsIn(old) = {} \/ PortsIn(old) = {}
  <2>1. ~Forwardable(old)
    BY <1>2, <1>3, ForwardableIfNamed
  <2>2. TunnelsOf(c, t, i) = {}
    BY <1>1, <2>1, OwnTunnel DEF TunnelsOf
  <2>3. QED
    BY <1>1, <1>3, <2>2
<1>4. CASE ~(HasBadURL(old) \/ HostsIn(old) = {} \/ PortsIn(old) = {})
  <2>1. Forwardable(old) /\ Visited(c, t, i)
    BY <1>2, <1>4, ForwardableIfNamed, DoneIsVisited
  <2>2. PICK k \in 1..Len(forwards[c]) : forwards[c][k].binding = <<t, i>>
    BY <1>1, <1>2, <2>1 DEF BindingIsDone
  <2>3. forwards[c][k].to = Address(old) /\ k \in TunnelsOf(c, t, i)
    BY <1>1, <2>2, OwnTunnel
  <2>4. NamedBy(old, forwards[c][k].to)
    BY <1>2, <2>1, <2>3, AddressIsNamed
  <2>5. QED
    BY <1>1, <1>4, <2>3, <2>4
<1>5. QED
  BY <1>3, <1>4

\* forward (remote/service.go:117-157) overlooks no binding that it can forward and makes
\* up no address: when Forward returns, credentials that name a host and a port have a
\* tunnel to a host and a port of theirs, the hostname and the port outside the URLs before
\* those of the URLs, and credentials without either, or with a URL that cannot be read,
\* have none.
THEOREM TunnelsAreNamed == Spec => []TunnelsLeadWhereNamed
BY InvariantHolds, InvLeads, PTL

---------------------------------------------------------------------------------
(* Two commands give the same ports. *)

LEMMA KeepingUnmoved ==
  ASSUME NEW d \in Commands, services' = services, type'[d] = type[d],
         index'[d] = index[d], port'[d] = port[d], forwards'[d] = forwards[d]
  PROVE  \A base : KeepsTo(d, base) => KeepsTo(d, base)'
BY DEF KeepsTo

LEMMA InitPortInv == Init => PortInv
<1> SUFFICES ASSUME Init PROVE PortInv
  OBVIOUS
<1> DEFINE base == [t \in Types |-> 0]
<1>1. base \in [Types -> Nat]
  OBVIOUS
<1> HIDE DEF base
<1>2. ASSUME NEW c \in Commands
      PROVE  KeepsTo(c, base)
  <2>1. type[c] = NoType /\ Len(forwards[c]) = 0
    BY EmptySeq DEF Init
  <2>2. \A t \in Types : ~(t <= type[c])
    BY <2>1, TypesAssumption DEF NoType
  <2>3. QED
    BY <2>1, <2>2 DEF KeepsTo
<1>3. QED
  BY <1>1, <1>2 DEF PortInv

\* Past a binding that is refused.
LEMMA RefuseKeepsPorts ==
  ASSUME IInv, PortInv, NEW c \in Commands, RefuseBinding(c)
  PROVE  PortInv'
<1>1. PICK base \in [Types -> Nat] : \A d \in Commands : KeepsTo(d, base)
  BY DEF PortInv
<1>2. TypeOK /\ AtBinding(c)
  BY DEF IInv, RefuseBinding
<1>3. /\ index'[c] = index[c] + 1 /\ port'[c] = port[c] + 1
      /\ \A d \in Commands \ {c} : index'[d] = index[d] /\ port'[d] = port[d]
      /\ UNCHANGED <<services, type, forwards>>
  BY <1>2 DEF RefuseBinding, TypeOK
<1>4. \A d \in Commands \ {c} : KeepsTo(d, base)'
  BY <1>1, <1>3, KeepingUnmoved
<1>5. type[c] \in Types /\ port[c] \in Nat /\ index[c] \in Nat
  BY <1>2, AtPlace DEF TypeOK
<1>6. base[type[c]] \in Nat
  BY <1>5
<1>7. type[c] # NoType => port'[c] + 1 = base[type[c]] + index'[c]
  BY <1>1, <1>3, <1>5, <1>6 DEF KeepsTo
<1>8. KeepsTo(c, base)'
  BY <1>1, <1>3, <1>7 DEF KeepsTo
<1>9. QED
  BY <1>4, <1>8 DEF PortInv

\* Past a binding that gets its tunnel.
LEMMA ForwardKeepsPorts ==
  ASSUME IInv, PortInv, NEW c \in Commands, ForwardBinding(c)
  PROVE  PortInv'
<1>1. PICK base \in [Types -> Nat] : \A d \in Commands : KeepsTo(d, base)
  BY DEF PortInv
<1>2. TypeOK /\ AtBinding(c)
  BY DEF IInv, ForwardBinding
<1>3. /\ index'[c] = index[c] + 1 /\ port'[c] = port[c] + 1
      /\ \A d \in Commands \ {c} : index'[d] = index[d] /\ port'[d] = port[d]
      /\ UNCHANGED <<services, type>>
  BY <1>2 DEF ForwardBinding, TypeOK
<1> DEFINE n == Len(forwards[c])
<1>4. /\ n \in Nat /\ Len(forwards'[c]) = n + 1
      /\ forwards'[c][n + 1].from = port[c]
      /\ forwards'[c][n + 1].binding[1] = type[c]
      /\ forwards'[c][n + 1].binding[2] = index[c]
      /\ \A k \in 1..n : forwards'[c][k] = forwards[c][k]
      /\ \A d \in Commands \ {c} : forwards'[d] = forwards[d]
  <2>1. PICK tunnel : tunnel = [binding |-> <<type[c], index[c]>>, from |-> port[c],
                                to |-> Address(services[type[c]][index[c]])]
    OBVIOUS
  <2>2. /\ tunnel.from = port[c]
        /\ tunnel.binding[1] = type[c] /\ tunnel.binding[2] = index[c]
    BY <2>1
  <2>3. /\ n \in Nat /\ Len(forwards'[c]) = n + 1 /\ forwards'[c][n + 1] = tunnel
        /\ \A k \in 1..n : forwards'[c][k] = forwards[c][k]
        /\ \A d \in Commands \ {c} : forwards'[d] = forwards[d]
    BY <2>1, NewTunnel
  <2>4. QED
    BY <2>2, <2>3
<1>5. \A d \in Commands \ {c} : KeepsTo(d, base)'
  BY <1>1, <1>3, <1>4, KeepingUnmoved
<1>6. type[c] \in Types /\ type[c] # NoType /\ port[c] \in Nat /\ index[c] \in Nat
  BY <1>2, AtPlace DEF TypeOK
<1>7. base[type[c]] \in Nat
  BY <1>6
<1>8. port[c] + 1 = base[type[c]] + index[c]
  BY <1>1, <1>6 DEF KeepsTo
<1>9. type'[c] # NoType => port'[c] + 1 = base[type'[c]] + index'[c]
  BY <1>3, <1>6, <1>7, <1>8
<1>10. ASSUME NEW k \in 1..(n + 1)
       PROVE  forwards'[c][k].from + 1 =
                base[forwards'[c][k].binding[1]] + forwards'[c][k].binding[2]
  <2>1. CASE k \in 1..n
    BY <1>1, <1>4, <2>1 DEF KeepsTo
  <2>2. CASE k = n + 1
    BY <1>4, <1>8, <2>2
  <2>3. QED
    BY <1>4, <2>1, <2>2
<1>11. KeepsTo(c, base)'
  BY <1>1, <1>3, <1>4, <1>9, <1>10 DEF KeepsTo
<1>12. QED
  BY <1>5, <1>11 DEF PortInv

\* The type that a command starts with is the least that it has still to do: the port it
\* has come to follows from the types before.
LEMMA StartsInOrder ==
  ASSUME IInv, NEW c \in Commands, NEW base \in [Types -> Nat], KeepsTo(c, base),
         at[c] = "loop", ~AtBinding(c), NEW t \in todo[c], \A u \in todo[c] : t <= u
  PROVE  /\ t \in Types /\ t \in Nat /\ type[c] \in Nat /\ type[c] < t
         /\ \A u \in Types : u < t => u <= type[c]
         /\ type[c] \in Types \/ \A u \in Types : t <= u
         /\ (\A u \in Types : t <= u) => port[c] = FirstPort
         /\ \A u \in Types : u < t /\ (\A v \in Types : v <= u \/ t <= v) =>
              port[c] = base[u] + Len(services[u])
<1>1. TypeOK /\ Progress(c)
  BY DEF IInv, CommandInv
<1>2. todo[c] = {u \in Types : type[c] < u} /\ t \in Types
  BY <1>1 DEF Progress
<1>3. t \in Nat /\ type[c] \in Nat /\ type[c] < t
  BY <1>1, <1>2, TypesAssumption, TypeIsNumber
<1>4. ASSUME NEW u \in Types, u < t
      PROVE  u <= type[c]
  <2>1. u \in Nat
    BY TypesAssumption
  <2>2. u \notin todo[c]
    BY <1>3, <1>4, <2>1
  <2>3. QED
    BY <1>2, <1>3, <2>1, <2>2
<1>5. type[c] \in Types \/ type[c] = NoType
  BY <1>1 DEF TypeOK
<1>6. type[c] = NoType => \A u \in Types : t <= u
  BY <1>2, TypesAssumption DEF NoType
<1>7. ASSUME \A u \in Types : t <= u
      PROVE  port[c] = FirstPort
  <2>1. type[c] \notin Types
    BY <1>3, <1>7
  <2>2. QED
    BY <1>1, <1>5, <2>1 DEF Progress
<1>8. ASSUME NEW u \in Types, u < t, \A v \in Types : v <= u \/ t <= v
      PROVE  port[c] = base[u] + Len(services[u])
  <2>1. u \in Nat /\ u # NoType
    BY TypesAssumption
  <2>2. u <= type[c]
    BY <1>4, <1>8
  <2>3. type[c] \in Types /\ type[c] # NoType
    BY <1>3, <1>5, <2>1, <2>2 DEF NoType
  <2>4. type[c] <= u
    BY <1>3, <1>8, <2>3
  <2>5. type[c] = u
    BY <1>3, <2>1, <2>2, <2>4
  <2>6. index[c] = Len(services[u]) + 1 /\ Len(services[u]) \in Nat
    BY <2>3, <2>5, AtEnd
  <2>7. port[c] + 1 = base[u] + index[c]
    BY <2>3, <2>5 DEF KeepsTo
  <2>8. port[c] \in Nat /\ base[u] \in Nat
    BY <1>1 DEF TypeOK
  <2>9. base[u] + index[c] = (base[u] + Len(services[u])) + 1
    BY <2>6, <2>8, SMTT(30)
  <2>10. QED
    BY <2>6, <2>7, <2>8, <2>9, SMTT(30)
<1>9. QED
  BY <1>2, <1>3, <1>4, <1>5, <1>6, <1>7, <1>8

\* A command that is at a type has kept to no base of a later one.
LEMMA KeepsToLess ==
  ASSUME IInv, NEW d \in Commands, NEW base \in [Types -> Nat], KeepsTo(d, base),
         NEW t \in Types, type[d] < t, NEW p
  PROVE  KeepsTo(d, [base EXCEPT ![t] = p])
<1> DEFINE new == [base EXCEPT ![t] = p]
<1>1. TypeOK
  BY DEF IInv
<1>2. t \in Nat /\ type[d] \in Nat
  BY <1>1, TypesAssumption, TypeIsNumber
<1>3. \A u \in Types : u # t => new[u] = base[u]
  OBVIOUS
<1>4. \A u \in Types : u <= type[d] => u \in Nat /\ u # t
  BY <1>2, TypesAssumption
<1> HIDE DEF new
<1>5. type[d] # NoType => port[d] + 1 = new[type[d]] + index[d]
  <2>1. type[d] # NoType => type[d] \in Types /\ type[d] <= type[d]
    BY <1>1, <1>2 DEF TypeOK
  <2>2. QED
    BY <1>3, <1>4, <2>1 DEF KeepsTo
<1>6. ASSUME NEW k \in 1..Len(forwards[d])
      PROVE  forwards[d][k].from + 1 =
               new[forwards[d][k].binding[1]] + forwards[d][k].binding[2]
  <2>1. PICK u : u = forwards[d][k].binding[1]
    OBVIOUS
  <2>2. u \in Types
    BY <1>1, <2>1, TunnelFields
  <2>3. TunnelIsOwn(d, k)
    BY DEF IInv, CommandInv
  <2>4. u < type[d] \/ u = type[d]
    BY <2>1, <2>3 DEF TunnelIsOwn, Visited
  <2>5. u \in Nat
    BY <2>2, TypesAssumption
  <2>6. new[u] = base[u]
    BY <1>2, <1>3, <1>4, <2>2, <2>4, <2>5
  <2>7. QED
    BY <2>1, <2>6 DEF KeepsTo
<1>7. ASSUME NEW u \in Types, u <= type[d]
      PROVE  /\ (\A v \in Types : u <= v) => new[u] = FirstPort
             /\ \A v \in Types : v < u /\ (\A w \in Types : w <= v \/ u <= w) =>
                  new[u] = new[v] + Len(services[v])
  <2>1. new[u] = base[u] /\ u \in Nat
    BY <1>3, <1>4, <1>7
  <2>2. ASSUME NEW v \in Types, v < u
        PROVE  new[v] = base[v]
    <3>1. v \in Nat
      BY TypesAssumption
    <3>2. v <= type[d]
      BY <1>2, <1>7, <2>1, <2>2, <3>1
    <3>3. QED
      BY <1>3, <1>4, <3>2
  <2>3. QED
    BY <1>7, <2>1, <2>2 DEF KeepsTo
<1>8. KeepsTo(d, new)
  BY <1>5, <1>6, <1>7 DEF KeepsTo
<1>9. QED
  BY <1>8 DEF new

\* A command that starts with a type that the other has started finds that type's base;
\* the first that starts with it sets it.
LEMMA StartKeepsPorts ==
  ASSUME IInv, PortInv, NEW c \in Commands, StartType(c)
  PROVE  PortInv'
<1>1. PICK base \in [Types -> Nat] : \A d \in Commands : KeepsTo(d, base)
  BY DEF PortInv
<1>2. TypeOK
  BY DEF IInv
<1>3. PICK t \in todo[c] :
        (\A u \in todo[c] : t <= u) /\ type' = [type EXCEPT ![c] = t]
  BY DEF StartType
<1>4. /\ at[c] = "loop" /\ ~AtBinding(c)
      /\ UNCHANGED <<services, port, forwards>>
      /\ type'[c] = t /\ index'[c] = 1
      /\ \A d \in Commands \ {c} : type'[d] = type[d] /\ index'[d] = index[d]
  BY <1>2, <1>3 DEF StartType, TypeOK
<1>5. /\ t \in Types /\ t \in Nat /\ type[c] \in Nat /\ type[c] < t
      /\ \A u \in Types : u < t => u <= type[c]
      /\ type[c] \in Types \/ \A u \in Types : t <= u
      /\ (\A u \in Types : t <= u) => port[c] = FirstPort
      /\ \A u \in Types : u < t /\ (\A v \in Types : v <= u \/ t <= v) =>
           port[c] = base[u] + Len(services[u])
  BY <1>1, <1>3, <1>4, StartsInOrder
<1>6. port[c] \in Nat
  BY <1>2 DEF TypeOK
<1>7. ASSUME NEW new \in [Types -> Nat], \A d \in Commands : KeepsTo(d, new),
             new[t] = port[c],
             (\A u \in Types : t <= u) => new[t] = FirstPort,
             \A u \in Types : u < t /\ (\A v \in Types : v <= u \/ t <= v) =>
               new[t] = new[u] + Len(services[u])
      PROVE  PortInv'
  <2>1. \A d \in Commands \ {c} : KeepsTo(d, new)'
    BY <1>4, <1>7, KeepingUnmoved
  <2>2. port'[c] + 1 = new[type'[c]] + index'[c]
    BY <1>4, <1>7
  <2>3. ASSUME NEW u \in Types, u <= t, u # t
        PROVE  u <= type[c]
    <3>1. u \in Nat
      BY TypesAssumption
    <3>2. QED
      BY <1>5, <2>3, <3>1
  <2>4. ASSUME NEW u \in Types, u <= t
        PROVE  /\ (\A v \in Types : u <= v) => new[u] = FirstPort
               /\ \A v \in Types : v < u /\ (\A w \in Types : w <= v \/ u <= w) =>
                    new[u] = new[v] + Len(services[v])
    <3>1. CASE u = t
      BY <1>7, <3>1
    <3>2. CASE u # t
      BY <1>7, <2>3, <2>4, <3>2 DEF KeepsTo
    <3>3. QED
      BY <3>1, <3>2
  <2>5. KeepsTo(c, new)'
    BY <1>4, <1>7, <2>2, <2>4 DEF KeepsTo
  <2>6. QED
    BY <2>1, <2>5 DEF PortInv
<1>8. CASE \E d \in Commands : t <= type[d]
  <2>1. PICK d \in Commands : t <= type[d]
    BY <1>8
  <2>2. /\ (\A u \in Types : t <= u) => base[t] = FirstPort
        /\ \A u \in Types : u < t /\ (\A v \in Types : v <= u \/ t <= v) =>
             base[t] = base[u] + Len(services[u])
    BY <1>1, <1>5, <2>1 DEF KeepsTo
  <2>3. base[t] = port[c]
    <3>1. CASE \A u \in Types : t <= u
      BY <1>5, <2>2, <3>1
    <3>2. CASE ~\A u \in Types : t <= u
      <4>1. type[c] \in Types /\ \A v \in Types : v <= type[c] \/ t <= v
        <5>1. type[c] \in Types
          BY <1>5, <3>2
        <5>2. \A v \in Types : v < t \/ t <= v
          BY <1>5, TypesAssumption
        <5>3. QED
          BY <1>5, <5>1, <5>2
      <4>2. QED
        BY <1>5, <2>2, <4>1
    <3>3. QED
      BY <3>1, <3>2
  <2>4. QED
    BY <1>1, <1>7, <2>2, <2>3
<1>9. CASE ~\E d \in Commands : t <= type[d]
  <2> DEFINE new == [base EXCEPT ![t] = port[c]]
  <2>1. \A d \in Commands : type[d] < t
    BY <1>2, <1>5, <1>9, TypeIsNumber
  <2>2. \A d \in Commands : KeepsTo(d, new)
    BY <1>1, <1>5, <2>1, KeepsToLess
  <2>3. /\ new \in [Types -> Nat] /\ new[t] = port[c]
        /\ \A u \in Types : u < t => new[u] = base[u]
    BY <1>5, <1>6
  <2> HIDE DEF new
  <2>4. QED
    BY <1>5, <1>7, <2>2, <2>3
<1>10. QED
  BY <1>8, <1>9

THEOREM PortsHold == Spec => [](IInv /\ PortInv)
<1>1. Init => IInv /\ PortInv
  BY InitIInv, InitPortInv
<1>2. IInv /\ PortInv /\ [Next]_vars => PortInv'
  <2> SUFFICES ASSUME IInv, PortInv, [Next]_vars PROVE PortInv'
    OBVIOUS
  <2>1. CASE UNCHANGED <<services, type, index, port, forwards>>
    BY <2>1, KeepingUnmoved DEF PortInv
  <2>2. CASE Next
    <3>1. PICK c \in Commands :
            \/ ReadServices(c) \/ FindEndpoint(c) \/ RequestFails(c)
            \/ StartType(c) \/ ForwardBinding(c) \/ RefuseBinding(c) \/ Finish(c)
      BY <2>2 DEF Next
    <3>2. CASE ReadServices(c) \/ FindEndpoint(c) \/ RequestFails(c) \/ Finish(c)
      BY <2>1, <3>2 DEF ReadServices, FindEndpoint, RequestFails, Finish
    <3>3. QED
      BY <3>1, <3>2, StartKeepsPorts, ForwardKeepsPorts, RefuseKeepsPorts
  <2>3. QED
    BY <2>1, <2>2 DEF vars, cmdVars
<1>3. QED
  BY InvariantHolds, <1>1, <1>2, PTL DEF Spec

LEMMA InvMatches ==
  ASSUME IInv, PortInv
  PROVE  StageMatchesRun
<1> SUFFICES ASSUME at["stage"] = "done", at["run"] = "done"
             PROVE  svcs["stage"] = svcs["run"]
  BY DEF StageMatchesRun
<1>1. TypeOK /\ "stage" \in Commands /\ "run" \in Commands
  BY DEF IInv, Commands
<1> DEFINE Cs == CredentialsFor(Hosts \cup {Local}, Nat)
<1>2. svcs["stage"] \in [Types -> Seq(Cs)] /\ svcs["run"] \in [Types -> Seq(Cs)]
  BY <1>1 DEF TypeOK
<1>3. \A t \in Types : /\ Len(svcs["stage"][t]) = Len(services[t])
                       /\ Len(svcs["run"][t]) = Len(services[t])
  BY <1>1 DEF TypeOK
<1>4. PICK base \in [Types -> Nat] : \A c \in Commands : KeepsTo(c, base)
  BY DEF PortInv
<1>5. ASSUME NEW t \in Types, NEW i \in 1..Len(services[t])
      PROVE  svcs["stage"][t][i] = svcs["run"][t][i]
  <2>1. \A c \in {"stage", "run"} : BindingIsDone(c, t, i) /\ Visited(c, t, i)
    BY <1>1, DoneIsVisited DEF IInv, CommandInv
  <2>2. CASE Forwardable(services[t][i])
    <3>1. ASSUME NEW c \in {"stage", "run"}
          PROVE  \E p \in Nat : /\ p + 1 = base[t] + i
                                /\ svcs[c][t][i] = Rewrite(services[t][i], p)
      <4>1. PICK k \in 1..Len(forwards[c]) : forwards[c][k].binding = <<t, i>>
        BY <2>1, <2>2 DEF BindingIsDone
      <4>2. /\ svcs[c][t][i] = Rewrite(services[t][i], forwards[c][k].from)
            /\ forwards[c][k].from \in Nat
        BY <1>1, <4>1, OwnTunnel
      <4>3. forwards[c][k].from + 1 = base[t] + i
        BY <1>1, <1>4, <4>1 DEF KeepsTo
      <4>4. QED
        BY <4>2, <4>3
    <3>2. PICK p \in Nat : p + 1 = base[t] + i /\ svcs["stage"][t][i] = Rewrite(services[t][i], p)
      BY <3>1
    <3>3. PICK q \in Nat : q + 1 = base[t] + i /\ svcs["run"][t][i] = Rewrite(services[t][i], q)
      BY <3>1
    <3>4. p = q
      BY <3>2, <3>3
    <3>5. QED
      BY <3>2, <3>3, <3>4
  <2>3. CASE ~Forwardable(services[t][i])
    BY <2>1, <2>3 DEF BindingIsDone
  <2>4. QED
    BY <2>2, <2>3
<1> HIDE DEF Cs
<1>6. /\ \A t \in Types : Len(svcs["stage"][t]) = Len(svcs["run"][t])
      /\ \A t \in Types : \A i \in 1..Len(svcs["stage"][t]) :
           svcs["stage"][t][i] = svcs["run"][t][i]
  BY <1>3, <1>5
<1>7. QED
  BY <1>2, <1>6, SameBindings

\* The ports that forward (remote/service.go:35-80) gives follow from the order of the
\* types and the numbers of their bindings alone, so that an app staged with -f has seen
\* the very bindings that it is run with (getRemoteServices, cf/cmd/cmd.go:123-139).
THEOREM StageSeesRun == Spec => []StageMatchesRun
BY PortsHold, InvMatches, PTL

==================================================================================
