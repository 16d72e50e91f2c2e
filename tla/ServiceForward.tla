----------------------------- MODULE ServiceForward -----------------------------
(***************************************************************************)
(* The rewriting of an app's service bindings for a tunnel                 *)
(* (remote/service.go), called through getRemoteServices (cf/cmd/cmd.go)   *)
(* by `cf local stage -f` and `cf local run -f`.                           *)
(*                                                                         *)
(* Forward visits the bindings by type, in alphabetical order, and gives   *)
(* each a local port of its own.  A binding in which it finds a host and a *)
(* port is rewritten to its local port and gets a tunnel; the others are   *)
(* left as they are.  Types are numbers for their names, so that < is      *)
(* their order.  Credentials are what the code looks at: a hostname, a     *)
(* port, a uri and a jdbcUrl, each of which may be absent or of a type     *)
(* that str and f64 take for absent.  Host names hold no colon.            *)
(***************************************************************************)
EXTENDS Naturals, Sequences, FiniteSets

CONSTANTS
  Types,      \* service types
  Hosts,      \* hosts of services
  Ports,      \* ports of services
  Bindings,   \* what Cloud Foundry may have: a list of bindings for each type
  FirstPort   \* firstForwardedServicePort

NoHost == "none"
Local == "localhost"
NoPort == 0
NoType == 0

ASSUME TypesAssumption == Types \subseteq Nat \ {NoType} /\ IsFiniteSet(Types)
ASSUME AddressAssumption ==
  /\ Hosts \cap {NoHost, Local} = {}
  /\ Ports \subseteq Nat \ {NoPort}
  /\ FirstPort \in Nat \ {NoPort}

\* A URL may be absent, one that url.Parse refuses or whose host part is empty, or it
\* has an address, of which either half may be missing (":3306").
URLs(hosts, ports) ==
  [form : {"none", "bad"}, host : {NoHost}, port : {NoPort}]
    \cup [form : {"url"}, host : hosts \cup {NoHost}, port : ports \cup {NoPort}]
CredentialsFor(hosts, ports) ==
  [hostname : hosts \cup {NoHost}, port : ports \cup {NoPort},
   uri : URLs(hosts, ports), jdbcUrl : URLs(hosts, ports)]
Credentials == CredentialsFor(Hosts, Ports)

ASSUME BindingsAssumption == Bindings \subseteq [Types -> Seq(Credentials)]

Commands == {"stage", "run"}

VARIABLES
  services,  \* the bindings of each type, as Cloud Foundry has them
  at,        \* per command: "start", "endpoint", "loop", "done", "failed"
  svcs,      \* the bindings the command has been given, rewritten as it goes
  todo,      \* types still to visit
  type,      \* the type being visited
  index,     \* the binding being visited
  port,      \* forwardedPort
  forwards,  \* config.Forwards
  details    \* the command has been given a config for a tunnel

cmdVars == <<at, svcs, todo, type, index, port, forwards, details>>
vars == <<services, cmdVars>>

Tunnels == [binding : Types \X (Nat \ {0}), from : Nat, to : [host : Hosts, port : Ports]]

TypeOK ==
  /\ services \in Bindings
  /\ at \in [Commands -> {"start", "endpoint", "loop", "done", "failed"}]
  /\ svcs \in [Commands -> [Types -> Seq(CredentialsFor(Hosts \cup {Local}, Nat))]]
  /\ \A c \in Commands : \A t \in Types : Len(svcs[c][t]) = Len(services[t])
  /\ todo \in [Commands -> SUBSET Types]
  /\ type \in [Commands -> Types \cup {NoType}]
  /\ index \in [Commands -> Nat \ {0}]
  /\ port \in [Commands -> Nat]
  /\ forwards \in [Commands -> Seq(Tunnels)]
  /\ details \in [Commands -> BOOLEAN]

Init ==
  /\ services \in Bindings
  /\ at = [c \in Commands |-> "start"]
  /\ svcs = [c \in Commands |-> services]
  /\ todo = [c \in Commands |-> Types]
  /\ type = [c \in Commands |-> NoType]
  /\ index = [c \in Commands |-> 1]
  /\ port = [c \in Commands |-> FirstPort]
  /\ forwards = [c \in Commands |-> <<>>]
  /\ details = [c \in Commands |-> FALSE]

---------------------------------------------------------------------------------
(* forward: one binding. *)

\* Mutant of EnsureHostPort: what a URL names wins over what is known.
EnsureHostPortOfURL(known, url) ==
  [host |-> IF url.host # NoHost THEN url.host ELSE known.host,
   port |-> IF url.port # NoPort THEN url.port ELSE known.port]

\* What is known already is kept.
EnsureHostPort(known, url) ==
  [host |-> IF known.host # NoHost THEN known.host ELSE url.host,
   port |-> IF known.port # NoPort THEN known.port ELSE url.port]

Address(creds) ==
  EnsureHostPort(EnsureHostPort([host |-> creds.hostname, port |-> creds.port], creds.uri),
                 creds.jdbcUrl)

HasBadURL(creds) == "bad" \in {creds.uri.form, creds.jdbcUrl.form}

\* Mutant of Forwardable: an address without a port will do.
ForwardableNoPort(creds) == ~HasBadURL(creds) /\ Address(creds).host # NoHost

Forwardable(creds) ==
  /\ ~HasBadURL(creds)
  /\ Address(creds).host # NoHost
  /\ Address(creds).port # NoPort

RewriteURL(url, p) ==
  IF url.form = "none" THEN url ELSE [form |-> "url", host |-> Local, port |-> p]

\* The override of the credentials that are there, merged into them.
Rewrite(creds, p) ==
  [hostname |-> IF creds.hostname # NoHost THEN Local ELSE NoHost,
   port     |-> IF creds.hostname # NoHost \/ creds.port # NoPort THEN p ELSE NoPort,
   uri      |-> RewriteURL(creds.uri, p),
   jdbcUrl  |-> RewriteURL(creds.jdbcUrl, p)]

---------------------------------------------------------------------------------
(* Forward and its callers. *)

\* App.Services, and then ssh endpoint, login and app: each may fail.
ReadServices(c) ==
  /\ at[c] = "start"
  /\ at' = [at EXCEPT ![c] = "endpoint"]
  /\ UNCHANGED <<services, svcs, todo, type, index, port, forwards, details>>

FindEndpoint(c) ==
  /\ at[c] = "endpoint"
  /\ at' = [at EXCEPT ![c] = "loop"]
  /\ UNCHANGED <<services, svcs, todo, type, index, port, forwards, details>>

RequestFails(c) ==
  /\ at[c] \in {"start", "endpoint"}
  /\ at' = [at EXCEPT ![c] = "failed"]
  /\ UNCHANGED <<services, svcs, todo, type, index, port, forwards, details>>

AtBinding(c) ==
  /\ at[c] = "loop"
  /\ type[c] # NoType
  /\ index[c] <= Len(svcs[c][type[c]])

\* Mutant of StartType: the order of a Go map, which is any.
StartAnyType(c) ==
  /\ at[c] = "loop" /\ ~AtBinding(c)
  /\ \E t \in todo[c] :
       /\ type' = [type EXCEPT ![c] = t]
       /\ todo' = [todo EXCEPT ![c] = @ \ {t}]
  /\ index' = [index EXCEPT ![c] = 1]
  /\ UNCHANGED <<services, at, svcs, port, forwards, details>>

\* serviceTypes has sorted the types.
StartType(c) ==
  /\ at[c] = "loop" /\ ~AtBinding(c)
  /\ \E t \in todo[c] :
       /\ \A u \in todo[c] : t <= u
       /\ type' = [type EXCEPT ![c] = t]
       /\ todo' = [todo EXCEPT ![c] = @ \ {t}]
  /\ index' = [index EXCEPT ![c] = 1]
  /\ UNCHANGED <<services, at, svcs, port, forwards, details>>

Current(c) == svcs[c][type[c]][index[c]]

ForwardBinding(c) ==
  /\ AtBinding(c)
  /\ Forwardable(Current(c))
  /\ svcs' = [svcs EXCEPT ![c][type[c]][index[c]] = Rewrite(@, port[c])]
  /\ forwards' = [forwards EXCEPT ![c] =
       Append(@, [binding |-> <<type[c], index[c]>>, from |-> port[c], to |-> Address(Current(c))])]
  /\ index' = [index EXCEPT ![c] = @ + 1]
  /\ port' = [port EXCEPT ![c] = @ + 1]
  /\ UNCHANGED <<services, at, todo, type, details>>

\* Mutant of RefuseBinding: the overrides found so far are written as they are found.
RefuseBindingMerged(c) ==
  /\ AtBinding(c)
  /\ ~Forwardable(Current(c))
  /\ svcs' = [svcs EXCEPT ![c][type[c]][index[c]] =
       [Rewrite(@, port[c]) EXCEPT !.uri = Current(c).uri, !.jdbcUrl = Current(c).jdbcUrl]]
  /\ index' = [index EXCEPT ![c] = @ + 1]
  /\ port' = [port EXCEPT ![c] = @ + 1]
  /\ UNCHANGED <<services, at, todo, type, forwards, details>>

\* A warning, and the port stays unused.
RefuseBinding(c) ==
  /\ AtBinding(c)
  /\ ~Forwardable(Current(c))
  /\ index' = [index EXCEPT ![c] = @ + 1]
  /\ port' = [port EXCEPT ![c] = @ + 1]
  /\ UNCHANGED <<services, at, svcs, todo, type, forwards, details>>

\* Without a tunnel there is no config either.
Finish(c) ==
  /\ at[c] = "loop" /\ ~AtBinding(c)
  /\ todo[c] = {}
  /\ at' = [at EXCEPT ![c] = "done"]
  /\ details' = [details EXCEPT ![c] = forwards[c] # <<>>]
  /\ UNCHANGED <<services, svcs, todo, type, index, port, forwards>>

Next ==
  \E c \in Commands :
    \/ ReadServices(c) \/ FindEndpoint(c) \/ RequestFails(c)
    \/ StartType(c) \/ ForwardBinding(c) \/ RefuseBinding(c) \/ Finish(c)

Spec == Init /\ [][Next]_vars

---------------------------------------------------------------------------------
(* Properties *)

HostsIn(creds) == {creds.hostname, creds.uri.host, creds.jdbcUrl.host} \ {NoHost}
PortsIn(creds) == {creds.port, creds.uri.port, creds.jdbcUrl.port} \ {NoPort}

TunnelsOf(c, t, i) ==
  {k \in 1..Len(forwards[c]) : forwards[c][k].binding = <<t, i>>}

\* A binding is either as Cloud Foundry has it and without a tunnel, or all that it
\* names is the local end of its own one tunnel; a command has a config for the
\* tunnels exactly when some binding needs them.
RewrittenOrUntouched ==
  \A c \in Commands :
    /\ \A t \in Types : \A i \in 1..Len(services[t]) :
         LET new == svcs[c][t][i]
         IN  \/ new = services[t][i] /\ TunnelsOf(c, t, i) = {}
             \/ /\ HostsIn(new) = {Local}
                /\ \E k \in 1..Len(forwards[c]) :
                     /\ TunnelsOf(c, t, i) = {k}
                     /\ PortsIn(new) = {forwards[c][k].from}
                     /\ \A l \in 1..Len(forwards[c]) \ {k} :
                          forwards[c][l].from # forwards[c][k].from
    /\ at[c] = "done" => (details[c] <=> svcs[c] # services)

\* The end of a tunnel is made up of what the credentials name, and a hostname or a port
\* of their own wins over the URLs'.
NamedBy(creds, to) ==
  /\ to.host \in HostsIn(creds) /\ to.port \in PortsIn(creds)
  /\ creds.hostname # NoHost => to.host = creds.hostname
  /\ creds.port # NoPort => to.port = creds.port

\* A binding that names a host and a port has a tunnel to where it names, whether its
\* credentials agree or not; one that names no host, no port or a URL that cannot be read
\* is not tunnelled.
TunnelsLeadWhereNamed ==
  \A c \in Commands : at[c] = "done" =>
    \A t \in Types : \A i \in 1..Len(services[t]) :
      LET old == services[t][i]
      IN  IF HasBadURL(old) \/ HostsIn(old) = {} \/ PortsIn(old) = {}
          THEN TunnelsOf(c, t, i) = {}
          ELSE \E k \in TunnelsOf(c, t, i) : NamedBy(old, forwards[c][k].to)

\* An app staged with -f has seen the bindings it is later run with, while they are the
\* same in Cloud Foundry.
StageMatchesRun ==
  at["stage"] = "done" /\ at["run"] = "done" => svcs["stage"] = svcs["run"]
=================================================================================
