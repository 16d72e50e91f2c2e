---------------------------- MODULE MCServiceForward ----------------------------
(***************************************************************************)
(* ServiceForward with every credential for one binding, and with a few    *)
(* for several bindings of several types.                                  *)
(***************************************************************************)
EXTENDS ServiceForward

MCHosts == {"db", "cache"}
MCPorts == {3306, 6379}

\* One binding, whatever its credentials.
AllSingle == {[t \in Types |-> IF t = 1 THEN <<c>> ELSE <<>>] : c \in Credentials}

Nowhere == [form |-> "none", host |-> NoHost, port |-> NoPort]
Unread == [Nowhere EXCEPT !.form = "bad"]
ByHost == [hostname |-> "db", port |-> 3306, uri |-> Nowhere, jdbcUrl |-> Nowhere]
ByURL == [hostname |-> NoHost, port |-> NoPort, jdbcUrl |-> Nowhere,
          uri |-> [form |-> "url", host |-> "cache", port |-> 6379]]
Useless == [ByHost EXCEPT !.uri = Unread]

\* Up to two bindings for each type, of those that are forwarded and one that is not.
FewLists == {<<>>} \cup {<<a>> : a \in {ByHost, ByURL, Useless}}
                \cup {<<a, b>> : a \in {ByHost, Useless}, b \in {ByURL, Useless}}
FewSeveral == [Types -> FewLists]

MCBindings == AllSingle \cup FewSeveral
=================================================================================
