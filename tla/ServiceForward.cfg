\* One binding with every combination of two hosts, two ports and the kinds of URL, and
\* three types with up to two bindings each.
CONSTANTS
  Types = {1, 2, 3}
  Hosts <- MCHosts
  Ports <- MCPorts
  Bindings <- MCBindings
  FirstPort = 40000
SPECIFICATION Spec
INVARIANTS TypeOK RewrittenOrUntouched TunnelsLeadWhereNamed StageMatchesRun
CHECK_DEADLOCK FALSE
