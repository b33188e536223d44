------------------------------ MODULE MCStartup ------------------------------
(***************************************************************************)
(* A behaviour is one of ServerStartup, or one of ServerConfig once the    *)
(* server runs: the server reads its options once, in its constructor.     *)
(***************************************************************************)
EXTENDS ServerConfig, ServerStartup

VARIABLE subject  \* the component this behaviour is about

vars == <<subject, configVars, startupVars>>

MCKeys(port, prometheus, cache_ttl) ==
  [port |-> port, prometheus_port |-> prometheus, cache_ttl |-> cache_ttl]

\* A good file, whose second port is good only once it has wrapped around, one
\* that moves a port onto another section's default, one with a field out of
\* range, and one that is not JSON.
MCContent ==
  [good    |-> [json |-> TRUE, keys |-> MCKeys(8081, IntValues + 9091, 0)],
   clash   |-> [json |-> TRUE, keys |-> [port |-> 9090]],
   invalid |-> [json |-> TRUE, keys |-> [threads |-> 65, cache_ttl |-> 1]],
   garbled |-> [json |-> FALSE, keys |-> <<>>]]

MCFiles == DOMAIN MCContent

MCOption(reuse, threads, sockets, ip_valid) ==
  [use_so_reuseport |-> reuse, threads |-> threads, so_reuseport_sockets |-> sockets,
   ip_valid |-> ip_valid]

\* Both modes; no threads; as many sockets as threads, fewer, more; a bad
\* address.
MCOptions ==
  {MCOption(FALSE, 0, 0, TRUE), MCOption(FALSE, 2, 0, TRUE), MCOption(TRUE, 0, 0, TRUE),
   MCOption(TRUE, 0, 1, TRUE), MCOption(TRUE, 2, 0, TRUE), MCOption(TRUE, 2, 1, TRUE),
   MCOption(TRUE, 1, 2, TRUE), MCOption(TRUE, 2, 0, FALSE)}

Init == /\ ConfigInit
        /\ StartupInit
        /\ \/ subject = "config" /\ opts = CHOOSE o \in Options : TRUE
           \/ subject = "startup" /\ original_json_ = None /\ config = LoadFromFile(None)

Next == \/ subject = "config" /\ ConfigNext /\ UNCHANGED <<subject, startupVars>>
        \/ subject = "startup" /\ StartupNext /\ UNCHANGED <<subject, configVars>>

Spec == Init /\ [][Next]_vars
===============================================================================
