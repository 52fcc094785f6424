--------------------------- MODULE ProtocolRegistry ---------------------------
(***************************************************************************)
(* The ProtocolRegistry of src/src/protocol/protocol.rs with the factories *)
(* of src/src/adapters/factories.rs, and the PluginManager of              *)
(* src/src/plugin.rs: maps from names and URI schemes to factories, which  *)
(* several tasks fill and use.  register takes one lock for the names and  *)
(* then another for the schemes, so it can stop half-way: at a scheme that *)
(* is taken, or because its future is dropped between the locks.           *)
(*                                                                         *)
(* A factory is its protocol name, its schemes and its kind, which says    *)
(* how it reads a URI; what it builds is recorded as <<kind, address>>.    *)
(* Whether the network then lets it connect or bind is left out.           *)
(***************************************************************************)
EXTENDS Naturals, Sequences, Functions

CONSTANTS
  Callers,     \* tasks that use the registry
  Custom,      \* factories of the application
  PluginNames, \* names of the application's plugins
  Addresses,   \* addresses of URIs
  configured   \* the address in the config, or in the default config

VARIABLES
  factories,   \* protocol name -> factory
  schemes,     \* URI scheme -> factory
  pending,     \* the factory each caller has registered by name only
  complete,    \* factories whose registration returned Ok (history)
  opened,      \* the last connection: scheme and address of the URI, kind, target
  plugins,     \* names of the registered plugins
  allow_override, \* set by with_override
  served       \* the last name for which a plugin built a server

registryVars == <<factories, schemes, pending, complete, opened>>
pluginVars == <<plugins, allow_override, served>>
vars == <<registryVars, pluginVars>>

\* The three standard factories.
Tcp == [name |-> "tcp", schemes |-> <<"tcp", "tcp4", "tcp6">>, kind |-> "tcp"]
WebSocket == [name |-> "websocket", schemes |-> <<"ws", "wss">>, kind |-> "websocket"]
Quic == [name |-> "quic", schemes |-> <<"quic", "quic+tls">>, kind |-> "quic"]
Standard == {Tcp, WebSocket, Quic}
Factories == Standard \cup Custom
Schemes == UNION {Range(f.schemes) : f \in Factories}
NoFactory == [name |-> "none", schemes |-> <<>>, kind |-> "none"]
Bare == "none"    \* the scheme of a URI that is just host:port

TypeOK ==
  /\ DOMAIN factories \subseteq {f.name : f \in Factories}
  /\ \A n \in DOMAIN factories : factories[n] \in Factories /\ factories[n].name = n
  /\ DOMAIN schemes \subseteq Schemes
  /\ \A s \in DOMAIN schemes : schemes[s] \in Factories /\ s \in Range(schemes[s].schemes)
  /\ pending \in [Callers -> Factories \cup {NoFactory}]
  /\ complete \subseteq Factories
  /\ \A c \in opened :
       c.scheme \in Schemes \cup {Bare} /\ c.target \in Addresses \cup {configured}
  /\ plugins \subseteq PluginNames /\ allow_override \in BOOLEAN
  /\ served \subseteq PluginNames

Extend(map, key, value) == [k \in DOMAIN map \cup {key} |-> IF k = key THEN value ELSE map[k]]
Empty == [k \in {} |-> NoFactory]

\* ProtocolRegistry::new and PluginManager::new or with_override
Init ==
  /\ factories = Empty /\ schemes = Empty
  /\ pending = [c \in Callers |-> NoFactory]
  /\ complete = {} /\ opened = {}
  /\ plugins = {} /\ allow_override \in BOOLEAN /\ served = {}

-----------------------------------------------------------------------------
(* register                                                                *)

\* Mutant: a factory replaces another of its name.
ReplaceName(c, f) ==
  /\ pending[c] = NoFactory
  /\ factories' = Extend(factories, f.name, f)
  /\ pending' = [pending EXCEPT ![c] = f]
  /\ UNCHANGED <<schemes, complete, opened, pluginVars>>

RegisterName(c, f) ==
  /\ pending[c] = NoFactory /\ f.name \notin DOMAIN factories
  /\ factories' = Extend(factories, f.name, f)
  /\ pending' = [pending EXCEPT ![c] = f]
  /\ UNCHANGED <<schemes, complete, opened, pluginVars>>

\* The schemes before the first one that is taken.
Untaken(f) ==
  LET taken == {i \in DOMAIN f.schemes : f.schemes[i] \in DOMAIN schemes}
  IN  {f.schemes[i] : i \in {j \in DOMAIN f.schemes : \A k \in taken : j < k}}

\* Mutant: taken schemes are passed over.
SkipTaken(c) ==
  /\ pending[c] # NoFactory
  /\ LET f == pending[c]
         free == {s \in Range(f.schemes) : s \notin DOMAIN schemes}
     IN  /\ schemes' = [s \in DOMAIN schemes \cup free |-> IF s \in free THEN f ELSE schemes[s]]
         /\ complete' = complete \cup {f}
  /\ pending' = [pending EXCEPT ![c] = NoFactory]
  /\ UNCHANGED <<factories, opened, pluginVars>>

RegisterSchemes(c) ==
  /\ pending[c] # NoFactory
  /\ LET f == pending[c] IN
       /\ schemes' = [s \in DOMAIN schemes \cup Untaken(f) |->
                        IF s \in Untaken(f) THEN f ELSE schemes[s]]
       /\ complete' = IF Untaken(f) = Range(f.schemes) THEN complete \cup {f} ELSE complete
  /\ pending' = [pending EXCEPT ![c] = NoFactory]
  /\ UNCHANGED <<factories, opened, pluginVars>>

\* The future of register is dropped while it waits for the second lock.
Cancel(c) ==
  /\ pending[c] # NoFactory
  /\ pending' = [pending EXCEPT ![c] = NoFactory]
  /\ UNCHANGED <<factories, schemes, complete, opened, pluginVars>>

-----------------------------------------------------------------------------
(* create_connection                                                       *)

\* extract_scheme: host:port alone means tcp.
SchemeOf(scheme) == IF scheme = Bare THEN "tcp" ELSE scheme

\* parse_uri of each factory: tcp knows only one of its three schemes, quic
\* only one of its two, and a WebSocket client does not look at the URI.
TcpReads(scheme) == scheme \in {"tcp", Bare}
QuicReads(scheme) == scheme = "quic"

\* Mutant: the address of the config goes before that of the URI.
ConfiguredFirst(kind, address) ==
  IF kind = "websocket" THEN configured ELSE IF kind = "tcp" THEN configured ELSE address

\* Where the factory connects.  WebSocketClientBuilder::target_url ignores its
\* argument, so it is the URL of the config, or of the default config.
Target(kind, address) == IF kind = "websocket" THEN configured ELSE address

Readable(kind, scheme) ==
  CASE kind = "tcp" -> TcpReads(scheme)
    [] kind = "quic" -> QuicReads(scheme)
    [] OTHER -> TRUE

CreateConnection(scheme, address) ==
  /\ SchemeOf(scheme) \in DOMAIN schemes
  /\ LET kind == schemes[SchemeOf(scheme)].kind IN
       /\ Readable(kind, scheme)
       /\ opened' = {[scheme |-> scheme, address |-> address, kind |-> kind,
                     target |-> Target(kind, address)]}
  /\ UNCHANGED <<factories, schemes, pending, complete, pluginVars>>

-----------------------------------------------------------------------------
(* PluginManager                                                           *)

is_builtin_protocol(name) == name \in {"tcp", "websocket", "quic"}

\* Mutant: only the registry's own check is made.
RegisterAnyPlugin(name) ==
  /\ name \notin plugins
  /\ plugins' = plugins \cup {name}
  /\ UNCHANGED <<registryVars, allow_override, served>>

RegisterPlugin(name) ==
  /\ allow_override \/ ~is_builtin_protocol(name)
  /\ name \notin plugins
  /\ plugins' = plugins \cup {name}
  /\ UNCHANGED <<registryVars, allow_override, served>>

UnregisterPlugin(name) ==
  /\ name \in plugins
  /\ plugins' = plugins \ {name}
  /\ UNCHANGED <<registryVars, allow_override, served>>

\* create_server_with_plugin: builtin protocols are listed, but not found here.
CreateServer(name) ==
  /\ name \in plugins
  /\ served' = {name}
  /\ UNCHANGED <<registryVars, plugins, allow_override>>

-----------------------------------------------------------------------------
Next ==
  \/ \E c \in Callers : \/ \E f \in Factories : RegisterName(c, f)
                        \/ RegisterSchemes(c) \/ Cancel(c)
  \/ \E s \in Schemes \cup {Bare}, a \in Addresses : CreateConnection(s, a)
  \/ \E n \in PluginNames :
       RegisterPlugin(n) \/ UnregisterPlugin(n) \/ CreateServer(n)

Spec == Init /\ [][Next]_vars

-----------------------------------------------------------------------------
(* Properties                                                              *)

(* A registration that returned Ok is complete: its name and every scheme   *)
(* lead to this factory, whatever other tasks register meanwhile, and so    *)
(* it stays.                                                                *)
OkMeansComplete ==
  \A f \in complete :
    /\ f.name \in DOMAIN factories /\ factories[f.name] = f
    /\ \A s \in Range(f.schemes) : s \in DOMAIN schemes /\ schemes[s] = f

(* A factory found by a scheme is the one registered under its name, even   *)
(* if its registration failed half-way.                                     *)
SchemesNamed ==
  \A s \in DOMAIN schemes :
    LET f == schemes[s] IN f.name \in DOMAIN factories /\ factories[f.name] = f

(* A connection made for a URI leads to the address in it, except that a    *)
(* WebSocket factory connects to the address of its config.                 *)
ConnectsToUri ==
  \A c \in opened : c.kind # "websocket" => c.target = c.address

(* Servers of builtin protocols are not built by plugins, unless the        *)
(* manager was created with_override.                                       *)
BuiltinsKept == allow_override \/ \A n \in served : ~is_builtin_protocol(n)
=============================================================================
