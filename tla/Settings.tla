------------------------------- MODULE Settings -------------------------------
(***************************************************************************)
(* The protocol configurations (src/src/protocol/client_config.rs and      *)
(* server_config.rs): a config starts as a default or a preset, with_*     *)
(* calls replace fields, build validates, and merge lays one config over   *)
(* another.  merge does not know which fields of the upper config were     *)
(* chosen: it guesses from their values, by a rule of its own per field.   *)
(*                                                                         *)
(* A field's value is "usual" for the default of a number, a text or an    *)
(* optional value, "other" for a different one, "alike" for one that       *)
(* differs from the default only where merge does not look (the host but   *)
(* not the port, the retry interval but not max_retries), "bad" for one    *)
(* that validate refuses, "none" for no value, and "on" or "off".          *)
(***************************************************************************)
EXTENDS Naturals

CONSTANTS
  Protocols,   \* the protocols, each with a client and a server config
  MaxChoices   \* bound: calls of setters

VARIABLES
  role,        \* <<"client" or "server", protocol>>
  config,      \* "base" and "over", the config laid over it
  chosen,      \* the fields of each that presets and setters have set
  built,       \* configs that build has returned, unchanged since
  stage,       \* "edit", then "merged"
  intended     \* once merged: what had been chosen last for each field

vars == <<role, config, chosen, built, stage, intended>>

-----------------------------------------------------------------------------
(* The defaults                                                            *)

TcpClientDefault ==
  [target_address |-> "usual", connect_timeout |-> "usual", nodelay |-> "on",
   keepalive |-> "usual", read_buffer_size |-> "usual", write_buffer_size |-> "usual",
   read_timeout |-> "usual", write_timeout |-> "usual", retry_config |-> "usual",
   local_bind_address |-> "none"]

WebSocketClientDefault ==
  [target_url |-> "usual", connect_timeout |-> "usual", headers |-> "none",
   subprotocols |-> "none", max_frame_size |-> "usual", max_message_size |-> "usual",
   ping_interval |-> "usual", pong_timeout |-> "usual", retry_config |-> "usual",
   verify_tls |-> "on"]

QuicClientDefault ==
  [target_address |-> "usual", server_name |-> "none", connect_timeout |-> "usual",
   verify_certificate |-> "off", ca_cert_pem |-> "none",
   max_concurrent_streams |-> "usual", max_idle_timeout |-> "usual",
   keep_alive_interval |-> "usual", initial_rtt |-> "usual",
   retry_config |-> "usual", local_bind_address |-> "none"]

TcpServerDefault ==
  [bind_address |-> "usual", max_connections |-> "usual", nodelay |-> "on",
   keepalive |-> "usual", read_buffer_size |-> "usual", write_buffer_size |-> "usual",
   accept_timeout |-> "usual", idle_timeout |-> "usual", reuse_port |-> "off",
   reuse_addr |-> "on"]

WebSocketServerDefault ==
  [bind_address |-> "usual", path |-> "usual", subprotocols |-> "none",
   max_frame_size |-> "usual", max_message_size |-> "usual", ping_interval |-> "usual",
   pong_timeout |-> "usual", max_connections |-> "usual", idle_timeout |-> "usual"]

QuicServerDefault ==
  [bind_address |-> "usual", cert_pem |-> "none", key_pem |-> "none",
   max_concurrent_streams |-> "usual", max_idle_timeout |-> "usual",
   keep_alive_interval |-> "usual", initial_rtt |-> "usual",
   max_connections |-> "usual", receive_window |-> "usual", send_window |-> "usual"]

Default ==
  CASE role = <<"client", "tcp">> -> TcpClientDefault
    [] role = <<"client", "websocket">> -> WebSocketClientDefault
    [] role = <<"client", "quic">> -> QuicClientDefault
    [] role = <<"server", "tcp">> -> TcpServerDefault
    [] role = <<"server", "websocket">> -> WebSocketServerDefault
    [] role = <<"server", "quic">> -> QuicServerDefault

-----------------------------------------------------------------------------
(* The setters: the values each field can be given                         *)

Number == {"usual", "other"}
Counted == Number \cup {"bad"}
Option == Number \cup {"none"}
Maybe == {"none", "other"}
Some == {"other"}
Flag == {"on", "off"}
Coarse == Number \cup {"alike"}

TcpClientSetters ==
  [target_address |-> Coarse, connect_timeout |-> Number, nodelay |-> Flag,
   keepalive |-> Option, read_buffer_size |-> Counted, write_buffer_size |-> Counted,
   read_timeout |-> Option, write_timeout |-> Option,
   retry_config |-> Coarse \cup {"bad"}, local_bind_address |-> Maybe]

WebSocketClientSetters ==
  [target_url |-> Counted, connect_timeout |-> Number, headers |-> Maybe,
   subprotocols |-> Maybe, max_frame_size |-> Counted, max_message_size |-> Counted,
   ping_interval |-> Option, pong_timeout |-> Number, retry_config |-> Coarse,
   verify_tls |-> Flag]

QuicClientSetters ==
  [target_address |-> Coarse, server_name |-> Some, connect_timeout |-> Number,
   verify_certificate |-> Flag, ca_cert_pem |-> Some,
   max_concurrent_streams |-> Counted, max_idle_timeout |-> Number,
   keep_alive_interval |-> Option, initial_rtt |-> Number,
   retry_config |-> Coarse, local_bind_address |-> Maybe]

TcpServerSetters ==
  [bind_address |-> Number, max_connections |-> Counted, nodelay |-> Flag,
   keepalive |-> Option, read_buffer_size |-> Number, write_buffer_size |-> Number,
   accept_timeout |-> Number, idle_timeout |-> Option, reuse_port |-> Flag,
   reuse_addr |-> Flag]

WebSocketServerSetters ==
  [bind_address |-> Number, path |-> Number, subprotocols |-> Maybe,
   max_frame_size |-> Number, max_message_size |-> Number, ping_interval |-> Option,
   pong_timeout |-> Number, max_connections |-> Counted, idle_timeout |-> Option]

QuicServerSetters ==
  [bind_address |-> Number, cert_pem |-> Some, key_pem |-> Some,
   max_concurrent_streams |-> Number, max_idle_timeout |-> Number,
   keep_alive_interval |-> Option, initial_rtt |-> Number,
   max_connections |-> Counted, receive_window |-> Number, send_window |-> Number]

Setters ==
  CASE role = <<"client", "tcp">> -> TcpClientSetters
    [] role = <<"client", "websocket">> -> WebSocketClientSetters
    [] role = <<"client", "quic">> -> QuicClientSetters
    [] role = <<"server", "tcp">> -> TcpServerSetters
    [] role = <<"server", "websocket">> -> WebSocketServerSetters
    [] role = <<"server", "quic">> -> QuicServerSetters

Fields == DOMAIN Default

-----------------------------------------------------------------------------
(* The presets: the fields they set                                        *)

TcpClientPresets ==
  {[nodelay |-> "on", read_buffer_size |-> "other", write_buffer_size |-> "other",
    connect_timeout |-> "other", keepalive |-> "other"],
   [nodelay |-> "on", read_buffer_size |-> "other", write_buffer_size |-> "other",
    connect_timeout |-> "other"],
   [retry_config |-> "other", connect_timeout |-> "other", keepalive |-> "other"]}

WebSocketClientPresets ==
  {[headers |-> "other", subprotocols |-> "other", max_frame_size |-> "other",
    max_message_size |-> "other"],
   [ping_interval |-> "other", pong_timeout |-> "other", max_frame_size |-> "other",
    connect_timeout |-> "other"],
   [max_frame_size |-> "other", max_message_size |-> "other",
    ping_interval |-> "none", connect_timeout |-> "other"]}

QuicClientPresets ==
  {[max_concurrent_streams |-> "other", initial_rtt |-> "other", connect_timeout |-> "other"],
   [initial_rtt |-> "other", keep_alive_interval |-> "other", max_idle_timeout |-> "other"],
   [verify_certificate |-> "off", server_name |-> "other"]}

QuicServerInsecure == {[cert_pem |-> "other", key_pem |-> "other"]}

Presets ==
  CASE role = <<"client", "tcp">> -> TcpClientPresets
    [] role = <<"client", "websocket">> -> WebSocketClientPresets
    [] role = <<"client", "quic">> -> QuicClientPresets
    [] role = <<"server", "quic">> -> QuicServerInsecure
    [] OTHER -> {}

-----------------------------------------------------------------------------
(* validate: the fields it looks at                                        *)

TcpClientValidated == {"read_buffer_size", "write_buffer_size", "retry_config"}
WebSocketClientValidated == {"target_url", "max_frame_size", "max_message_size"}
QuicClientValidated == {"max_concurrent_streams"}
ServerValidated == {"max_connections"}

Validated ==
  CASE role = <<"client", "tcp">> -> TcpClientValidated
    [] role = <<"client", "websocket">> -> WebSocketClientValidated
    [] role = <<"client", "quic">> -> QuicClientValidated
    [] OTHER -> ServerValidated

Valid(c) == \A f \in Validated : c[f] # "bad"

-----------------------------------------------------------------------------
(* merge: the values of the upper config that replace the lower one's.     *)
(* What is compared with the default is taken if it differs, an option if  *)
(* it is present, a flag if it is off, the server's nodelay always.        *)

Differing == {"other", "bad"}
Present == {"usual", "other"}

TcpClientMerge ==
  [target_address |-> Differing, connect_timeout |-> Differing, nodelay |-> {"off"},
   keepalive |-> Present, read_buffer_size |-> Differing, write_buffer_size |-> Differing,
   read_timeout |-> Present, write_timeout |-> Present, retry_config |-> Differing,
   local_bind_address |-> Present]

WebSocketClientMerge ==
  [target_url |-> Differing, connect_timeout |-> Differing, headers |-> Present,
   subprotocols |-> Present, max_frame_size |-> Differing, max_message_size |-> Differing,
   ping_interval |-> Present, pong_timeout |-> Differing, retry_config |-> Differing,
   verify_tls |-> {"off"}]

\* Mutant: a server name is taken only from a config that has none.
QuicClientMergeNoName ==
  [target_address |-> Differing, server_name |-> {"none"}, connect_timeout |-> Differing,
   verify_certificate |-> {"off"}, ca_cert_pem |-> Present,
   max_concurrent_streams |-> Differing, max_idle_timeout |-> Differing,
   keep_alive_interval |-> Present, initial_rtt |-> Differing,
   retry_config |-> Differing, local_bind_address |-> Present]

QuicClientMerge ==
  [target_address |-> Differing, server_name |-> Present, connect_timeout |-> Differing,
   verify_certificate |-> {"off"}, ca_cert_pem |-> Present,
   max_concurrent_streams |-> Differing, max_idle_timeout |-> Differing,
   keep_alive_interval |-> Present, initial_rtt |-> Differing,
   retry_config |-> Differing, local_bind_address |-> Present]

TcpServerMerge ==
  [bind_address |-> Differing, max_connections |-> Differing,
   nodelay |-> {"on", "off"}, keepalive |-> Present]
WebSocketServerMerge ==
  [bind_address |-> Differing, path |-> Differing, subprotocols |-> Present]
QuicServerMerge ==
  [bind_address |-> Differing, cert_pem |-> Present, key_pem |-> Present]

Taken ==
  CASE role = <<"client", "tcp">> -> TcpClientMerge
    [] role = <<"client", "websocket">> -> WebSocketClientMerge
    [] role = <<"client", "quic">> -> QuicClientMerge
    [] role = <<"server", "tcp">> -> TcpServerMerge
    [] role = <<"server", "websocket">> -> WebSocketServerMerge
    [] role = <<"server", "quic">> -> QuicServerMerge

-----------------------------------------------------------------------------
Sides == {"base", "over"}
Values == {"usual", "other", "alike", "bad", "none", "on", "off"}
Override(c, part) == [f \in DOMAIN c |-> IF f \in DOMAIN part THEN part[f] ELSE c[f]]

TypeOK ==
  /\ role \in {"client", "server"} \X Protocols
  /\ LET setters == Setters  default == Default
     IN  \A s \in Sides : \A f \in Fields : config[s][f] \in setters[f] \cup {default[f]}
  /\ chosen \in [Sides -> SUBSET Fields] /\ built \subseteq Sides
  /\ stage \in 0..(MaxChoices + 1)
  /\ intended \in [Fields -> Values]

\* new, default_config, or one of the presets.
Init ==
  /\ role \in {"client", "server"} \X Protocols
  /\ \E start \in [Sides -> Presets \cup {[f \in {} |-> "usual"]}] :
       /\ config = [s \in Sides |-> Override(Default, start[s])]
       /\ chosen = [s \in Sides |-> DOMAIN start[s]]
  /\ built = {} /\ stage = 0 /\ intended = Default

Choose(s) ==
  /\ stage < MaxChoices
  /\ \E f \in Fields : \E v \in Setters[f] :
       /\ config' = [config EXCEPT ![s][f] = v]
       /\ chosen' = [chosen EXCEPT ![s] = @ \cup {f}]
  /\ built' = built \ {s} /\ stage' = stage + 1
  /\ UNCHANGED <<role, intended>>

\* Mutant: build returns what validate was not asked about.
BuildUnchecked(s) ==
  /\ stage <= MaxChoices
  /\ built' = built \cup {s}
  /\ UNCHANGED <<role, config, chosen, stage, intended>>

\* validate must pass; otherwise the caller is left without a config.
Build(s) ==
  /\ stage <= MaxChoices /\ Valid(config[s])
  /\ built' = built \cup {s}
  /\ UNCHANGED <<role, config, chosen, stage, intended>>

\* base.merge(over)
Merge ==
  /\ stage <= MaxChoices
  /\ LET over == config["over"]
         taken == {f \in DOMAIN Taken : over[f] \in Taken[f]}
     IN  /\ config' = [config EXCEPT !["base"] =
                         [f \in Fields |-> IF f \in taken THEN over[f] ELSE @[f]]]
         /\ intended' = [f \in Fields |->
                           IF f \in chosen["over"] THEN over[f] ELSE config["base"][f]]
  /\ stage' = MaxChoices + 1
  /\ UNCHANGED <<role, chosen, built>>

Next == Merge \/ \E s \in Sides : Choose(s) \/ Build(s)

Spec == Init /\ [][Next]_vars

-----------------------------------------------------------------------------
(* Properties                                                              *)

Merged == stage = MaxChoices + 1

\* Fields of the upper config that merge takes untouched as well: options whose
\* default is a value, verify_certificate, which is off by default, and nodelay of
\* a server.
Imposed ==
  IF role[1] = "client"
  THEN {"keepalive", "read_timeout", "write_timeout", "ping_interval",
        "keep_alive_interval", "verify_certificate"}
  ELSE {"nodelay", "keepalive"}

\* Fields of server configs that merge leaves out.
Forgotten ==
  IF role[1] = "client" THEN {}
  ELSE Fields \ ({"bind_address", "nodelay", "keepalive", "path", "cert_pem", "key_pem"} \cup
                 (IF role[2] = "tcp" THEN {"max_connections"} ELSE {}) \cup
                 (IF role[2] = "websocket" THEN {"subprotocols"} ELSE {}))

\* The choices of the upper config that merge passes over: an option without value,
\* an empty list, the default port or number of retries with other details; the
\* default chosen again; what a client switches on; and the forgotten fields.
PassedOver(f) ==
  /\ f \in chosen["over"]
  /\ \/ config["over"][f] \in {"none", "alike"}
     \/ config["over"][f] = "usual" /\ f \notin Imposed
     \/ config["over"][f] = "on" /\ role[1] = "client"
     \/ f \in Forgotten

(* The merged config has, for each field, what was chosen last, by a preset *)
(* or a setter, and nothing else gets lost than                             *)
(*  - a choice of the upper config that merge passes over: for example      *)
(*    verify_certificate or nodelay set to true, the file_transfer preset's *)
(*    ping_interval of None, a target address with the default port, or any *)
(*    of the server fields that merge does not mention, and                 *)
(*  - a choice of the lower config for a field that the upper config never  *)
(*    touched, if the default of the upper config is imposed there: for     *)
(*    example verify_certificate = true under a default config.             *)
(* So every other value of an upper config arrives, also in the fields that *)
(* are imposed: the keepalives, timeouts and intervals of the presets.      *)
ChoicesKept ==
  Merged => \A f \in Fields :
    \/ config["base"][f] = intended[f]
    \/ PassedOver(f)
    \/ f \in Imposed \ chosen["over"]

(* Merging two configs that were built, and not changed since, gives one    *)
(* that build would accept.                                                 *)
MergedValid == Merged /\ built = Sides => Valid(config["base"])
=============================================================================
