------------------------------ MODULE Startup ------------------------------
(***************************************************************************)
(* An instance starts (server/main.rs run): its settings are read from a    *)
(* file, the environment and the flags (config/raw.rs), resolved into a     *)
(* configuration or refused (config/resolve.rs), and wired one part after   *)
(* the other, each of which can fail; then its listeners serve.             *)
(*                                                                          *)
(* A name is the sequence of its words, so that a section's prefix is a     *)
(* concatenation.  A value is of the kind a setting takes, a path, a list,  *)
(* an address, a number, an http:// URL ("a", "b"), an https:// URL         *)
(* ("https"), a list without entries (","), a Boolean ("yes", "no"), text   *)
(* that parses as none ("bad"), or empty ("").                              *)
(***************************************************************************)
EXTENDS Naturals, Sequences

CONSTANTS
  Missing,      \* not set
  Launches      \* what instances are started with: [file, env, flags, path_flag, path_env, world]

\* A file is a list of lines and the flags are a list.
ASSUME StartupAssumption ==
  \A l \in Launches :
    /\ Len(l.file) \in Nat /\ Len(l.flags) \in Nat
    /\ DOMAIN l.file = 1 .. Len(l.file) /\ DOMAIN l.flags = 1 .. Len(l.flags)
    /\ \A n \in DOMAIN l.file : l.file[n].kind \in {"section", "malformed", "setting"}

VARIABLE boot   \* the start in hand: how far it is, what it resolved, what it wired

-----------------------------------------------------------------------------
(* Settings. *)

Prefixed(p, names) == {<<p>> \o n : n \in names}

KafkaKeys == {<<"kafka", "brokers">>, <<"topic">>, <<"kafka", "ca">>, <<"kafka", "client", "cert">>, <<"kafka", "client", "key">>}

KEYS ==
  {<<"bind">>, <<"grpc", "bind">>, <<"upstream">>, <<"index">>, <<"tokens">>, <<"allow", "cleartext", "mutation">>,
   <<"log", "requests">>, <<"otlp", "endpoint">>, <<"service", "name">>, <<"diag", "baseline">>,
   <<"debug", "directive", "key">>, <<"directive", "admin", "token">>, <<"debug", "endpoints">>,
   <<"log", "diagnostic", "captures">>, <<"tenant", "metrics", "enabled">>, <<"cursor", "affinity", "key">>,
   <<"forward", "client", "headers">>, <<"forward", "header", "deny">>,
   <<"admin", "passthrough", "cluster">>, <<"admin", "passthrough", "prefixes">>, <<"admin", "passthrough", "endpoint">>}
    \cup Prefixed("tls", {<<"cert">>, <<"key">>, <<"client", "ca">>})
    \cup Prefixed("upstream", {<<"tls", "ca">>, <<"tls", "cert">>, <<"tls", "key">>})
    \cup Prefixed("passthrough", {<<"cluster">>, <<"endpoint">>, <<"indices">>})
    \cup Prefixed("capture", KafkaKeys \cup {<<"default">>, <<"redact">>, <<"max", "inflight">>, <<"max", "attempts">>,
                                             <<"backoff", "ms">>, <<"wal", "dir">>, <<"wal", "max", "bytes">>})
    \cup Prefixed("fanout", KafkaKeys \cup {<<"body", "encoding">>, <<"async", "default">>, <<"expand", "delete", "by", "query">>})
    \cup Prefixed("etcd", {<<"endpoints">>, <<"directives", "key">>})

\* canonical_in(): under a section, the name with its prefix before the name as it is.
canonical_in(section, name) ==
  IF section # <<>> /\ section \o name \in KEYS THEN section \o name
  ELSE IF name \in KEYS THEN name ELSE <<>>

\* An empty value sets nothing.
Blank == ""
set(raw, key, value) ==
  IF value = Blank THEN raw ELSE [k \in DOMAIN raw \cup {key} |-> IF k = key THEN value ELSE raw[k]]

NoRaw == [k \in {} |-> Blank]

\* from_file(): a line is a section's header, a setting, or neither ("malformed").
Unread == [section |-> <<>>, raw |-> NoRaw, refused |-> FALSE]

file_line(acc, l) ==
  IF acc.refused THEN acc
  ELSE IF l.kind = "section" THEN [acc EXCEPT !.section = l.name]
  ELSE LET k == canonical_in(acc.section, l.name) IN
       IF l.kind = "malformed" \/ k = <<>> THEN [acc EXCEPT !.refused = TRUE]
       ELSE [acc EXCEPT !.raw = set(@, k, l.value)]

lines_read(lines) ==
  LET read[n \in 0 .. Len(lines)] == IF n = 0 THEN Unread ELSE file_line(read[n - 1], lines[n]) IN read

from_file(lines) == lines_read(lines)[Len(lines)]

\* from_flags(): a flag has a known name and a value.
flag(acc, f) ==
  IF acc.refused \/ f.name \notin KEYS \/ f.value = Missing THEN [acc EXCEPT !.refused = TRUE]
  ELSE [acc EXCEPT !.raw = set(@, f.name, f.value)]

flags_read(flags) ==
  LET read[n \in 0 .. Len(flags)] == IF n = 0 THEN Unread ELSE flag(read[n - 1], flags[n]) IN read

from_flags(flags) == flags_read(flags)[Len(flags)]

\* from_env(): the known names are looked up, others never seen.
from_env(env) == [k \in {k \in KEYS \cap DOMAIN env : env[k] # Blank} |-> env[k]]

\* What the upper layer sets, else what the lower one does.
over(upper, lower) ==
  [k \in DOMAIN upper \cup DOMAIN lower |-> IF k \in DOMAIN upper THEN upper[k] ELSE lower[k]]

layered(file, env, flags) == over(flags, over(env, file))

\* The file named by the last --config, or else by OSPROXY_CONFIG if that is not empty.
config_path(l) == IF l.path_flag # Missing THEN l.path_flag ELSE IF l.path_env = Blank THEN Missing ELSE l.path_env

-----------------------------------------------------------------------------
(* resolve().  Sections that refuse what they read say so beside their value. *)

value(raw, key) == IF key \in DOMAIN raw THEN raw[key] ELSE Missing
given(raw, key) == key \in DOMAIN raw
csv(raw, key) == value(raw, key) \notin {Missing, ","}
bool_or(raw, key, default) == IF given(raw, key) THEN raw[key] = "yes" ELSE default
bool_refused(raw, key) == value(raw, key) \notin {Missing, "yes", "no"}
parse_refused(raw, key) == value(raw, key) \notin {Missing, "a", "b"}

BoolKeys == {<<"allow", "cleartext", "mutation">>, <<"log", "requests">>, <<"debug", "endpoints">>,
             <<"log", "diagnostic", "captures">>, <<"tenant", "metrics", "enabled">>,
             <<"forward", "client", "headers">>, <<"capture", "default">>}

\* tokens(): entries are token=principal; none leaves authentication off.
tokens(raw) == csv(raw, <<"tokens">>)

tls_refused(raw) ==
  \/ given(raw, <<"tls", "cert">>) # given(raw, <<"tls", "key">>)
  \/ given(raw, <<"tls", "client", "ca">>) /\ ~given(raw, <<"tls", "cert">>)

\* The files ingress TLS is made from.
tls(raw) == {value(raw, <<"tls">> \o k) : k \in {<<"cert">>, <<"key">>, <<"client", "ca">>}} \ {Missing}

upstream_tls_refused(raw) ==
  LET has(k) == given(raw, <<"upstream", "tls", k>>) IN
  \/ has("cert") # has("key")
  \/ has("cert") /\ ~has("ca")

kafka_tls_refused(raw, p) ==
  LET has(k) == given(raw, <<p, "kafka">> \o k) IN
  \/ has(<<"client", "cert">>) # has(<<"client", "key">>)
  \/ has(<<"client", "cert">>) /\ ~has(<<"ca">>)

fanout_tls_refused(raw) == kafka_tls_refused(raw, "fanout")
capture_tls_refused(raw) == kafka_tls_refused(raw, "capture")

kafka_files(raw, p) ==
  {value(raw, <<p, "kafka">> \o k) : k \in {<<"ca">>, <<"client", "cert">>, <<"client", "key">>}} \ {Missing}

kafka_on(raw, p) == given(raw, <<p, "kafka", "brokers">>) /\ given(raw, <<p, "topic">>)

\* What fanout() and capture() have in common.
kafka_refused(raw, p) ==
  \/ given(raw, <<p, "kafka", "brokers">>) # given(raw, <<p, "topic">>)
  \/ ~kafka_on(raw, p) /\ given(raw, <<p, "kafka", "ca">>)
  \/ kafka_on(raw, p) /\ ~csv(raw, <<p, "kafka", "brokers">>)

fanout_refused(raw) ==
  \/ kafka_refused(raw, "fanout")
  \/ /\ kafka_on(raw, "fanout")
     /\ \/ fanout_tls_refused(raw)
        \/ parse_refused(raw, <<"fanout", "body", "encoding">>)
        \/ bool_refused(raw, <<"fanout", "async", "default">>)
        \/ bool_refused(raw, <<"fanout", "expand", "delete", "by", "query">>)

capture_refused(raw) ==
  \/ kafka_refused(raw, "capture")
  \/ /\ kafka_on(raw, "capture")
     /\ \/ capture_tls_refused(raw) \/ bool_refused(raw, <<"capture", "redact">>)
        \/ \E k \in {<<"max", "inflight">>, <<"max", "attempts">>, <<"backoff", "ms">>, <<"wal", "max", "bytes">>} :
             parse_refused(raw, <<"capture">> \o k)

etcd(raw) == csv(raw, <<"etcd", "endpoints">>)
etcd_refused(raw) == ~etcd(raw) /\ given(raw, <<"etcd", "directives", "key">>)

passthrough_refused(raw) == given(raw, <<"passthrough", "cluster">>) # given(raw, <<"passthrough", "endpoint">>)

resolve_refused(raw) ==
  \/ \E k \in {<<"bind">>, <<"grpc", "bind">>, <<"diag", "baseline">>} : parse_refused(raw, k)
  \/ csv(raw, <<"tokens">>) /\ parse_refused(raw, <<"tokens">>)
  \/ \E k \in BoolKeys : bool_refused(raw, k)
  \/ tls_refused(raw) \/ upstream_tls_refused(raw) \/ passthrough_refused(raw)
  \/ capture_refused(raw) \/ fanout_refused(raw) \/ etcd_refused(raw)

\* How a peer is spoken to: in the clear, over TLS, or with a certificate of one's own.
posture(ca, cert) == IF cert THEN "mtls" ELSE IF ca THEN "tls" ELSE "clear"

\* The scheme of the upstream's URL, which is http:// if no URL is set.
https(raw) == value(raw, <<"upstream">>) = "https"

\* MaybeTlsConnector: the URL's scheme decides.  An http:// upstream is spoken to in the
\* clear whatever TLS is configured; an https:// one without TLS configured is not spoken
\* to at all.
upstream_link(c) ==
  IF ~c.https THEN "clear" ELSE IF c.upstream_tls = "clear" THEN "closed" ELSE c.upstream_tls

\* A client CA makes the listeners ask for certificates.
server_config(raw) == posture(given(raw, <<"tls", "cert">>), given(raw, <<"tls", "client", "ca">>))

resolve_config(raw) ==
  [require_tls |-> ~bool_or(raw, <<"allow", "cleartext", "mutation">>, FALSE),
   auth |-> IF tokens(raw) THEN "token" ELSE "dev",
   grpc |-> given(raw, <<"grpc", "bind">>),
   tls_files |-> tls(raw),
   tls |-> server_config(raw),
   upstream_files |-> {value(raw, <<"upstream", "tls", k>>) : k \in {"ca", "cert", "key"}} \ {Missing},
   upstream_tls |-> posture(given(raw, <<"upstream", "tls", "ca">>), given(raw, <<"upstream", "tls", "cert">>)),
   https |-> https(raw),
   etcd |-> etcd(raw),
   capture |-> kafka_on(raw, "capture"), fanout |-> kafka_on(raw, "fanout"),
   capture_tls |-> posture(given(raw, <<"capture", "kafka", "ca">>), given(raw, <<"capture", "kafka", "client", "cert">>)),
   fanout_tls |-> posture(given(raw, <<"fanout", "kafka", "ca">>), given(raw, <<"fanout", "kafka", "client", "cert">>)),
   capture_files |-> kafka_files(raw, "capture"), fanout_files |-> kafka_files(raw, "fanout"),
   redact |-> bool_or(raw, <<"capture", "redact">>, TRUE),
   wal |-> given(raw, <<"capture", "wal", "dir">>),
   admin_token |-> given(raw, <<"directive", "admin", "token">>),
   passthrough |-> given(raw, <<"passthrough", "cluster">>),
   admin |-> given(raw, <<"admin", "passthrough", "cluster">>)]

-----------------------------------------------------------------------------
(* run(). *)

Unwired == [upstream |-> "off", directives |-> "off", publish |-> FALSE, pipeline |-> {}, fanout |-> "off", capture |-> "off",
            sealed |-> "off", http |-> "off", grpc |-> "off"]

Begin(l) == [pc |-> "load", launch |-> l, raw |-> NoRaw, cfg |-> Missing, on |-> Unwired]

to(pc, on) == boot' = [boot EXCEPT !.pc = pc, !.on = on]
refuse == boot' = [boot EXCEPT !.pc = "refused"]
\* Can be read, and hold what they should.
readable(files) == files \subseteq boot.launch.world.files

\* Config::load().
load_config ==
  LET l == boot.launch
      path == config_path(l)
      file == from_file(IF path = Missing THEN <<>> ELSE l.file)
      flags == from_flags(l.flags)
      raw == layered(file.raw, from_env(l.env), flags.raw)
  IN /\ boot.pc = "load"
     /\ IF \/ path # Missing /\ path \notin l.world.files
           \/ file.refused \/ flags.refused \/ resolve_refused(raw)
        THEN refuse
        ELSE boot' = [boot EXCEPT !.pc = "upstream", !.raw = raw, !.cfg = resolve_config(raw)]

load_upstream_tls ==
  /\ boot.pc = "upstream"
  /\ IF readable(boot.cfg.upstream_files)
     THEN to("directives", [boot.on EXCEPT !.upstream = upstream_link(boot.cfg)]) ELSE refuse

\* The in-memory store is published to by the admin endpoint; etcd's is not.
directive_store ==
  /\ boot.pc = "directives"
  /\ IF ~boot.cfg.etcd THEN to("pipeline", [boot.on EXCEPT !.directives = "memory"])
     ELSE IF {"etcd"} \subseteq boot.launch.world.features \cap boot.launch.world.peers
     THEN to("pipeline", [boot.on EXCEPT !.directives = "etcd"]) ELSE refuse

assemble_pipeline ==
  /\ boot.pc = "pipeline"
  /\ to("fanout", [boot.on EXCEPT !.pipeline = {p \in {"passthrough", "admin"} : boot.cfg[p]}])

\* A part can be attached if it was built in, its TLS files can be read and its brokers
\* answer.
attached(part, files) ==
  part \in boot.launch.world.features /\ readable(files) /\ part \in boot.launch.world.peers

fanout_attach ==
  /\ boot.pc = "fanout"
  /\ IF ~boot.cfg.fanout THEN to("capture", boot.on)
     ELSE IF attached("fanout", boot.cfg.fanout_files) THEN to("capture", [boot.on EXCEPT !.fanout = boot.cfg.fanout_tls]) ELSE refuse

\* with_capture() and with_directive_admin().  A log on disk can fail to open.
capture_attach ==
  LET on == [boot.on EXCEPT !.publish = (boot.on.directives = "memory") /\ boot.cfg.admin_token]
  IN /\ boot.pc = "capture"
     /\ IF ~boot.cfg.capture THEN to("bind", on)
        ELSE IF attached("capture", boot.cfg.capture_files) /\ (boot.cfg.wal => "disk" \in boot.launch.world.peers)
        THEN to("bind", [on EXCEPT !.capture = boot.cfg.capture_tls, !.sealed = IF boot.cfg.redact THEN "redacted" ELSE "whole"])
        ELSE refuse

bind == boot.pc = "bind" /\ IF "http" \in boot.launch.world.ports THEN to("tls", boot.on) ELSE refuse

\* Mutant, in no specification.
load_tls_provider_lenient ==
  /\ boot.pc = "tls"
  /\ boot' = [boot EXCEPT !.pc = "grpc", !.cfg.tls = IF readable(boot.cfg.tls_files) THEN @ ELSE "clear"]

load_tls_provider == boot.pc = "tls" /\ IF readable(boot.cfg.tls_files) THEN to("grpc", boot.on) ELSE refuse

\* spawn_grpc(): a task of its own, with the same provider and handler.
spawn_grpc ==
  /\ boot.pc = "grpc"
  /\ IF ~boot.cfg.grpc THEN to("serve", boot.on)
     ELSE IF "grpc" \in boot.launch.world.ports THEN to("serve", [boot.on EXCEPT !.grpc = boot.cfg.tls]) ELSE refuse

serve == boot.pc = "serve" /\ to("serving", [boot.on EXCEPT !.http = boot.cfg.tls])

StartupInit == \E l \in Launches : boot = Begin(l)

StartupNext ==
  \/ load_config \/ load_upstream_tls \/ directive_store \/ assemble_pipeline \/ fanout_attach
  \/ capture_attach \/ bind \/ load_tls_provider \/ spawn_grpc \/ serve

StartupSpec == StartupInit /\ [][StartupNext]_boot

-----------------------------------------------------------------------------
(* Properties. *)

\* The section that line n of a file is in.
Headers(lines, n) == {k \in 1 .. n : lines[k].kind = "section"}
SectionAt(lines, n) ==
  IF Headers(lines, n) = {} THEN <<>>
  ELSE lines[CHOOSE k \in Headers(lines, n) : Headers(lines, n) \subseteq 1 .. k].name

\* The settings an operator wrote, in the order of precedence: file, environment, flags.
Mentions(l) ==
  LET lines == IF config_path(l) = Missing THEN <<>> ELSE l.file
      settings == {n \in 1 .. Len(lines) : lines[n].kind = "setting"}
  IN {<<1, n, canonical_in(SectionAt(lines, n), lines[n].name), lines[n].value>> : n \in settings}
       \cup {<<2, 0, k, l.env[k]>> : k \in DOMAIN l.env}
       \cup {<<3, n, l.flags[n].name, l.flags[n].value>> : n \in 1 .. Len(l.flags)}

\* Whether mention n is not before mention m.
UpTo(n, m) == n[1] < m[1] \/ (n[1] = m[1] /\ n[2] <= m[2])

\* The value that the last of them gives.
InForce(mentions) ==
  IF mentions = {} THEN Missing ELSE (CHOOSE m \in mentions : \A n \in mentions : UpTo(n, m))[4]

\* What a start resolves is, for every setting, the last non-empty value of the highest
\* layer that has one: a flag over the environment over the file, however the file spells
\* the name, and an empty value hides nothing below it (config raw.rs, lib.rs load).
Precedence ==
  boot.cfg # Missing =>
    \A k \in KEYS : value(boot.raw, k) = InForce({m \in Mentions(boot.launch) : m[3] = k /\ m[4] # Blank})

\* An instance that serves does what its settings ask for: no part that was asked for is
\* missing, and no link that was to be secured is in the clear, whatever was built in,
\* could be read or answered when it started; else it does not serve at all (server
\* main.rs run, capture.rs, fanout.rs, directive_wiring.rs, config resolve.rs).  The link
\* to the upstream is to be secured if its URL says https: then it is never in the clear,
\* and it has the certificates that were asked for.  upstream_tls_ca alone secures
\* nothing: with an http:// URL, the default, it is read and not used.
StartsWhole ==
  boot.pc = "serving" =>
    LET asked(k) == given(boot.raw, k)
        linked(link, ca, cert) == (asked(ca) => link \in {"tls", "mtls"}) /\ (asked(cert) => link = "mtls")
    IN /\ linked(boot.on.http, <<"tls", "cert">>, <<"tls", "client", "ca">>)
       /\ asked(<<"grpc", "bind">>) => boot.on.grpc = boot.on.http
       /\ https(boot.raw) =>
            /\ boot.on.upstream # "clear"
            /\ linked(boot.on.upstream, <<"upstream", "tls", "ca">>, <<"upstream", "tls", "cert">>)
       /\ \A p \in {"capture", "fanout"} : asked(<<p, "topic">>) =>
            boot.on[p] # "off" /\ linked(boot.on[p], <<p, "kafka", "ca">>, <<p, "kafka", "client", "cert">>)
       /\ asked(<<"etcd", "directives", "key">>) => boot.on.directives = "etcd"

\* An instance that starts does so from the settings in force, and does all they ask for.
StartsAsAsked == Precedence /\ StartsWhole
=============================================================================
