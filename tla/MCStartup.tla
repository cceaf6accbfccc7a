----------------------------- MODULE MCStartup -----------------------------
(* Launches for the runs of Startup.                                          *)
EXTENDS Startup
LOCAL INSTANCE TLC

Setting(name, v) == [kind |-> "setting", name |-> name, value |-> v]
Section(name) == [kind |-> "section", name |-> name, value |-> ""]
Flag(name, v) == [name |-> name, value |-> v]

\* A setting in a layer of its own, over a lower one, hidden by nothing, or not at all.
Ways(section, name) ==
  LET key == section \o name IN
  {[file |-> <<>>, env |-> NoRaw, flags |-> <<>>],
   [file |-> <<Setting(key, "a")>>, env |-> key :> "", flags |-> <<>>],
   [file |-> <<Section(section), Setting(name, "b")>>, env |-> key :> "a", flags |-> <<>>],
   [file |-> <<Section(section), Setting(name, "a"), Setting(key, "b")>>, env |-> key :> "a", flags |-> <<Flag(key, "b"), Flag(key, "")>>]}

Few(section, name) == {w \in Ways(section, name) : w.flags = <<>>}

Both(u, v) == [file |-> u.file \o v.file, env |-> v.env @@ u.env, flags |-> u.flags \o v.flags]
All(us, vs) == {Both(u, v) : u \in us, v \in vs}

Given(section, name, v) == [file |-> <<>>, env |-> (section \o name) :> v, flags |-> <<>>]

\* Settings of one part, with its siblings.
TlsSettings ==
  All(All(Ways(<<"tls">>, <<"cert">>), Ways(<<"tls">>, <<"key">>)),
      All(Few(<<"tls">>, <<"client", "ca">>), {Given(<<>>, <<"index">>, "a"), Given(<<"grpc">>, <<"bind">>, "a")}))
UpstreamSettings ==
  All({Given(<<>>, <<"upstream">>, v) : v \in {"", "a", "https"}}, All(All(Few(<<"upstream">>, <<"tls", "ca">>), Few(<<"upstream">>, <<"tls", "cert">>)), Ways(<<"upstream">>, <<"tls", "key">>)))
KafkaSettings(p) ==
  All(All(All(Few(<<p>>, <<"kafka", "brokers">>) \cup {Given(<<p>>, <<"kafka", "brokers">>, ",")}, Few(<<p>>, <<"topic">>)),
          All(Few(<<p>>, <<"kafka", "ca">>), Few(<<p>>, <<"kafka", "client", "cert">>))),
      Few(<<p>>, <<"kafka", "client", "key">>))
Enabled(p) == Both(Given(<<p>>, <<"kafka", "brokers">>, "a"), Given(<<p>>, <<"topic">>, "a"))
KafkaMore ==
  All({Enabled("capture")}, {Given(<<"capture">>, <<"redact">>, v) : v \in {"yes", "no", "bad"}}
                             \cup {Given(<<"capture">>, <<"wal", "dir">>, "a"), Given(<<"capture">>, <<"max", "inflight">>, "bad")})
    \cup All({Enabled("fanout")}, {Given(<<"fanout">>, <<"body", "encoding">>, "bad"), Given(<<"fanout">>, <<"async", "default">>, "yes")})
OtherSettings ==
  All(Few(<<"etcd">>, <<"endpoints">>) \cup {Given(<<"etcd">>, <<"endpoints">>, ",")}, Few(<<"etcd">>, <<"directives", "key">>))
    \cup All(Few(<<"passthrough">>, <<"cluster">>), All(Few(<<"passthrough">>, <<"endpoint">>), Few(<<"admin", "passthrough">>, <<"cluster">>)))
    \cup {[file |-> <<Section(<<"admin">>), Setting(<<"passthrough", "cluster">>, "a"), Section(<<>>), Setting(<<"index">>, "b")>>, env |-> NoRaw, flags |-> <<>>],
          [file |-> <<Setting(<<"unknown">>, "a")>>, env |-> NoRaw, flags |-> <<>>],
          [file |-> <<[kind |-> "malformed", name |-> <<>>, value |-> ""]>>, env |-> NoRaw, flags |-> <<>>],
          [file |-> <<>>, env |-> NoRaw, flags |-> <<Flag(<<"unknown">>, "a")>>],
          [file |-> <<>>, env |-> NoRaw, flags |-> <<Flag(<<"index">>, Missing)>>]}
    \cup {Given(<<>>, k, v) : k \in {<<"tokens">>, <<"grpc", "bind">>, <<"allow", "cleartext", "mutation">>, <<"directive", "admin", "token">>}, v \in {"a", "yes", "bad", ","}}

Worlds(files, features, peers) == [files : files, features : features, peers : peers, ports : {{"http", "grpc"}, {"http"}, {"grpc"}}]
Every == {"etcd", "capture", "fanout", "disk"}

Launched(settings, worlds, paths) ==
  {[file |-> s.file, env |-> s.env, flags |-> s.flags, path_flag |-> p[1], path_env |-> p[2], world |-> w] :
     s \in settings, w \in worlds, p \in paths}

MCLaunches ==
  Launched(TlsSettings, Worlds({{"f"}, {"a", "f"}, {"a", "b", "f"}}, {{}}, {{}}), {<<Missing, "f">>})
    \cup Launched(UpstreamSettings, Worlds({{"a", "f"}, {"a", "b", "f"}}, {{}}, {{}}), {<<Missing, "f">>})
    \cup Launched(KafkaSettings("capture") \cup KafkaSettings("fanout") \cup KafkaMore \cup OtherSettings,
                  [files : {{"f"}, {"a", "b", "f"}}, features : {{}, Every}, peers : {{"capture"}, Every}, ports : {{"http", "grpc"}}], {<<Missing, "f">>})
    \cup Launched(OtherSettings, Worlds({{"f"}}, {Every}, {Every}), {<<"f", "g">>, <<"g", "f">>, <<Missing, "">>})
=============================================================================
