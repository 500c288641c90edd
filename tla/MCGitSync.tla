----------------------------- MODULE MCGitSync -----------------------------
EXTENDS GitSync, MCConnections

Sync(scheme, conf, credentials, tls) ==
    [repo |-> [scheme |-> scheme], git_folder |-> <<"/", "dags">>, git_sync_conf |-> conf,
     credentials |-> credentials, tls |-> tls]

MCSyncs ==
    {Sync(s, c, k, t) :
        s \in {"https", "http"},
        c \in {<<>>, "--depth" :> "user" @@ "--git-config" :> "user", "--rev" :> "user" @@ "--root" :> <<"user">>},
        k \in {None, [type |-> "basicAuth", secret |-> ""], [type |-> "basicAuth", secret |-> "s"], [type |-> "ssh", secret |-> "s"]},
        t \in {None, Tls("none", None), Tls("webPki", None), Tls("secretClass", "c1")}}

MCGitSyncs ==
    {<<>>} \cup {<<s>> : s \in MCSyncs}
    \cup {<<s, t>> : s \in {x \in MCSyncs : x.git_sync_conf = <<>>}, t \in {x \in MCSyncs : x.repo.scheme = "https"}}

MCExtraMounts ==
    {<<>>, <<[name |-> <<"extra">>, path |-> <<"/extra">>]>>, <<[name |-> <<"extra">>, path |-> <<"/tmp/git">>]>>}

MCExtraEnvVars == {<<>>, "A=B" :> <<"value">>, [GITSYNC_PASSWORD |-> <<"other">>, HOME |-> <<"home">>]}

=============================================================================
