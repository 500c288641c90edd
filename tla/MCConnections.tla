--------------------------- MODULE MCConnections ---------------------------
EXTENDS Connections

Tls(verification, class) == [verification |-> verification, class |-> class]
Service(kind_, host, port_, tls, credentials) ==
    [kind |-> kind_, host |-> host, port |-> port_, tls |-> tls, credentials |-> credentials, root_path |-> <<"">>]
SecretClass(class, scope) == [class |-> class, scope |-> scope]

MCServices ==
    {Service(k, "host", None, t, c) :
        k \in {"s3", "ldap"}, t \in {None, Tls("none", None), Tls("secretClass", "c1"), Tls("secretClass", "c2")},
        c \in {None, SecretClass("c1", None), SecretClass("c1", "pod"), SecretClass("c2", None)}}
    \cup {Service(k, h, p, t, None) :
        k \in {"s3", "ldap"}, h \in {"v4", "v6"}, p \in {None, 80, 443, 389, 1234}, t \in {None, Tls("webPki", None)}}
    \cup {[Service("oidc", "host", p, t, None) EXCEPT !.root_path = r] :
        p \in {None, 80, 443}, t \in {None, Tls("webPki", None)}, r \in {<<"">>, <<"realms", "r", "", "">>}}

Reference(name) == [inline |-> FALSE, name |-> name]
InlineConnection(spec) == [inline |-> TRUE, spec |-> spec]

MCResources ==
    [connections |-> [conn |-> Service("s3", "host", None, Tls("secretClass", "c2"), SecretClass("c1", None))],
     buckets |-> [bucket |-> Reference("conn"), dangling |-> Reference("gone")],
     references |-> {Reference("bucket"), Reference("dangling"), Reference("missing"),
                     [inline |-> TRUE, connection |-> Reference("conn")],
                     [inline |-> TRUE, connection |-> InlineConnection(Service("s3", "v6", None, None, None))]}]

Database(database, driver, name, secret, location) ==
    [database |-> database, driver |-> driver, name |-> name, secret |-> secret, location |-> location]

MCDatabases ==
    {Database(d[1], d[2], n, s, None) :
        d \in {<<"postgresql", "jdbc">>, <<"postgresql", "celery">>, <<"redis", "celery">>, <<"generic", "sqlalchemy">>},
        n \in {"metadata", "METADATA", "QUEUE"}, s \in {"s1", "s2"}}
    \cup {Database("derby", "jdbc", n, None, l) : n \in {"METADATA", "QUEUE"}, l \in {None, <<"/data">>}}

=============================================================================
