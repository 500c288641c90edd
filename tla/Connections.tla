---------------------------- MODULE Connections ----------------------------
(***************************************************************************)
(* Connections of a product to other services, and what they add to its    *)
(* pod: S3 connections, LDAP and OIDC providers with their TLS settings    *)
(* (commons/tls_verification.rs, crd/s3, crd/authentication) mount secrets *)
(* in all containers; databases (database_connections) add environment     *)
(* variables that the connection URL refers to.                            *)
(***************************************************************************)
EXTENDS Integers, FiniteSets, PodVolumes

CONSTANTS
    Services,          \* [kind, host, port, tls, credentials, root_path]
    Databases,         \* [database, driver, name, secret, location]
    Resources,         \* the S3Buckets and S3Connections of a namespace
    ContainerCount,        \* how many containers of the pod get the mounts
    MaxConnections     \* bound: connections of one pod

\* the fields of a service have the types of the code; an absent one is None,
\* which is no value of a field
IsService(s) ==
    /\ s.kind \in {"s3", "ldap", "oidc"}
    /\ s.port = None \/ s.port \in Nat
    /\ s.tls # None => s.tls.verification \in {"none", "webPki", "secretClass"}
    /\ s.root_path \in Seq(STRING)

\* InlineConnectionOrReference
IsConnection(c) == c.inline => IsService(c.spec)

ASSUME ConnectionConstants ==
    /\ ContainerCount \in Nat /\ None \notin Nat
    /\ \A s \in Services : IsService(s)
    /\ \A n \in DOMAIN Resources.connections : IsService(Resources.connections[n])
    /\ \A n \in DOMAIN Resources.buckets : IsConnection(Resources.buckets[n])
    /\ \A b \in Resources.references : b.inline => IsConnection(b.connection)

VARIABLES
    wiring,            \* the volumes of the pod, mounts and variables of its containers
    connected          \* the connections so far, each with whether adding it succeeded

connectionVars == <<wiring, connected>>

------------------------------------------------------------------------------
(* TLS: no TLS is None; the verification is "none", "webPki" or "secretClass" *)

uses_tls(tls) == tls # None

uses_tls_verification(tls) == uses_tls(tls) /\ tls.verification # "none"

tls_ca_cert_secret_class(tls) ==
    IF tls # None /\ tls.verification = "secretClass" THEN tls.class ELSE None

SecretPath(class) == <<"/stackable/secrets", class>>

\* SecretClassVolume::to_volume
to_volume(name, volume, parts) ==
    VolumeBuilder_build(name, <<[class |-> volume.class, scope |-> volume.scope, parts |-> parts]>>)

tls_volumes_and_mounts(tls) ==
    LET class == tls_ca_cert_secret_class(tls)
    IN  IF class = None THEN [volumes |-> <<>>, mounts |-> <<>>]
        ELSE [volumes |-> <<to_volume(<<class, "ca-cert">>, [class |-> class, scope |-> None], "public")>>,
              mounts |-> <<VolumeMountBuilder_build(<<class, "ca-cert">>, SecretPath(class), <<>>)>>]

tls_ca_cert_mount_path(tls) ==
    IF tls_ca_cert_secret_class(tls) = None THEN {}
    ELSE {[directory |-> SecretPath(tls_ca_cert_secret_class(tls)), file |-> "ca.crt"]}

------------------------------------------------------------------------------
(* S3 connections and LDAP providers *)

CredentialSuffix == [s3 |-> "s3-credentials", ldap |-> "bind-credentials"]
CredentialFiles == [s3 |-> {"accessKey", "secretKey"}, ldap |-> {"user", "password"}]

credentials_mount_paths(service) ==
    IF service.credentials = None THEN {}
    ELSE {[directory |-> SecretPath(service.credentials.class), file |-> f] : f \in CredentialFiles[service.kind]}

CredentialParts == "public-private"

volumes_and_mounts(service) ==
    LET tls == tls_volumes_and_mounts(service.tls)
        name == <<service.credentials.class, CredentialSuffix[service.kind]>>
    IN  IF service.credentials = None THEN tls
        ELSE [volumes |-> <<to_volume(name, service.credentials, CredentialParts)>> \o tls.volumes,
              mounts |-> <<VolumeMountBuilder_build(name, SecretPath(service.credentials.class), <<>>)>> \o tls.mounts]

\* the mounts to the first n containers, one after the other, up to the first error
MountedFirst(containers, mounts) ==
    LET mounted[n \in 0..ContainerCount] ==
          IF n = 0 THEN Ok(containers)
          ELSE IF ~mounted[n - 1].ok THEN mounted[n - 1]
          ELSE LET added == add_volumes(containers[n], mounts)
               IN  [ok |-> added.ok, value |-> [mounted[n - 1].value EXCEPT ![n] = added.value]]
    IN  mounted

\* the volumes to the pod, then the mounts to its containers
add_volumes_and_mounts(pod, service) ==
    LET added == volumes_and_mounts(service)
        withVolumes == add_volumes(pod.volumes, added.volumes)
        mounted == MountedFirst(pod.containers, added.mounts)[ContainerCount]
    IN  IF ~withVolumes.ok THEN [ok |-> FALSE, pod |-> [pod EXCEPT !.volumes = withVolumes.value]]
        ELSE [ok |-> mounted.ok,
              pod |-> [pod EXCEPT !.volumes = withVolumes.value, !.containers = mounted.value]]

DefaultPort == [s3 |-> <<80, 443>>, oidc |-> <<80, 443>>, ldap |-> <<389, 636>>]

port(service) ==
    IF service.port # None THEN service.port
    ELSE DefaultPort[service.kind][IF uses_tls(service.tls) THEN 2 ELSE 1]

\* HostName::as_url_host
as_url_host(host) == IF host = "v6" THEN "[v6]" ELSE host

\* what url::Url does: an IPv6 address needs brackets, and the default port of
\* the scheme is not kept
SchemePort == [http |-> 80, https |-> 443, ldap |-> None, ldaps |-> None]
Url_parse(scheme, host, port_) ==
    IF host = "v6" THEN Err("ParseUrl")
    ELSE Ok([scheme |-> scheme, host |-> host, port |-> IF port_ = SchemePort[scheme] THEN None ELSE port_])
Url_set_scheme(url, scheme) ==
    [url EXCEPT !.scheme = scheme, !.port = IF @ = SchemePort[scheme] THEN None ELSE @]
port_or_known_default(url) == IF url.port = None THEN SchemePort[url.scheme] ELSE url.port

\* endpoint of ConnectionSpec, base_url of the OIDC provider
http_endpoint_NoScheme(service) == Url_parse("http", as_url_host(service.host), port(service))

http_endpoint(service) ==
    LET url == Url_parse("http", as_url_host(service.host), port(service))
    IN  IF url.ok /\ uses_tls(service.tls) THEN Ok(Url_set_scheme(url.value, "https")) ELSE url

ldap_endpoint_url(service) ==
    Url_parse(IF uses_tls(service.tls) THEN "ldaps" ELSE "ldap", service.host, port(service))

endpoint(service) == IF service.kind = "ldap" THEN ldap_endpoint_url(service) ELSE http_endpoint(service)

\* endpoint_url and well_known_config_url: paths are sequences of segments, an
\* empty one standing for a trailing slash
trim_end_matches(path) ==
    SubSeq(path, 1, IF \A i \in DOMAIN path : path[i] = "" THEN 0
                    ELSE CHOOSE i \in DOMAIN path : path[i] # "" /\ \A j \in DOMAIN path : j > i => path[j] = "")

well_known_config_path(service) ==
    trim_end_matches(service.root_path) \o <<".well-known", "openid-configuration">>

\* InlineBucketOrReference and InlineConnectionOrReference: a reference that is
\* not found is an error
resolve_connection(connection) ==
    IF connection.inline THEN Ok(connection.spec)
    ELSE IF connection.name \in DOMAIN Resources.connections THEN Ok(Resources.connections[connection.name])
    ELSE Err("RetrieveS3Connection")

resolve_bucket(bucket) ==
    IF bucket.inline THEN resolve_connection(bucket.connection)
    ELSE IF bucket.name \in DOMAIN Resources.buckets
         THEN resolve_connection(Resources.buckets[bucket.name])
    ELSE Err("RetrieveS3Bucket")

------------------------------------------------------------------------------
(* Databases *)

\* to_uppercase
Uppercase(name) == IF name = "metadata" THEN "METADATA" ELSE name

env_var_with_value_from_secret(name, secret, key) == [name |-> name, secret |-> secret, key |-> key]

username_and_password_envs(name, secret) ==
    {env_var_with_value_from_secret(<<Uppercase(name), k>>, secret, k) : k \in {"username", "password"}}

derby_location(db) == IF db.location = None THEN <<"/tmp/derby", db.name>> ELSE db.location

\* what jdbc_, sqlalchemy_ and celery_connection_details_with_templating return:
\* the variables of the container, and those named in the URL
derby_connection_details(db) == [envs |-> {}, in_url |-> {}, location |-> derby_location(db)]

jdbc_connection_details(db) ==
    [envs |-> username_and_password_envs(db.name, db.secret), in_url |-> {}, location |-> None]

generic_connection_details(db) ==
    LET url_env == env_var_with_value_from_secret(<<Uppercase(db.name), "url">>, db.secret, "connectionUrl")
    IN  [envs |-> {url_env}, in_url |-> {url_env.name}, location |-> None]

templated_connection_details(db) ==
    LET envs == username_and_password_envs(db.name, db.secret)
    IN  [envs |-> envs, in_url |-> {e.name : e \in envs}, location |-> None]

connection_details(db) ==
    IF db.database = "derby" THEN derby_connection_details(db)
    ELSE IF db.driver = "jdbc" THEN jdbc_connection_details(db)
    ELSE IF db.database = "generic" THEN generic_connection_details(db)
    ELSE templated_connection_details(db)

\* add_to_container: the last variable of a name is the one the product sees
add_to_container(env, details) ==
    Overlay(env, [n \in {e.name : e \in details.envs} |-> CHOOSE e \in details.envs : e.name = n])

------------------------------------------------------------------------------
ConnectionInit ==
    /\ wiring = [volumes |-> [items |-> <<>>], env |-> <<>>,
                 containers |-> [c \in 1..ContainerCount |-> [items |-> <<>>]]]
    /\ connected = <<>>

\* OIDC providers add nothing themselves
ConnectService(service) ==
    LET result == IF service.kind = "oidc" THEN [ok |-> TRUE, pod |-> wiring]
                  ELSE add_volumes_and_mounts(wiring, service)
    IN  /\ wiring' = result.pod
        /\ connected' = Append(connected, [what |-> "service", with |-> service, ok |-> result.ok])

ConnectBucket(bucket) ==
    LET resolved == resolve_bucket(bucket)
    IN  IF resolved.ok THEN ConnectService(resolved.value)
        ELSE /\ connected' = Append(connected, [what |-> "unresolved", with |-> bucket, ok |-> FALSE])
             /\ UNCHANGED wiring

ConnectDatabase(db) ==
    /\ wiring' = [wiring EXCEPT !.env = add_to_container(@, connection_details(db))]
    /\ connected' = Append(connected, [what |-> "database", with |-> db, ok |-> TRUE])

\* an error ends the reconciliation
ConnectionNext ==
    /\ Len(connected) < MaxConnections
    /\ \A i \in DOMAIN connected : connected[i].ok
    /\ \/ \E s \in Services : ConnectService(s)
       \/ \E b \in Resources.references : ConnectBucket(b)
       \/ \E d \in Databases : ConnectDatabase(d)

ConnectionSpec == ConnectionInit /\ [][ConnectionNext]_connectionVars

------------------------------------------------------------------------------
ConnectedAll(what) ==
    {connected[i].with : i \in {j \in DOMAIN connected : connected[j].what = what /\ connected[j].ok}}

\* the volume a container sees under a path
Mounted(c, path) ==
    {v.content[1] : v \in {w \in ToSet(wiring.volumes.items) :
        \E m \in ToSet(wiring.containers[c].items) : m.key = path /\ m.content[1] = w.key}}

\* Whatever else the pod connects to, the files that a connection tells the
\* product to read are in every container: the credentials in a volume with
\* their private parts, the certificate of the CA in one without.
FilesAreMounted ==
    \A s \in ConnectedAll("service"), c \in 1..ContainerCount :
        s.kind # "oidc" =>
            /\ \A p \in credentials_mount_paths(s) :
                  Mounted(c, p.directory) = {[class |-> s.credentials.class, scope |-> s.credentials.scope,
                                              parts |-> "public-private"]}
            /\ \A p \in tls_ca_cert_mount_path(s.tls) :
                  Mounted(c, p.directory) = {[class |-> s.tls.class, scope |-> None, parts |-> "public"]}

\* the secrets a service wants under the path of a SecretClass
Wants(s, class) ==
    (IF s.kind # "oidc" /\ s.credentials # None /\ s.credentials.class = class
     THEN {<<CredentialSuffix[s.kind], s.credentials.scope>>} ELSE {})
    \cup (IF s.kind # "oidc" /\ tls_ca_cert_secret_class(s.tls) = class THEN {<<"ca-cert", None>>} ELSE {})

\* the SecretClasses of a service
ClassesOf(s) ==
    ({tls_ca_cert_secret_class(s.tls)} \ {None})
    \cup (IF s.credentials = None THEN {} ELSE {s.credentials.class})

\* Adding a connection fails only where two uses of one SecretClass want
\* different volumes under its path, one of them the connection that fails; one
\* that is used twice, or that shares its certificate with another, is added
\* without an error.
FailsOnlyOnConflict ==
    \A i \in DOMAIN connected :
        (connected[i].what = "service" /\ ~connected[i].ok) =>
            \E j \in 1..i :
                /\ connected[j].what = "service"
                /\ \E class \in ClassesOf(connected[i].with) :
                      \E w \in Wants(connected[i].with, class), o \in Wants(connected[j].with, class) : w # o

\* The endpoint has the scheme that belongs to the TLS setting, and leads to the
\* configured port.  Two cases are different: LDAP with an IPv6 address, which
\* is an error, and port 80 with TLS, which S3 and OIDC turn into 443.
EndpointsAreReachable ==
    \A s \in ConnectedAll("service") :
        LET url == endpoint(s)
        IN  IF s.kind = "ldap" /\ s.host = "v6" THEN ~url.ok
            ELSE /\ url.ok
                 /\ url.value.scheme = (IF s.kind = "ldap" THEN IF uses_tls(s.tls) THEN "ldaps" ELSE "ldap"
                                                           ELSE IF uses_tls(s.tls) THEN "https" ELSE "http")
                 /\ (s.kind # "ldap" /\ s.port = 80 /\ uses_tls(s.tls)) \/ port_or_known_default(url.value) = port(s)
                 /\ s.kind = "oidc" => \A i \in 1..(Len(well_known_config_path(s)) - 2) :
                                            well_known_config_path(s)[i] = s.root_path[i]
                 /\ uses_tls_verification(s.tls) => url.value.scheme \in {"https", "ldaps"}

\* The variables in the URL of a database, and those with its user and its
\* password, hold the values of its own Secret, as long as the unique names of
\* the databases differ by more than their case; and no two such databases
\* share an embedded Derby database they did not name.
DatabaseCredentialsAreOwn ==
    LET used == ConnectedAll("database")
    IN  \A d \in used :
            (\A e \in used : e # d => Uppercase(e.name) # Uppercase(d.name)) =>
                /\ \A v \in connection_details(d).envs :
                      v.name \in DOMAIN wiring.env /\ wiring.env[v.name] = v
                /\ \A n \in connection_details(d).in_url :
                      n \in DOMAIN wiring.env /\ wiring.env[n].secret = d.secret
                /\ \A e \in used \ {d} :
                      (d.database = "derby" /\ e.database = "derby" /\ d.location = None /\ e.location = None)
                          => connection_details(d).location # connection_details(e).location

\* A product that was connected to services and databases has the files,
\* addresses and credentials for all of them.
ConnectionsAreComplete ==
    /\ FilesAreMounted /\ FailsOnlyOnConflict
    /\ EndpointsAreReachable /\ DatabaseCredentialsAreOwn

==============================================================================
