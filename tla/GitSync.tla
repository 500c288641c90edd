------------------------------ MODULE GitSync ------------------------------
(***************************************************************************)
(* crd/git_sync: the containers that keep copies of Git repositories, as   *)
(* GitSyncResources::new builds them for v1alpha2 and for v1alpha1, and    *)
(* the conversions between the two versions of the credentials.            *)
(***************************************************************************)
EXTENDS Integers, FiniteSets, Connections

CONSTANTS
    GitSyncs,       \* lists of [repo, git_folder, git_sync_conf, credentials, tls]
    ExtraMounts,    \* lists of mounts of the caller, [name, path]
    ExtraEnvVars    \* variables of the caller, by name

VARIABLE synced     \* what was asked for, and the resources

\* The fields of a GitSync have the types of the code; git_folder is a path, by
\* its components.
IsGitSync(sync) ==
    /\ sync = [repo |-> sync.repo, git_folder |-> sync.git_folder, git_sync_conf |-> sync.git_sync_conf,
               credentials |-> sync.credentials, tls |-> sync.tls]
    /\ sync.git_folder \in Seq(ToSet(sync.git_folder))
    /\ sync.credentials # None =>
          /\ sync.credentials = [type |-> sync.credentials.type, secret |-> sync.credentials.secret]
          /\ sync.credentials.type \in {"basicAuth", "ssh"}
          /\ sync.credentials.secret # None
    /\ sync.tls # None => sync.tls.verification \in {"none", "webPki", "secretClass"}

ASSUME GitSyncConstants ==
    /\ \A syncs \in GitSyncs :
          syncs \in Seq(ToSet(syncs)) /\ \A i \in DOMAIN syncs : IsGitSync(syncs[i])
    /\ \A mounts \in ExtraMounts : mounts \in Seq(ToSet(mounts))

------------------------------------------------------------------------------
\* credentials: None, or [type, secret]
credentials_to_secret(credentials) ==
    IF credentials # None /\ credentials.type = "basicAuth" THEN credentials.secret ELSE None

credentials_secret_to_basic_auth(secret) ==
    IF secret = None THEN None ELSE [type |-> "basicAuth", secret |-> secret]

\* the version v1alpha1 of a specification, and back again
DowngradedSync(sync) == [sync EXCEPT !.credentials = credentials_to_secret(@)]
UpgradedSync(sync) == [sync EXCEPT !.credentials = credentials_secret_to_basic_auth(@)]

HasCredentials(sync, type) == sync.credentials # None /\ sync.credentials.type = type

ContentVolume(i) == <<"content-from-git", i>>
SshVolume(i) == <<"ssh-keys-info", i>>
CaVolume(i) == <<"ca-cert", i>>
SshPath(i) == <<"/stackable/gitssh", i>>
CaPath(i) == <<"/stackable/gitca", i>>
RootDir == <<"/tmp/git">>
LogVolume == <<"log">>

basic_auth_env(secret) ==
    [GITSYNC_USERNAME |-> <<secret, "user">>, GITSYNC_PASSWORD |-> <<secret, "password">>]

\* the caller's variables replace those of the credentials
env_vars(i, sync, extra) ==
    Overlay(CASE HasCredentials(sync, "basicAuth") -> basic_auth_env(sync.credentials.secret)
              [] HasCredentials(sync, "ssh") ->
                    [GITSYNC_SSH_KEY_FILE |-> [directory |-> SshPath(i), file |-> "key"],
                     GITSYNC_SSH_KNOWN_HOSTS_FILE |-> [directory |-> SshPath(i), file |-> "knownHosts"]]
              [] OTHER -> <<>>,
            extra)

\* the names that SecretName and EnvVarName refuse, by an example of each
EnvVarError(secret, extra) ==
    CASE secret = "" -> Err("InvalidSecretName")
      [] secret # "" /\ "A=B" \in DOMAIN extra -> Err("InvalidEnvVar")
      [] OTHER -> Ok(extra)

needs_ca_cert(sync) == tls_ca_cert_secret_class(sync.tls) # None

ca_cert_path(i) == [directory |-> CaPath(i), file |-> "ca.crt"]

root_and_log_mounts(i, extra) ==
    <<[key |-> RootDir, content |-> <<ContentVolume(i)>>],
      [key |-> <<"/stackable/log">>, content |-> <<LogVolume>>]>>
    \o [j \in DOMAIN extra |-> [key |-> extra[j].path, content |-> <<extra[j].name>>]]

ssh_mounts(i, sync) ==
    IF HasCredentials(sync, "ssh") THEN <<[key |-> SshPath(i), content |-> <<SshVolume(i)>>]>> ELSE <<>>

volume_mounts(i, sync, extra) ==
    root_and_log_mounts(i, extra) \o ssh_mounts(i, sync)
    \o (IF needs_ca_cert(sync)
        THEN <<[key |-> CaPath(i), content |-> <<CaVolume(i)>>]>> ELSE <<>>)

\* no check without TLS or verification, as GitHub redirects http to https
scheme_check(sync) == uses_tls_verification(sync.tls) => sync.repo.scheme # "http"

internal_args(sync, one_time) ==
    [x \in {"--repo", "--ref", "--depth", "--period", "--link", "--root", "--one-time"} |->
        CASE x = "--repo" -> sync.repo
          [] x = "--root" -> RootDir
          [] x = "--one-time" -> one_time
          [] OTHER -> "operator"]

internal_git_config(i, sync) ==
    (IF needs_ca_cert(sync) THEN <<[key |-> "http.sslCAInfo", value |-> ca_cert_path(i)]>> ELSE <<>>)
    \o (IF sync.tls # None /\ sync.tls.verification = "none"
        THEN <<[key |-> "http.sslverify", value |-> FALSE]>> ELSE <<>>)
    \o <<[key |-> "safe.directory", value |-> RootDir]>>

\* create_git_sync_shell_script
args_UserWins(sync, one_time, git_config) ==
    Overlay(Overlay(internal_args(sync, one_time), sync.git_sync_conf),
            [x \in {"--git-config"} |-> git_config])

args(sync, one_time, git_config) ==
    LET user == sync.git_sync_conf
        appended == IF "--git-config" \in DOMAIN user
                    THEN <<[key |-> "user", value |-> user["--git-config"]]>> ELSE <<>>
    IN  Overlay(Overlay([x \in DOMAIN user \ {"--git-config"} |-> user[x]], internal_args(sync, one_time)),
                [x \in {"--git-config"} |-> git_config \o appended])

\* once in the init container; otherwise in the background, to be terminated
create_git_sync_container(i, sync, one_time, mounts, env, git_config) ==
    LET mounted == add_volumes([items |-> <<>>], mounts)
    IN  IF ~mounted.ok THEN Err("AddVolumeMount")
        ELSE Ok([name |-> <<"git-sync", i, one_time>>, args |-> args(sync, one_time, git_config),
                 env |-> env, mounts |-> mounted.value.items, background |-> ~one_time])

\* strip_prefix("/")
relative_git_folder(sync) ==
    IF sync.git_folder # <<>> /\ sync.git_folder[1] = "/" THEN Tail(sync.git_folder) ELSE sync.git_folder

content_folder(i, sync) == <<"/stackable/app/git", i, "current">> \o relative_git_folder(sync)

\* the volume with the repository, and its mount in the product's containers
ContentResource(i, sync, container, init_container, ssh, ca_cert) ==
    [container |-> container, init_container |-> init_container,
     content_volume |-> ContentVolume(i),
     content_mount |-> [key |-> <<"/stackable/app/git", i>>, content |-> <<ContentVolume(i)>>],
     content_folder |-> content_folder(i, sync), ssh_volumes |-> ssh, ca_cert_volumes |-> ca_cert]

GitSyncResource(i, sync, mounts, extra) ==
    LET env == EnvVarError(IF HasCredentials(sync, "basicAuth") THEN sync.credentials.secret ELSE None, extra)
        container(one_time) ==
            create_git_sync_container(i, sync, one_time, volume_mounts(i, sync, mounts),
                                      env_vars(i, sync, extra), internal_git_config(i, sync))
        ssh == IF HasCredentials(sync, "ssh")
               THEN {[name |-> SshVolume(i), secret |-> sync.credentials.secret]} ELSE {}
        ca_cert == IF needs_ca_cert(sync)
                   THEN {[name |-> CaVolume(i), class |-> sync.tls.class, parts |-> "public"]} ELSE {}
    IN  IF ~env.ok THEN env
        ELSE IF ~scheme_check(sync) THEN Err("SchemeMismatch")
        ELSE IF ~container(FALSE).ok THEN container(FALSE)
        ELSE Ok(ContentResource(i, sync, container(FALSE).value, container(TRUE).value, ssh, ca_cert))

\* GitSyncResources::new stops at the first error
FirstError(results) ==
    LET failed == {i \in DOMAIN results : ~results[i].ok}
        first == CHOOSE i \in failed : \A j \in failed : i <= j
    IN  IF failed # {} THEN results[first] ELSE Ok([i \in DOMAIN results |-> results[i].value])

GitSyncResources_new(syncs, mounts, extra) ==
    FirstError([i \in DOMAIN syncs |-> GitSyncResource(i, syncs[i], mounts, extra)])

\* v1alpha1, whose credentials are the name of a Secret, and which knows
\* neither SSH keys nor the TLS settings
GitSyncResource_v1alpha1(i, sync, mounts, extra) ==
    LET env == EnvVarError(sync.credentials, extra)
        container(one_time) ==
            create_git_sync_container(i, sync, one_time, root_and_log_mounts(i, mounts),
                Overlay(IF sync.credentials = None THEN <<>> ELSE basic_auth_env(sync.credentials), extra),
                <<[key |-> "safe.directory", value |-> RootDir]>>)
    IN  IF ~env.ok THEN env
        ELSE IF ~container(FALSE).ok THEN container(FALSE)
        ELSE Ok(ContentResource(i, sync, container(FALSE).value, container(TRUE).value, {}, {}))

GitSyncResources_new_v1alpha1(syncs, mounts, extra) ==
    FirstError([i \in DOMAIN syncs |-> GitSyncResource_v1alpha1(i, syncs[i], mounts, extra)])

GitSyncInit == synced = None

GitSyncNext ==
    /\ synced = None
    /\ \E s \in GitSyncs, m \in ExtraMounts, e \in ExtraEnvVars :
          synced' = [syncs |-> s, mounts |-> m, env |-> e, resources |-> GitSyncResources_new(s, m, e)]

GitSyncSpec == GitSyncInit /\ [][GitSyncNext]_synced

------------------------------------------------------------------------------
\* What a mount refers to exists, and so do the files that git-sync is told of
\* (unless the caller replaces the variable), with the product's view of the
\* repository.
HasItsFiles(r, extra, env) ==
    LET mounts == ToSet(r.container.mounts)
        extraVolumes == {m.name : m \in ToSet(extra)}
        created == {r.content_volume} \cup {v.name : v \in r.ssh_volumes \cup r.ca_cert_volumes}
        mounted == {m.key : m \in mounts}
    IN  /\ {m.content[1] : m \in mounts} = created \cup {LogVolume} \cup extraVolumes
        /\ \A x \in ({"GITSYNC_SSH_KEY_FILE", "GITSYNC_SSH_KNOWN_HOSTS_FILE"}
                        \cap DOMAIN r.container.env) \ DOMAIN env :
              r.container.env[x].directory \in mounted
        /\ \A c \in ToSet(r.container.args["--git-config"]) :
              /\ c.key = "http.sslCAInfo" => c.value.directory \in mounted
              /\ c.key = "safe.directory" => c.value = r.container.args["--root"]
        /\ [key |-> r.container.args["--root"], content |-> r.content_mount.content] \in mounts
        /\ \A k \in DOMAIN r.content_mount.key : r.content_folder[k] = r.content_mount.key[k]
        /\ r.init_container.mounts = r.container.mounts

BuiltAll == synced # None /\ synced.resources.ok

\* Every mount has a volume: that of the repository, the log, those of the
\* caller and the ones created for keys and certificates; a file named in a
\* variable or in the Git configuration is in such a mount; and the product
\* finds the repository in the volume that git-sync fills.
GitFilesAreMounted ==
    BuiltAll => \A i \in DOMAIN synced.syncs : 
          HasItsFiles(synced.resources.value[i], synced.mounts, synced.env)

\* the options of git-sync that the operator depends on, and the user's
ObeysTheOperator(sync, r) ==
    /\ \A x \in DOMAIN internal_args(sync, FALSE) :
          /\ r.container.args[x] = internal_args(sync, FALSE)[x]
          /\ x # "--one-time" => r.init_container.args[x] = r.container.args[x]
    /\ \A x \in DOMAIN sync.git_sync_conf \ (DOMAIN internal_args(sync, FALSE) \cup {"--git-config"}) :
          r.container.args[x] = sync.git_sync_conf[x]
    /\ "--git-config" \in DOMAIN sync.git_sync_conf =>
          Last(r.container.args["--git-config"]).value = sync.git_sync_conf["--git-config"]
    /\ r.init_container.args["--one-time"] /\ ~r.container.args["--one-time"]

\* The settings of the user are kept, but none of them replaces one that the
\* operator depends on; a Git configuration of the user comes after the
\* operator's.  The init container differs only in syncing once.
InternalOptionsAreKept ==
    BuiltAll => \A i \in DOMAIN synced.syncs : ObeysTheOperator(synced.syncs[i], synced.resources.value[i])

\* The specifications as v1alpha1 stores them, and read as v1alpha2 again.
KeptByUpgrade(syncs, extra, env) ==
    LET old == [i \in DOMAIN syncs |-> DowngradedSync(syncs[i])]
        new == [i \in DOMAIN old |-> UpgradedSync(old[i])]
    IN  /\ (\A i \in DOMAIN new : /\ scheme_check(new[i])
                                  /\ new[i].tls # None => new[i].tls.verification = "webPki")
                => (GitSyncResources_new_v1alpha1(old, extra, env) = GitSyncResources_new(new, extra, env))
        /\ \A i \in DOMAIN new : new[i] = syncs[i]
                                    \/ (HasCredentials(syncs[i], "ssh") /\ new[i].credentials = None)

\* Upgrading a v1alpha1 specification changes nothing of what is built for it,
\* unless its TLS settings ask for something that v1alpha1 ignores, or for the
\* verification of an http repository, which v1alpha2 refuses.  Downgrading and
\* upgrading again loses SSH keys and nothing else.
UpgradeKeepsResources ==
    synced # None => KeptByUpgrade(synced.syncs, synced.mounts, synced.env)

\* The containers of git-sync have what they refer to, obey the operator where
\* it depends on them, and are the same in both versions of the specification.
GitSyncIsComplete == GitFilesAreMounted /\ InternalOptionsAreKept /\ UpgradeKeepsResources

=============================================================================
