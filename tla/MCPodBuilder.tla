---------------------------- MODULE MCPodBuilder ----------------------------
EXTENDS PodBuilder

Setting(fields) == [call |-> "set", fields |-> fields]

Volume(name, sources) == [name |-> name, sources |-> sources]
Mount(name, path, options) == [name |-> name, path |-> path, options |-> options]
Affinities(pod, node) ==
    [pod_affinity |-> pod, pod_anti_affinity |-> None, node_affinity |-> node, node_selector |-> None]

MCPodCalls ==
    {Setting([metadata |-> "m"]), Setting([metadata |-> None]), Setting([node_affinity |-> "n1"]),
     Setting([node_selector |-> "s1"]), Setting([node_name |-> "node"]),
     [call |-> "affinity", affinities |-> Affinities("p2", None)],
     [call |-> "affinity", affinities |-> Affinities(None, "n2")],
     [call |-> "with_status", condition |-> "Ready"],
     [call |-> "extend", field |-> "tolerations", list |-> <<"t1">>],
     [call |-> "add_volumes", volumes |-> <<Volume("config", <<>>)>>],
     [call |-> "add_volumes", volumes |-> <<Volume("log", <<>>), Volume("config", <<"configMap", "secret">>)>>],
     [call |-> "add_volumes", volumes |-> <<Volume("config", <<"configMap", "secret">>), Volume("log", <<"pvc">>)>>],
     [call |-> "add_listener_class", name |-> "listener", listener |-> "internal"],
     [call |-> "add_listener_name", name |-> "listener", listener |-> "internal"],
     [call |-> "termination_grace_period", duration |-> Whole(40000000)],
     [call |-> "termination_grace_period", duration |-> Whole(1000000001)]}
    \cup [call : {"add_container", "add_init_container"},
          container : {[name |-> "c", resources |-> None],
                       [name |-> "c", resources |-> [limits |-> None, requests |-> "r"]]}]

MCContainerCalls ==
    {Setting([image |-> "i"]), Setting([pre_stop |-> "stop"]), Setting([post_start |-> "start"]),
     [call |-> "image_from_product_image", image |-> [image |-> "p", pull_policy |-> "Always"]],
     [call |-> "lifecycle", lifecycle |-> [post_start |-> None, pre_stop |-> "stop2"]],
     [call |-> "add_env_vars", env_vars |-> <<"A">>],
     [call |-> "add_volume_mounts", mounts |-> <<Mount("config", "/a", "")>>],
     [call |-> "add_volume_mounts", mounts |-> <<Mount("config", "/b", ""), Mount("log", "/a", "")>>],
     [call |-> "add_volume_mounts", mounts |-> <<Mount("config", "/a", "subPath"), Mount("config", "/b", "")>>]}

MCEnvVarCalls ==
    [call : {"with_env_var"}, name : {"HOME", "A=B"}, source : {"value", "secret"}]
    \cup {Setting([HOME |-> "field", PATH |-> "value"]), Setting([PATH |-> "secret"])}

SecurityOption(group, option, value) == [group |-> group, option |-> option, value |-> value]

MCSecurityCalls ==
    {SecurityOption(None, "run_as_non_root", "false"), SecurityOption(None, "run_as_user", "1000"),
     SecurityOption("se_linux_options", "level", "a"), SecurityOption("se_linux_options", "level", "b"),
     SecurityOption("se_linux_options", "role", "a"), SecurityOption("seccomp_profile", "type", "a"),
     SecurityOption("seccomp_profile", "localhost_profile", "b"),
     SecurityOption("windows_options", "run_as_user_name", "a")}

\* 16777217 seconds and their like are no f32, 11 s / 1 s is rounded up to more than 11,
\* and 40000000 seconds fit into an i64 and not into an i32
MCProbeCalls ==
    [call : {"period"},
     period : {Whole(0), [secs |-> 0, millis |-> 1], Whole(1), [secs |-> 1, millis |-> 500], Whole(5),
               Whole(16777217), Whole(40000000)}]
    \cup [call : {"threshold_duration"}, field : {"success_threshold"}, duration : {Whole(0), Whole(11)}]
    \cup [call : {"threshold_duration"}, field : {"failure_threshold"},
          duration : {Whole(0), [secs |-> 0, millis |-> 1], Whole(11), [secs |-> 33, millis |-> 1],
                      [secs |-> 99999, millis |-> 1], Whole(16777217), Whole(1000000000)}]
    \cup {Setting([timeout |-> [secs |-> 1, millis |-> 500]]), Setting([timeout |-> Whole(40000000)]),
          Setting([initial_delay |-> Whole(7)]), Setting([termination_grace_period |-> Whole(40000000)]),
          Setting([termination_grace_period |-> Whole(1000000001)]),
          Setting([failure_threshold |-> 3])}

MCSecretCalls ==
    [call : {"volume"}, scope : [pod : BOOLEAN, node : {FALSE}, services : {<<>>, <<"service=s">>},
                                 listener_volumes : {<<>>, <<"listener-volume=l">>}]]
    \cup [call : {"scope"}, scope : {"node", "pod"}]
    \cup {[call |-> "kerberos", name |-> "nn"], Setting([password |-> "changeit"]),
          Setting([format |-> "tls-pkcs12"]), Setting([format |-> "tls-pem"]),
          Setting([lifetime |-> 1]), Setting([domain_components |-> TRUE])}

MCPods == [app : {"hdfs"}, cluster : {"c1", "c2"}, role : {"datanode", "namenode"}, group : {"default", "hot"}]

=============================================================================
