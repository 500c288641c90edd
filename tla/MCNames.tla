------------------------------- MODULE MCNames -------------------------------
EXTENDS Names

Texts(chars, n) == UNION {[1..k -> chars] : k \in 0..n}
Repeat(c, n) == [i \in 1..n |-> c]

\* Short texts of every shape, and long ones around each limit.
MCParseTexts ==
  Texts({"a", "A", "-", "."}, 3) \cup Texts({"1", "e", "_", "=", "a"}, 2)
  \cup {Repeat(c, n) : c \in {"a", "1"}, n \in 3..13} \cup {Repeat("e", 4), Repeat("e", 5)}
  \cup {<<"a", "-", "a", "1", "1", "a">>, <<"A", "-", "a", "1", "1", "a">>}

MCClusterNames == {t \in Texts({"a", "1", "-"}, 3) : from_str("ClusterName", t).ok}
MCRoleNames == {<<"a">>, <<"1", "-", "a">>}
MCRoleGroupNames == {t \in Texts({"a", "-"}, 5) : from_str("RoleGroupName", t).ok}

MCProductNames == {<<"a">>, <<"a", ".", "1">>}

MCKeyPrefixes == {<<"a", ".", "a", "a">>}

MCKeyTexts ==
  {p \o t : p \in {<<>>, <<"a", ".", "a", "a", "/">>, <<"a", "-", "a", "/">>, <<"/">>, <<" ">>,
                   <<"a", ".", "a", "a", ".", "/">>, <<"a", "/", "a", "/">>},
            t \in Texts({"a", "-"}, 2) \cup {<<"e">>, <<"_", "a">>, <<"a", " ">>}}
  \cup {t \o Repeat(c, n) : t \in {<<>>, <<"a">>, <<"1", "a">>, <<"-">>},
                            c \in {"a", "-", ".", "e"}, n \in 4..11}
  \cup {<<"a", "a", "a", "-", "a">> \o Repeat("a", n) : n \in 3..7}
  \cup {<<"a", "a", "a", "a", "-", "a">> \o Repeat("-", n) : n \in 2..6}

\* Tags and versions that end at, before and behind the limit of a label, with
\* every kind of character at it; references with spaces and slashes to trim.
MCImages ==
  LET tags == {Repeat("a", n) : n \in 1..9}
              \cup {Repeat("1", n) \o <<c>> \o Repeat("a", k) : n \in 4..6, k \in 0..2,
                                                              c \in {".", "_", "-", "e"}}
      reference(tag, hash) == [reference |-> <<"a", ":">>, tag |-> tag, hash |-> hash]
      hashes == {<<"a", "1", ":">> \o Repeat("a", n) : n \in 1..6}
      versions == {<<"1">>, <<"1", ".", "1">>, <<>>}
  IN  [custom : {reference(tag, None) : tag \in tags} \cup {reference(None, h) : h \in hashes}
                \cup {reference(None, None)},
       product_version : versions, stackable_version : {None, <<"1">>}, repo : {None}]
      \cup [custom : {None}, product_version : versions \cup tags,
            stackable_version : {None, <<"1", ".", "1">>}, repo : {None, <<"a", "/", "/">>, <<"/">>}]

MCImageNames == {<<"a">>, <<"/", "a">>, <<" ", "/", "/", "a", " ">>}
MCRepositories == {<<"a", "/", "a">>, <<" ", "a", "/", " ">>, <<"a", " ", "/">>}
MCOperators == {[version |-> <<"1", ".", "1">>, pull_request |-> FALSE],
                [version |-> <<"1", "-", "a", "1", "1">>, pull_request |-> TRUE]}

MCLabelInputs ==
  [cluster : {<<"a">>, <<"a", "-", "1">>}, product : {<<"a">>, Repeat("a", 7)},
   version : {<<"1", ".", "1">>, <<"1", "-">>}, operator : {<<"a", ".", "a">>, Repeat("a", 9)},
   controller : {<<"a">>, Repeat("a", 6)}, role : {<<"a">>, <<"1">>}, group : {<<"a">>, Repeat("a", 10)}]

MCSelectors ==
  LET label(k) == [key |-> k, value |-> "x"]
      requirement == [key : {"k"}, operator : {"In", "NotIn", "Exists", "DoesNotExist", "Gt"},
                      values : {None, {}, {"x"}, {"x", "y"}}]
  IN  [labels : {None, <<>>, <<label("k")>>, <<label("j"), label("k")>>},
       expressions : {None, <<>>} \cup {<<r>> : r \in requirement}
         \cup {<<[key |-> "j", operator |-> "Exists", values |-> None], r>> : r \in requirement}]

MCLabelMaps == UNION {[keys -> {"x", "y", "z"}] : keys \in SUBSET {"j", "k"}}

MCOwners == [name : {<<"a">>, <<"a", "1">>, <<"a", "a", "a", "a">>}, namespace : {None, "ns"}, uid : {None, "u1"}]

MCMetaCalls ==
  LET label(k, v) == [key |-> k, value |-> v]
  IN  [kind : {"with_labels", "labels"},
       labels : {<<>>, <<label("j", 1)>>, <<label("k", 2), label("k", 1)>>,
                 <<label("j", 2), label("k", 1)>>}]

MCHeadless == <<"-", "a">>
MCSuffix == <<"-", "a", "a">>
MCOperatorSuffix == <<"-", "1">>
==============================================================================
