--------------------------- MODULE MCVersionedCrds ---------------------------
(* Declarations for the #[versioned] macro: every kind of action, alone and   *)
(* together, with versions without actions around and between them.          *)
EXTENDS VersionedCrds

V1a1 == [major |-> 1, level |-> <<0, 1>>]
V1a2 == [major |-> 1, level |-> <<0, 2>>]
V1b1 == [major |-> 1, level |-> <<1, 1>>]
V1   == [major |-> 1, level |-> None]
V2   == [major |-> 2, level |-> None]

Plain(name, ty) ==
  [ident |-> <<name, FALSE>>, ty |-> ty, added |-> None, changes |-> <<>>,
   deprecated |-> None, nested |-> FALSE, of |-> None, hint |-> None]
Added(field, v) == [field EXCEPT !.added = v]
Deprecated(field, v) == [field EXCEPT !.deprecated = v, !.ident = <<@[1], TRUE>>]
Changed(field, since, from_name, from_type, up, down) ==
  [field EXCEPT !.changes = Append(@, [since |-> since, from_name |-> from_name,
     from_type |-> from_type, upgrade_with |-> up, downgrade_with |-> down])]
Renamed(field, since, from) == Changed(field, since, <<from, FALSE>>, None, None, None)
Nested(field, of, hint) == [field EXCEPT !.nested = TRUE, !.of = of, !.hint = hint, !.ty = of]
Holding(field, of) == [field EXCEPT !.of = of, !.ty = of]

Declared(versions, spec) ==
  [versions |-> versions, allow_unsorted |-> FALSE, tracking |-> FALSE, skip |-> {},
   submodules |-> {}, structs |-> ("spec" :> spec), enums |-> <<>>]
Tracked(d) == [d EXCEPT !.tracking = TRUE]
With(d, name, fields) == [d EXCEPT !.structs = @ @@ (name :> fields)]
WithEnum(d, name, variants) == [d EXCEPT !.enums = @ @@ (name :> variants)]

Four == <<V1a1, V1a2, V1b1, V1>>
Three == <<V1a1, V1b1, V1>>

Late == Added(Plain("late", "T"), V1b1)
Gone == Deprecated(Plain("gone", "T"), V1b1)
Moved == Renamed(Renamed(Plain("moved", "T"), V1a2, "first"), V1, "second")
Retyped == Changed(Changed(Plain("retyped", "U"), V1b1, <<"old", FALSE>>, "T", <<"up">>, <<"down">>),
                   V1, None, "U0", None, None)
AllActions == Deprecated(Renamed(Added(Plain("all", "T"), V1a2), V1b1, "once"), V1)
Sub == <<Plain("kept", "T"), Added(Plain("more", "T"), V1b1)>>
Kinds == <<Plain("A", "variant"), Renamed(Plain("B", "variant"), V1b1, "Bee"),
           Deprecated(Plain("C", "variant"), V1)>>

MCDeclarations ==
  LET plain == Declared(Four, <<Plain("same", "T"), Late, Gone>>)
      moved == Declared(Four, <<Moved, AllActions, Retyped>>)
      tracked == Tracked(Declared(Four, <<Late, Added(Plain("latest", "T"), V1)>>))
      nested == Tracked(With(Declared(Three, <<Nested(Plain("sub", ""), "Sub", None), Gone>>),
                             "Sub", Sub))
      optional == Tracked(With(Declared(Three,
                    <<Added(Nested(Plain("sub", ""), "Sub", "Option"), V1)>>), "Sub", Sub))
      listed == Tracked(With(Declared(Three,
                    <<Nested(Plain("sub", ""), "Sub", "Vec"), Late>>), "Sub",
                  <<Renamed(Plain("kept", "T"), V1b1, "was")>>))
      untracked == With(Declared(Three, <<Holding(Plain("sub", ""), "Sub")>>), "Sub", Sub)
      enums == WithEnum(Declared(Four, <<Holding(Plain("kind", ""), "Kinds")>>), "Kinds", Kinds)
      \* accepted, but with the gaps KnownGap names
      shared == Tracked(With(Declared(Three, <<Nested(Plain("sub", ""), "Sub", None), Late>>),
                             "Sub", Sub))
      lateVariant == WithEnum(plain, "Kinds", <<Added(Plain("D", "variant"), V1)>>)
      unordered == Declared(Four, <<Renamed(Renamed(Plain("x", "T"), V1, "b"), V1b1, "a")>>)
      nestedGone == Tracked(With(Declared(Three,
                      <<Deprecated(Nested(Plain("sub", ""), "Sub", None), V1)>>), "Sub", Sub))
      sameName == Declared(Three, <<Plain("x", "T"), Deprecated(Plain("x", "T"), V1)>>)
      noStatus == [tracked EXCEPT !.skip = {"try_convert"}]
      accepted == {plain, moved, tracked, nested, optional, listed, untracked, enums,
                   [plain EXCEPT !.versions = <<V2, V1, V1b1, V1a1, V1a2>>, !.allow_unsorted = TRUE],
                   [tracked EXCEPT !.skip = {"try_convert", "merged_crd", "from", "object_from"}],
                   [plain EXCEPT !.skip = {"merged_crd"}]}
      gaps == {shared, lateVariant, unordered, nestedGone, sameName, noStatus}
      rejected == {[plain EXCEPT !.versions = <<>>],
                   [plain EXCEPT !.versions = <<V1, V1b1, V1a1>>],
                   [plain EXCEPT !.versions = <<V1a1, V1b1, V1b1>>],
                   [plain EXCEPT !.submodules = {V2}],
                   Declared(Three, <<Deprecated(Late, V1b1)>>),
                   Declared(Three, <<Deprecated(Late, V1a1)>>),
                   Declared(Three, <<Renamed(Late, V1a1, "x")>>),
                   Declared(Three, <<[Plain("x", "T") EXCEPT !.ident[2] = TRUE]>>),
                   Declared(Three, <<Changed(Plain("x", "T"), V1, None, None, None, None)>>),
                   Declared(Three, <<Added(Plain("x", "T"), V2)>>),
                   Declared(Three, <<Nested(Plain("sub", ""), "Sub", None)>>)}
  IN  accepted \cup gaps \cup rejected

MCReviews ==
  {[uid |-> 7, desired |-> desired, defects |-> defects] :
     desired \in {None, 0, 1, 3},
     defects \in {<<>>, <<"none">>, <<"none", "none">>}
       \cup {<<"none", bad, "none">> :
               bad \in {"kind missing", "kind not a string", "other kind", "version missing",
                        "unknown version", "other fields"}}}

MCConvertFns ==
  (<<"up">> :> [a |-> "1", b |-> "2", d |-> "0"])
  @@ (<<"down">> :> ("1" :> "a" @@ "2" :> "b" @@ "0" :> "d"))
  @@ (<<"U0", "U">> :> ("1" :> "one" @@ "2" :> "two" @@ "0" :> "zero"))
  @@ (<<"U", "U0">> :> ("one" :> "1" @@ "two" :> "2" @@ "zero" :> "0"))

MCTypeValues ==
  [T |-> [initial |-> "a", edited |-> "b", default |-> "d"],
   U0 |-> [initial |-> "1", edited |-> "2", default |-> "0"],
   U |-> [initial |-> "one", edited |-> "two", default |-> "zero"]]
=============================================================================
