---------------------------- MODULE VersionedCrds ----------------------------
(***************************************************************************)
(* The #[versioned] macro and the code it generates.  A module declares    *)
(* versions and containers; each field or variant says when it was added,  *)
(* changed and deprecated.  The macro turns this history into one          *)
(* definition of the container per version, conversions between            *)
(* neighbouring versions, and try_convert, which answers the API server's  *)
(* ConversionReviews.  With experimental_conversion_tracking a downgrade   *)
(* saves the values of fields the older version lacks in the status, and   *)
(* the upgrade takes them back.                                            *)
(*                                                                         *)
(* Both levels are modelled: Expand is the macro (its result, `generated`,  *)
(* is the changeset of every item), and Convert runs the generated code on *)
(* an object that users edit in whichever version they read it.            *)
(***************************************************************************)
EXTENDS Options, Naturals, FiniteSets, SequencesExt, FiniteSetsExt, Functions, TLC

CONSTANTS
  Declarations,    \* the modules the macro is applied to
  Reviews,         \* ConversionReviews beside those for the tracked object
  ConvertFns,      \* functions on values: upgrade_with and downgrade_with by name,
                   \* the user's From impls by <<from type, to type>>
  Panic,           \* the result of code that panics
  TypeValues,      \* [type |-> [initial, edited, default]]
  MaxEdits,        \* bound on edits
  MaxConversions   \* bound on conversion reviews

VARIABLES
  declared,    \* the module, None before the macro was applied
  generated,   \* what the macro made of it
  object,      \* an object of the custom resource, None before it is created
  truth,       \* the value each field was last given by a user (in terms of
               \* the latest version), whichever version the object is in
  response,    \* the answer to the last ConversionReview
  edits,
  conversions

versionedVars == <<declared, generated, object, truth, response, edits, conversions>>

-----------------------------------------------------------------------------
(* What the macro is applied to.  A version's level is <<0, n>> for alpha and *)
(* <<1, n>> for beta, an ident is <<name, has the deprecation prefix>>.      *)

VersionSet == [major : Nat, level : {None} \cup ({0, 1} \X Nat)]
IdentSet == STRING \X BOOLEAN
ChangeSet ==
  [since : VersionSet, from_name : {None} \cup IdentSet, from_type : {None} \cup STRING,
   upgrade_with : {None} \cup Seq(STRING), downgrade_with : {None} \cup Seq(STRING)]
ItemSet ==
  [ident : IdentSet, ty : STRING, added : {None} \cup VersionSet, changes : Seq(ChangeSet),
   deprecated : {None} \cup VersionSet, nested : BOOLEAN,
   of : {None} \cup STRING, hint : {None} \cup STRING]

\* A ConversionReview without a request has no desired version.
Defects == {"none", "kind missing", "kind not a string", "other kind", "version missing",
            "unknown version", "other fields"}
ReviewSet == [uid : Nat, desired : {None} \cup Nat, defects : Seq(Defects)]

UnknownVersion == [major |-> 9, level |-> None]

ASSUME VersionedAssumption ==
  /\ None \notin VersionSet /\ None \notin {0, 1} \X Nat
  /\ None \notin Nat /\ None # "Kind"
  /\ Reviews \subseteq ReviewSet
  /\ \A d \in Declarations :
       /\ d.versions \in Seq(VersionSet) /\ UnknownVersion \notin Range(d.versions)
       /\ "spec" \in DOMAIN d.structs
       /\ \A n \in DOMAIN d.structs : d.structs[n] \in Seq(ItemSet)
       /\ \A n \in DOMAIN d.enums : d.enums[n] \in Seq(ItemSet)

-----------------------------------------------------------------------------
(* Kubernetes versions (k8s-version).                                        *)

LevelLess(a, b) == a[1] < b[1] \/ (a[1] = b[1] /\ a[2] < b[2])

VersionLess(a, b) ==
  \/ a.major < b.major
  \/ /\ a.major = b.major
     /\ a.level # None
     /\ b.level = None \/ LevelLess(a.level, b.level)

-----------------------------------------------------------------------------
(* Attributes.                                                               *)

original(item) == item.ident
cleaned(item) == <<item.ident[1], FALSE>>

\* ModuleAttributes::validate
ModuleErrors(d) ==
  (IF d.versions = <<>> THEN {"no version"} ELSE {})
  \cup (IF ~d.allow_unsorted
           /\ \E i \in 1..(Len(d.versions) - 1) : VersionLess(d.versions[i + 1], d.versions[i])
        THEN {"unsorted versions"} ELSE {})
  \cup (IF ~IsInjective(d.versions) THEN {"duplicate versions"} ELSE {})

\* Versions in the order in which code is generated for them.
SortedVersions(d) ==
  LET versions == Range(d.versions)
  IN  CHOOSE sorted \in [1..Cardinality(versions) -> versions] :
        /\ Range(sorted) = versions
        /\ \A i, j \in DOMAIN sorted : i < j => VersionLess(sorted[i], sorted[j])

validate_action_combinations(item) ==
  /\ item.added # None => item.added # item.deprecated
  /\ \A i \in DOMAIN item.changes :
       item.changes[i].since \notin {item.added, item.deprecated}

validate_action_order(item) ==
  /\ (item.added # None /\ item.deprecated # None) =>
       ~VersionLess(item.deprecated, item.added)
  /\ \A i \in DOMAIN item.changes :
       /\ item.added # None => VersionLess(item.added, item.changes[i].since)
       /\ item.deprecated # None => VersionLess(item.changes[i].since, item.deprecated)

validate_item_name(item) == (item.deprecated # None) = item.ident[2]

validate_changed_action(item) ==
  \A i \in DOMAIN item.changes :
    LET change == item.changes[i]
    IN  /\ change.from_name # None \/ change.from_type # None
        /\ change.from_name # None => ~change.from_name[2]
        /\ change.from_type = None =>
             change.upgrade_with = None /\ change.downgrade_with = None

validate_versions(item, d) ==
  {item.added, item.deprecated} \cup {item.changes[i].since : i \in DOMAIN item.changes}
    \subseteq Range(d.versions) \cup {None}

validate_nested_flag(item, d) == item.nested => d.tracking

ItemErrors(item, d) ==
  (IF validate_action_combinations(item) THEN {} ELSE {"combination"})
  \cup (IF validate_action_order(item) THEN {} ELSE {"order"})
  \cup (IF validate_item_name(item) THEN {} ELSE {"name"})
  \cup (IF validate_changed_action(item) THEN {} ELSE {"changed"})
  \cup (IF validate_versions(item, d) THEN {} ELSE {"unknown version"})
  \cup (IF validate_nested_flag(item, d) THEN {} ELSE {"nested"})

-----------------------------------------------------------------------------
(* Changesets.                                                               *)

Addition(ident, ty) == [status |-> "Addition", ident |-> ident, ty |-> ty]
Change(from_ident, from_type, ident, ty, change) ==
  [status |-> "Change", from_ident |-> from_ident, from_type |-> from_type,
   ident |-> ident, ty |-> ty,
   upgrade_with |-> change.upgrade_with, downgrade_with |-> change.downgrade_with]
Deprecation(previous_ident, ident) ==
  [status |-> "Deprecation", previous_ident |-> previous_ident, ident |-> ident]
NoChange(previously_deprecated, ident, ty) ==
  [status |-> "NoChange", previously_deprecated |-> previously_deprecated,
   ident |-> ident, ty |-> ty]
NotPresent == [status |-> "NotPresent"]
Unreachable == [status |-> "unreachable"]

\* BTreeMap::insert
MapInsert(map, key, value) ==
  [k \in DOMAIN map \cup {key} |-> IF k = key THEN value ELSE map[k]]

EmptyMap == [k \in {} |-> NotPresent]

\* An item as declared: what its last change leaves, under its name before a
\* deprecation.
AsDeclared(item) ==
  [ident   |-> IF item.deprecated # None THEN cleaned(item) ELSE original(item),
   ty      |-> item.ty,
   actions |-> IF item.deprecated = None THEN EmptyMap
               ELSE MapInsert(EmptyMap, item.deprecated,
                              Deprecation(cleaned(item), original(item)))]

\* One change further back in time.
Undo(change, after) ==
  LET from_ident == IF change.from_name = None THEN after.ident ELSE change.from_name
      from_type  == IF change.from_type = None THEN after.ty ELSE change.from_type
  IN  [ident   |-> from_ident,
       ty      |-> from_type,
       actions |-> MapInsert(after.actions, change.since,
                             Change(from_ident, from_type, after.ident, after.ty, change))]

\* What the item was before change i + 1, from the last change to the first one.
Past(item, changes) ==
  LET past[i \in 0..Len(changes)] ==
        IF i = Len(changes) THEN AsDeclared(item) ELSE Undo(changes[i + 1], past[i + 1])
  IN  past

Actions(item, changes) ==
  LET first == Past(item, changes)[0]
  IN  IF item.added = None THEN first.actions
      ELSE MapInsert(first.actions, item.added, Addition(first.ident, first.ty))

\* Mutant: the previous name is looked up in the order of declaration.
into_changeset_Forward(item) == Actions(item, Reverse(item.changes))

into_changeset(item) == Actions(item, item.changes)

\* The status of the greatest version before and of the least one after v, each
\* as a set of at most one.
get_neighbors(changes, v) ==
  LET below == {w \in DOMAIN changes : VersionLess(w, v)}
      above == {w \in DOMAIN changes : VersionLess(v, w)}
  IN  [below |-> {changes[w] : w \in {x \in below : \A y \in below : ~VersionLess(x, y)}},
       above |-> {changes[w] : w \in {x \in above : \A y \in above : ~VersionLess(y, x)}}]

StatusBefore(after, ty) ==
  CASE after.status = "Addition" -> NotPresent
    [] after.status = "Change" -> NoChange(FALSE, after.from_ident, after.from_type)
    [] after.status = "Deprecation" -> NoChange(FALSE, after.previous_ident, ty)
    [] after.status = "NoChange" -> after
    [] OTHER -> Unreachable

StatusAfter(before, last, ty) ==
  CASE before.status \in {"Addition", "Change"} -> NoChange(FALSE, before.ident, before.ty)
    [] before.status = "Deprecation" /\ last -> NoChange(TRUE, before.ident, ty)
    [] before.status = "NoChange" -> before
    [] before.status = "NotPresent" /\ ~last -> before
    [] OTHER -> Unreachable

StatusBetween(neighbors, ty) ==
  IF neighbors.below # {}
  THEN StatusAfter(CHOOSE before \in neighbors.below : TRUE, neighbors.above = {}, ty)
  ELSE IF neighbors.above # {}
  THEN StatusBefore(CHOOSE after \in neighbors.above : TRUE, ty)
  ELSE Unreachable

InsertVersion(changes, v, ty) ==
  IF v \in DOMAIN changes THEN changes
  ELSE MapInsert(changes, v, StatusBetween(get_neighbors(changes, v), ty))

Inserted(changes, versions, ty) ==
  LET inserted[k \in 0..Len(versions)] ==
        IF k = 0 THEN changes ELSE InsertVersion(inserted[k - 1], versions[k], ty)
  IN  inserted

insert_container_versions(changes, versions, ty) ==
  Inserted(changes, versions, ty)[Len(versions)]

\* An item without a history is the same in every version.
ChangesOf(item, versions) ==
  LET changes == into_changeset(item)
  IN  IF DOMAIN changes = {}
      THEN [v \in Range(versions) |-> NoChange(FALSE, original(item), item.ty)]
      ELSE insert_container_versions(changes, versions, item.ty)

-----------------------------------------------------------------------------
(* Expansion.  A generated field or variant is its declaration with the       *)
(* status of every version.                                                  *)

Item(item, versions) ==
  [ident |-> item.ident, ty |-> item.ty, added |-> item.added, changes |-> item.changes,
   deprecated |-> item.deprecated, nested |-> item.nested, of |-> item.of, hint |-> item.hint,
   history |-> ChangesOf(item, versions)]

\* changes.get_expect
StatusAt(item, v) == item.history[v]

\* ItemStatus::get_ident, unreachable!() for NotPresent
get_ident(status) == IF "ident" \in DOMAIN status THEN status.ident ELSE None

\* Field::generate_for_container: the field in the definition of a version.
generate_for_container(item, v) ==
  LET status == StatusAt(item, v)
  IN  CASE status.status = "NotPresent" -> {}
        [] status.status = "Deprecation" ->
             {[ident |-> status.ident, ty |-> item.ty, deprecated |-> TRUE]}
        [] status.status = "NoChange" ->
             {[ident |-> status.ident, ty |-> status.ty,
               deprecated |-> status.previously_deprecated]}
        [] OTHER -> {[ident |-> status.ident, ty |-> status.ty, deprecated |-> FALSE]}

Definition(items, v) == UNION {generate_for_container(items[i], v) : i \in DOMAIN items}

Assign(lhs, rhs, with) == [lhs |-> lhs, rhs |-> rhs, with |-> with]

DefaultFn == <<"default_fn">>

\* Field::generate_for_from_impl: how the conversion between two neighbouring
\* versions sets the field, {} when it has nothing to set.
generate_for_from_impl(field, direction, version, next) ==
  LET old == StatusAt(field, version)
      new == StatusAt(field, next)
  IN  CASE old.status = "NotPresent" /\ new.status = "NotPresent" -> {}
        [] new.status = "Addition" ->
             IF direction = "Upgrade" THEN {Assign(new.ident, None, DefaultFn)} ELSE {}
        [] new.status = "Change" ->
             IF direction = "Upgrade"
             THEN {Assign(new.ident, new.from_ident, new.upgrade_with)}
             ELSE {Assign(new.from_ident, new.ident, new.downgrade_with)}
        [] OTHER ->
             IF direction = "Upgrade"
             THEN {Assign(get_ident(new), get_ident(old), None)}
             ELSE {Assign(get_ident(old), get_ident(new), None)}

\* Variant::generate_for_from_impl: the match arm of a variant.
VariantArm(variant, direction, version, next) ==
  LET old == StatusAt(variant, version)
      new == StatusAt(variant, next)
  IN  IF new.status = "Addition" THEN {}
      ELSE IF direction = "Upgrade"
           THEN {Assign(get_ident(new), get_ident(old), None)}
           ELSE {Assign(get_ident(old), get_ident(new), None)}

\* The items emitted once for the spec, by the skip options.
generate_merged_crd_fn(d) == IF "merged_crd" \in d.skip THEN {} ELSE {"merged_crd"}
generate_version_enum(d) ==
  IF {"merged_crd", "try_convert"} \subseteq d.skip THEN {} ELSE {"version enum"}
generate_status_struct(d) ==
  IF d.tracking /\ "try_convert" \notin d.skip THEN {"status struct"} ELSE {}
generate_entry_impl_block(d) ==
  generate_merged_crd_fn(d) \cup (IF "try_convert" \in d.skip THEN {} ELSE {"try_convert"})
SpecItems(d) ==
  {"entry enum"} \cup generate_entry_impl_block(d) \cup generate_version_enum(d)
  \cup generate_status_struct(d)
  \cup (IF "object_from" \in d.skip THEN {} ELSE {"object From"})
  \cup (IF "from" \in d.skip THEN {} ELSE {"spec From"})

\* generate_kube_attribute: whether the object's status is the generated one.
UsesGeneratedStatus(d) == d.tracking /\ ~({"merged_crd", "try_convert"} \subseteq d.skip)

\* Module::generate_tokens
generate_tokens(d) ==
  LET versions == SortedVersions(d)
      expand(items) == [i \in DOMAIN items |-> Item(items[i], versions)]
  IN  [versions |-> versions, tracking |-> d.tracking, items |-> SpecItems(d),
       structs |-> [n \in DOMAIN d.structs |-> expand(d.structs[n])],
       enums |-> [n \in DOMAIN d.enums |-> expand(d.enums[n])]]

\* Module::new: the errors of all containers are collected.
ExpansionErrors(d) ==
  LET items == UNION {Range(c) : c \in Range(d.structs) \cup Range(d.enums)}
  IN  ModuleErrors(d)
        \cup UNION {ItemErrors(item, d) : item \in items}
        \cup (IF d.submodules \subseteq Range(d.versions) THEN {} ELSE {"submodule"})

ModuleExpansion(d) ==
  IF ExpansionErrors(d) # {} THEN Err(ExpansionErrors(d)) ELSE Ok(generate_tokens(d))

\* generate_for_json_path: the ident whose path variable a nested field's
\* conversion may name.
generate_for_json_path(field) == IF field.nested THEN {cleaned(field)} ELSE {}

\* Whether rustc accepts the definitions of a container ...
DistinctIdents(items, v) ==
  \A i, j \in DOMAIN items :
    \A f \in generate_for_container(items[i], v), g \in generate_for_container(items[j], v) :
      f.ident = g.ident => i = j

Idents(items, v) == {f.ident : f \in Definition(items, v)}

\* ... the conversion of a struct to the next or from it to the previous version ...
FromImplCompiles(fields, direction, version, next, code) ==
  LET from == IF direction = "Upgrade" THEN version ELSE next
      to   == IF direction = "Upgrade" THEN next ELSE version
      sets(i) == generate_for_from_impl(fields[i], direction, version, next)
  IN  /\ \A i, j \in DOMAIN fields : \A a \in sets(i), b \in sets(j) : a.lhs = b.lhs => i = j
      /\ UNION {{a.lhs : a \in sets(i)} : i \in DOMAIN fields} = Idents(fields, to)
      /\ \A i \in DOMAIN fields : \A a \in sets(i) :
           /\ a.with = DefaultFn \/ a.rhs \in Idents(fields, from)
           /\ (fields[i].nested /\ "spec From" \in code.items /\ a.with = None) =>
                a.lhs \in generate_for_json_path(fields[i])

\* ... and of an enum.
ArmsCompile(variants, direction, version, next) ==
  LET from == IF direction = "Upgrade" THEN version ELSE next
      to   == IF direction = "Upgrade" THEN next ELSE version
      arms(i) == VariantArm(variants[i], direction, version, next)
  IN  /\ UNION {{a.rhs : a \in arms(i)} : i \in DOMAIN variants} = Idents(variants, from)
      /\ \A i \in DOMAIN variants : \A a \in arms(i) : a.lhs \in Idents(variants, to)

Compiles(d, code) ==
  /\ \A k \in DOMAIN code.versions, c \in Range(code.structs) \cup Range(code.enums) :
       DistinctIdents(c, code.versions[k])
  /\ \A direction \in {"Upgrade", "Downgrade"}, k \in 1..(Len(code.versions) - 1) :
       /\ \A fields \in Range(code.structs) :
            FromImplCompiles(fields, direction, code.versions[k], code.versions[k + 1], code)
       /\ \A variants \in Range(code.enums) :
            ArmsCompile(variants, direction, code.versions[k], code.versions[k + 1])
  /\ UsesGeneratedStatus(d) => "status struct" \in code.items

-----------------------------------------------------------------------------
(* The generated conversions.  A struct value is a function on the idents of  *)
(* its version.  A panic is the value Panic.                                 *)

\* .into(): reflexive for one type, else the user's From impl.
Into(value, from_ty, to_ty) ==
  IF from_ty = to_ty THEN value ELSE ConvertFns[<<from_ty, to_ty>>][value]

EnumInto(enum, value, direction, version, next) ==
  LET arms == UNION {VariantArm(enum[i], direction, version, next) : i \in DOMAIN enum}
      matching == {arm \in arms : arm.rhs = value}
  IN  IF matching = {} THEN Panic ELSE (CHOOSE arm \in matching : TRUE).lhs

TyOf(field, v) == LET status == StatusAt(field, v)
                  IN  IF "ty" \in DOMAIN status THEN status.ty ELSE field.ty

\* The items a version has.
PresentItems(fields, v) == {i \in DOMAIN fields : generate_for_container(fields[i], v) # {}}

\* The value of every field of a struct that holds no struct, by `which` of
\* TypeValues.
InnerValue(code, fields, v, which) ==
  [ident \in {get_ident(StatusAt(fields[i], v)) : i \in PresentItems(fields, v)} |->
     LET i == CHOOSE j \in PresentItems(fields, v) : get_ident(StatusAt(fields[j], v)) = ident
     IN  IF fields[i].of \in DOMAIN code.enums
         THEN get_ident(StatusAt(code.enums[fields[i].of][1], v))
         ELSE TypeValues[TyOf(fields[i], v)][which]]

\* default_fn, core::default::Default::default unless the declaration names another.
DefaultValue(code, field, v) ==
  CASE field.hint = "Option" -> None
    [] field.hint = "Vec" -> <<>>
    [] field.of \in DOMAIN code.structs -> InnerValue(code, code.structs[field.of], v, "default")
    [] field.of \in DOMAIN code.enums -> get_ident(StatusAt(code.enums[field.of][1], v))
    [] OTHER -> TypeValues[TyOf(field, v)].default

\* generate_from_impl_field for a field that holds no struct.
PlainField(code, field, assign, x, direction, version, next) ==
  LET from == IF direction = "Upgrade" THEN version ELSE next
      to   == IF direction = "Upgrade" THEN next ELSE version
  IN  CASE assign.with = DefaultFn -> DefaultValue(code, field, to)
        [] assign.with \notin {DefaultFn, None} -> ConvertFns[assign.with][x[assign.rhs]]
        [] field.of \in DOMAIN code.enums ->
             EnumInto(code.enums[field.of], x[assign.rhs], direction, version, next)
        [] OTHER -> Into(x[assign.rhs], TyOf(field, from), TyOf(field, to))

IsAddition(field, v) == StatusAt(field, v).status = "Addition"

needs_tracking(fields, next) == \E i \in DOMAIN fields : IsAddition(fields[i], next)

jthong_path(parent, child) == Append(parent, child)

\* The entry a downgrade saves for an added field.
generate_for_status_insertion(field, x, parent, next) ==
  LET ident == get_ident(StatusAt(field, next))
  IN  IF IsAddition(field, next)
      THEN <<[json_path |-> jthong_path(parent, ident), value |-> x[ident]]>> ELSE <<>>

\* The path under which an upgrade finds the value of an added field.
generate_for_status_removal(field, parent, next) ==
  IF IsAddition(field, next)
  THEN {jthong_path(parent, get_ident(StatusAt(field, next)))} ELSE {}

\* generate_tracking_inserts: a downgrade saves what the older version lacks.
TrackingInserts(code, fields, x, upgrades, parent, direction, next) ==
  IF ~code.tracking \/ ~needs_tracking(fields, next) \/ direction = "Upgrade" THEN upgrades
  ELSE LET entry == IF next \in DOMAIN upgrades THEN upgrades[next] ELSE <<>>
           saved == FlattenSeq([i \in DOMAIN fields |->
                      generate_for_status_insertion(fields[i], x, parent, next)])
       IN  (next :> entry \o saved) @@ upgrades

\* Mutant: the values stay in the status.
TrackingRemovals_Keep(code, fields, acc, parent, direction, next) == acc

\* generate_tracking_removals: an upgrade takes every saved value of the version;
\* a path that is no added field of this struct is unreachable!().
TrackingRemovals(code, fields, acc, parent, direction, next) ==
  IF ~code.tracking \/ ~needs_tracking(fields, next) \/ direction = "Downgrade"
     \/ next \notin DOMAIN acc.upgrades
  THEN acc
  ELSE LET arms == UNION {generate_for_status_removal(fields[i], parent, next) :
                            i \in DOMAIN fields}
           restore(a, change) ==
             IF change.json_path \in arms
             THEN [a EXCEPT !.value = (Last(change.json_path) :> change.value) @@ @]
             ELSE [a EXCEPT !.panic = TRUE]
           taken == [acc EXCEPT !.upgrades = Restrict(@, DOMAIN @ \ {next})]
       IN  FoldLeft(restore, taken, acc.upgrades[next])

\* A field of the struct under construction gets its converted value.
Assigned(acc, lhs, one) ==
  [value |-> (lhs :> one.value) @@ acc.value, upgrades |-> one.upgrades,
   panic |-> acc.panic \/ one.panic \/ one.value = Panic]

Pushed(acc, one) ==
  [value |-> Append(acc.value, one.value), upgrades |-> one.upgrades,
   panic |-> acc.panic \/ one.panic]

\* The conversion of a struct that holds no struct.
InnerFrom(code, fields, x, upgrades, parent, direction, version, next) ==
  LET step(acc, field) ==
        LET assigns == generate_for_from_impl(field, direction, version, next)
            assign == CHOOSE a \in assigns : TRUE
        IN  IF assigns = {} THEN acc
            ELSE Assigned(acc, assign.lhs,
                   [value |-> PlainField(code, field, assign, x, direction, version, next),
                    upgrades |-> acc.upgrades, panic |-> FALSE])
      start == [value |-> <<>>, panic |-> FALSE,
                upgrades |-> TrackingInserts(code, fields, x, upgrades, parent, direction, next)]
  IN  TrackingRemovals(code, fields, FoldLeft(step, start, fields), parent, direction, next)

\* generate_tracking_conversion_function and generate_conversion_function: a
\* struct, an optional struct or a list of structs.
NestedField(code, field, value, upgrades, parent, direction, version, next) ==
  LET path == jthong_path(parent, original(field))
      inner(v, u) == InnerFrom(code, code.structs[field.of], v, u, path, direction, version, next)
      each(acc, v) == Pushed(acc, inner(v, acc.upgrades))
  IN  CASE field.hint = "Option" /\ value = None ->
             [value |-> None, upgrades |-> upgrades, panic |-> FALSE]
        [] field.hint = "Vec" ->
             FoldLeft(each, [value |-> <<>>, upgrades |-> upgrades, panic |-> FALSE], value)
        [] OTHER -> inner(value, upgrades)

\* generate_tracking_from_impl and generate_plain_from_impl of the spec.
tracking_from(code, fields, x, upgrades, parent, direction, version, next) ==
  LET assigned(acc, field, assign) ==
        IF field.of \in DOMAIN code.structs /\ assign.with = None
        THEN NestedField(code, field, x[assign.rhs], acc.upgrades, parent,
                         direction, version, next)
        ELSE [value |-> PlainField(code, field, assign, x, direction, version, next),
              upgrades |-> acc.upgrades, panic |-> FALSE]
      step(acc, field) ==
        LET assigns == generate_for_from_impl(field, direction, version, next)
            assign == CHOOSE a \in assigns : TRUE
        IN  IF assigns = {} THEN acc
            ELSE Assigned(acc, assign.lhs, assigned(acc, field, assign))
      start == [value |-> <<>>, panic |-> FALSE,
                upgrades |-> TrackingInserts(code, fields, x, upgrades, parent, direction, next)]
  IN  TrackingRemovals(code, fields, FoldLeft(step, start, fields), parent, direction, next)

Position(versions, v) == CHOOSE i \in DOMAIN versions : versions[i] = v

\* conversion_paths: the versions after the current one up to the desired one.
conversion_paths(versions, start, end) ==
  LET s == Position(versions, start)
      e == Position(versions, end)
  IN  IF s < e THEN [i \in 1..(e - s) |-> s + i] ELSE [i \in 1..(s - e) |-> s - i]

WithSpec(code, obj, converted) ==
  [obj EXCEPT !.spec = converted.value,
              !.upgrades = IF code.tracking THEN converted.upgrades ELSE @,
              !.panic = @ \/ converted.panic]

\* The object's From impl between neighbours: metadata is kept and a missing
\* status becomes the default one.
ObjectFrom(code, obj, to) ==
  LET at == Position(code.versions, obj.version)
      direction == IF to > at THEN "Upgrade" ELSE "Downgrade"
      version == code.versions[IF to > at THEN at ELSE to]
      next == code.versions[IF to > at THEN to ELSE at]
  IN  WithSpec(code, [obj EXCEPT !.version = code.versions[to]],
               tracking_from(code, code.structs["spec"], obj.spec,
                             IF obj.upgrades = None THEN <<>> ELSE obj.upgrades,
                             <<"$">>, direction, version, next))

\* A match arm of convert_objects.
ConvertObject(code, obj, desired) ==
  LET path == conversion_paths(code.versions, obj.version, desired)
      converted[k \in 0..Len(path)] ==
        IF k = 0 THEN obj ELSE ObjectFrom(code, converted[k - 1], path[k])
  IN  converted[Len(path)]

-----------------------------------------------------------------------------
(* try_convert.                                                              *)

\* from_json_object
from_json_object(code, obj) ==
  CASE obj.kind = None -> Err("FieldNotPresent kind")
    [] obj.kind = "number" -> Err("FieldNotStr kind")
    [] obj.kind # "Kind" -> Err("UnexpectedKind")
    [] obj.version = None -> Err("FieldNotPresent apiVersion")
    [] obj.version \notin Range(code.versions) -> Err("UnknownApiVersion")
    [] DOMAIN obj.spec # {f.ident : f \in Definition(code.structs["spec"], obj.version)} ->
         Err("Deserialize")
    [] OTHER -> Ok(obj)

\* The version enum's from_api_version
from_api_version(code, desired) ==
  IF desired \in Range(code.versions) THEN Ok(desired) ELSE Err("ParseDesiredApiVersion")

\* Mutant: an object that does not parse is left out.
ConvertNext_Skips(code, converted, obj, desired) ==
  IF from_json_object(code, obj).ok
  THEN Ok(Append(converted.value, ConvertObject(code, obj, desired))) ELSE converted

\* The loop's body; the first object that does not parse ends it.
ConvertNext(code, converted, obj, desired) ==
  IF ~converted.ok THEN converted
  ELSE IF from_json_object(code, obj).ok
  THEN Ok(Append(converted.value, ConvertObject(code, obj, desired)))
  ELSE Err("Parse")

ConvertedUpTo(code, objects, desired) ==
  LET converted[k \in 0..Len(objects)] ==
        IF k = 0 THEN Ok(<<>>) ELSE ConvertNext(code, converted[k - 1], objects[k], desired)
  IN  converted

convert_objects(code, objects, desired) ==
  IF ~from_api_version(code, desired).ok THEN from_api_version(code, desired)
  ELSE ConvertedUpTo(code, objects, desired)[Len(objects)]

http_status_code(error) == IF error = "Serialize" THEN 500 ELSE 400

Answer(uid, result) ==
  IF result.ok THEN [uid |-> uid, code |-> 200, objects |-> result.value]
  ELSE [uid |-> uid, code |-> http_status_code(result.error), objects |-> <<>>]

\* try_convert: a review from which no request could be read is answered as invalid.
try_convert(code, request) ==
  IF ~request.ok
  THEN [uid |-> None, code |-> 400, objects |-> <<>>]
  ELSE Answer(request.value.uid,
              convert_objects(code, request.value.objects, request.value.desired))

-----------------------------------------------------------------------------
(* Users and the API server.                                                 *)

SpecValue(code, v, empty) ==
  LET fields == code.structs["spec"]
      inner(field) == InnerValue(code, code.structs[field.of], v, "initial")
      present == PresentItems(fields, v)
      value(field) == CASE field.hint = "Option" /\ empty -> None
                        [] field.hint = "Vec" -> IF empty THEN <<>> ELSE <<inner(field), inner(field)>>
                        [] OTHER -> inner(field)
  IN  [ident \in {get_ident(StatusAt(fields[i], v)) : i \in present} |->
         LET i == CHOOSE j \in present : get_ident(StatusAt(fields[j], v)) = ident
         IN  IF fields[i].of \in DOMAIN code.structs THEN value(fields[i])
             ELSE InnerValue(code, fields, v, "initial")[ident]]

\* A part of the object a user sets: <<field>> or <<field, element, inner field>>.
KeysOf(code, obj) ==
  LET fields == code.structs["spec"]
      present == PresentItems(fields, obj.version)
      plain == {i \in present : fields[i].of \notin DOMAIN code.structs}
      elements(i) == LET x == obj.spec[get_ident(StatusAt(fields[i], obj.version))]
                     IN  CASE x = None -> {}
                           [] fields[i].hint = "Vec" -> DOMAIN x
                           [] OTHER -> {0}
  IN  {<<i>> : i \in plain}
      \cup UNION {{<<i, e, j>> : e \in elements(i),
                     j \in PresentItems(code.structs[fields[i].of], obj.version)}
                    : i \in present \ plain}

FieldOf(code, key) ==
  LET field == code.structs["spec"][key[1]]
  IN  IF Len(key) = 1 THEN field ELSE code.structs[field.of][key[3]]

ValueOf(code, obj, key) ==
  LET x == obj.spec[get_ident(StatusAt(code.structs["spec"][key[1]], obj.version))]
      y == IF key[2] = 0 THEN x ELSE x[key[2]]
  IN  IF Len(key) = 1 THEN x ELSE y[get_ident(StatusAt(FieldOf(code, key), obj.version))]

SetValue(code, obj, key, value) ==
  LET outer == get_ident(StatusAt(code.structs["spec"][key[1]], obj.version))
      ident == get_ident(StatusAt(FieldOf(code, key), obj.version))
  IN  CASE Len(key) = 1 -> [obj EXCEPT !.spec[outer] = value]
        [] Len(key) = 3 /\ key[2] = 0 -> [obj EXCEPT !.spec[outer][ident] = value]
        [] OTHER -> [obj EXCEPT !.spec[outer][key[2]][ident] = value]

VersionedInit ==
  /\ declared = None /\ generated = None
  /\ object = None /\ truth = <<>>
  /\ response = None
  /\ edits = 0 /\ conversions = 0

Expand ==
  /\ declared = None
  /\ \E d \in Declarations : declared' = d /\ generated' = ModuleExpansion(d)
  /\ UNCHANGED <<object, truth, response, edits, conversions>>

NewObject(code, v, empty) ==
  [version |-> v, kind |-> "Kind", metadata |-> 0, panic |-> FALSE,
   spec |-> SpecValue(code, v, empty), upgrades |-> None]

\* A user creates an object in some version, its optional parts set or not.
Submit ==
  /\ declared # None /\ object = None
  /\ generated.ok /\ Compiles(declared, generated.value)
  /\ \E v \in Range(generated.value.versions), empty \in BOOLEAN :
       LET obj == NewObject(generated.value, v, empty)
       IN  /\ object' = obj
           /\ truth' = [key \in KeysOf(generated.value, obj) |->
                          [version |-> v, value |-> ValueOf(generated.value, obj, key)]]
  /\ UNCHANGED <<declared, generated, response, edits, conversions>>

\* A user changes one value in the version the object is in.
Edit ==
  /\ object # None /\ ~object.panic /\ edits < MaxEdits
  /\ \E key \in KeysOf(generated.value, object) :
       LET code == generated.value
           field == FieldOf(code, key)
           v == object.version
           enum == code.enums[field.of]
           value == IF field.of \in DOMAIN code.enums
                    THEN get_ident(StatusAt(enum[Len(enum)], v))
                    ELSE TypeValues[TyOf(field, v)].edited
       IN  /\ object' = SetValue(code, object, key, value)
           /\ truth' = (key :> [version |-> v, value |-> value]) @@ truth
  /\ edits' = edits + 1
  /\ response' = None
  /\ UNCHANGED <<declared, generated, conversions>>

\* The API server has the object converted; without tracking, the values of
\* fields that a version on the way lacks are given up.
Convert ==
  /\ object # None /\ ~object.panic /\ conversions < MaxConversions
  /\ "try_convert" \in generated.value.items
  /\ \E desired \in Range(generated.value.versions) \ {object.version} :
       LET code == generated.value
           passed == {code.versions[i] : i \in
                        Range(conversion_paths(code.versions, object.version, desired))}
           answer == try_convert(code, Ok([uid |-> 1, desired |-> desired,
                                           objects |-> <<object>>]))
           outer(key) == code.structs["spec"][key[1]]
           kept(key) == \/ code.tracking
                        \/ \A v \in passed : /\ generate_for_container(outer(key), v) # {}
                                             /\ generate_for_container(FieldOf(code, key), v) # {}
           old == {key \in DOMAIN truth : kept(key)}
       IN  /\ object' = answer.objects[1]
           /\ truth' = Restrict(truth, old)
  /\ conversions' = conversions + 1
  /\ response' = None
  /\ UNCHANGED <<declared, generated, edits>>

\* What is wrong with an object of a ConversionReview.
Damage(obj, defect) ==
  CASE defect = "none" -> obj
    [] defect = "kind missing" -> [obj EXCEPT !.kind = None]
    [] defect = "kind not a string" -> [obj EXCEPT !.kind = "number"]
    [] defect = "other kind" -> [obj EXCEPT !.kind = "OtherKind"]
    [] defect = "version missing" -> [obj EXCEPT !.version = None]
    [] defect = "unknown version" -> [obj EXCEPT !.version = UnknownVersion]
    [] defect = "other fields" -> [obj EXCEPT !.spec = [ident \in {<<>>} |-> 0]]

\* ConversionRequest::from_review, of a review of copies of the object.
from_review(code, obj, review) ==
  IF review.desired = None THEN Err("RequestMissing")
  ELSE Ok([uid |-> review.uid,
           desired |-> IF review.desired \in DOMAIN code.versions
                       THEN code.versions[review.desired] ELSE UnknownVersion,
           objects |-> [i \in DOMAIN review.defects |->
                          Damage([obj EXCEPT !.metadata = i], review.defects[i])]])

\* A review of several copies of the object, some of them not valid.
Review ==
  /\ object # None /\ ~object.panic /\ response = None /\ edits = 0 /\ conversions = 0
  /\ "try_convert" \in generated.value.items
  /\ \E review \in Reviews :
       LET code == generated.value
       IN  response' = [review |-> review,
                        answer |-> try_convert(code, from_review(code, object, review))]
  /\ UNCHANGED <<declared, generated, object, truth, edits, conversions>>

VersionedNext == Expand \/ Submit \/ Edit \/ Convert \/ Review

VersionedSpec == VersionedInit /\ [][VersionedNext]_versionedVars

-----------------------------------------------------------------------------
(* Reference: an item's history, read off its declaration.                   *)

NotBefore(v, w) == ~VersionLess(v, w)

PresentIn(item, v) == item.added = None \/ NotBefore(v, item.added)

DeprecatedIn(item, v) == item.deprecated # None /\ NotBefore(v, item.deprecated)

\* The name (type) before the first of some changes that give one, the declared
\* one if there are none.
NameFrom(item, renames) ==
  IF renames = {} THEN cleaned(item) ELSE item.changes[Min(renames)].from_name
TypeFrom(item, retypes) ==
  IF retypes = {} THEN item.ty ELSE item.changes[Min(retypes)].from_type

LaterChanges(item, v) == {i \in DOMAIN item.changes : VersionLess(v, item.changes[i].since)}
Renames(item) == {i \in DOMAIN item.changes : item.changes[i].from_name # None}
Retypes(item) == {i \in DOMAIN item.changes : item.changes[i].from_type # None}

NameIn(item, v) ==
  IF DeprecatedIn(item, v) THEN original(item)
  ELSE NameFrom(item, LaterChanges(item, v) \cap Renames(item))

TypeIn(item, v) == TypeFrom(item, LaterChanges(item, v) \cap Retypes(item))

\* A value given in version v, in terms of version w.
Carry(code, item, value, v, w) ==
  LET retyped == SelectSeq(item.changes, LAMBDA c : c.from_type # None)
      before(i) == retyped[i].from_type
      after(i) == TypeIn(item, retyped[i].since)
      up == {i \in DOMAIN retyped : VersionLess(v, retyped[i].since) /\ NotBefore(w, retyped[i].since)}
      down == {i \in DOMAIN retyped : VersionLess(w, retyped[i].since) /\ NotBefore(v, retyped[i].since)}
      upgrade(x, i) == ConvertFns[IF retyped[i].upgrade_with # None THEN retyped[i].upgrade_with
                                  ELSE <<before(i), after(i)>>][x]
      downgrade(x, i) == ConvertFns[IF retyped[i].downgrade_with # None
                                    THEN retyped[i].downgrade_with
                                    ELSE <<after(i), before(i)>>][x]
  IN  IF item.of \in DOMAIN code.enums
      THEN NameIn(CHOOSE variant \in Range(code.enums[item.of]) : NameIn(variant, v) = value, w)
      ELSE FoldLeft(downgrade,
                    FoldLeft(upgrade, value, SetToSortSeq(up, <)),
                    SetToSortSeq(down, >))

-----------------------------------------------------------------------------
(* Declarations the macro accepts although what it makes of them does not     *)
(* compile, panics or loses values.                                          *)

UnorderedChanges(item) ==
  \E i, j \in DOMAIN item.changes :
    i < j /\ NotBefore(item.changes[i].since, item.changes[j].since)

NameClash(items, v) ==
  \E i, j \in DOMAIN items : /\ i # j
                             /\ PresentIn(items[i], v) /\ PresentIn(items[j], v)
                             /\ NameIn(items[i], v) = NameIn(items[j], v)

AddsIn(fields) == {fields[i].added : i \in DOMAIN fields} \ {None}

SharedTracking(d) ==
  LET nested == {i \in DOMAIN d.structs["spec"] : d.structs["spec"][i].nested}
      of(i) == d.structs[d.structs["spec"][i].of]
  IN  \/ \E i \in nested : AddsIn(of(i)) \cap AddsIn(d.structs["spec"]) # {}
      \/ \E i, j \in nested : i # j /\ AddsIn(of(i)) \cap AddsIn(of(j)) # {}
      \/ \E i \in nested : d.structs["spec"][i].hint = "Vec" /\ AddsIn(of(i)) # {}

KnownGap(d) ==
  \/ \E v \in Range(d.versions), c \in Range(d.structs) \cup Range(d.enums) : NameClash(c, v)
  \/ \E n \in DOMAIN d.structs : \E f \in Range(d.structs[n]) :
       UnorderedChanges(f) \/ (f.nested /\ (f.changes # <<>> \/ f.deprecated # None))
  \/ \E n \in DOMAIN d.enums : \E f \in Range(d.enums[n]) :
       UnorderedChanges(f) \/ f.added # None
  \/ d.tracking /\ "try_convert" \in d.skip /\ "merged_crd" \notin d.skip
  \/ d.tracking /\ SharedTracking(d)

-----------------------------------------------------------------------------
(* Properties.                                                               *)

Expanded == declared # None /\ generated.ok /\ ~KnownGap(declared)

DefinedContainers(code) == Range(code.structs) \cup Range(code.enums)

\* Whatever actions a field or variant has and wherever versions without an
\* action lie between them, each version's definition has it under the name,
\* with the type and with the deprecation its declared history gives it there
\* (insert_container_versions fills the gaps from the neighbours).
DefinitionsFollowHistory ==
  Expanded =>
    \A c \in DefinedContainers(generated.value), v \in Range(generated.value.versions) :
      \A i \in DOMAIN c :
        generate_for_container(c[i], v) =
          IF ~PresentIn(c[i], v) THEN {}
          ELSE {[ident |-> NameIn(c[i], v), ty |-> TypeIn(c[i], v),
                 deprecated |-> DeprecatedIn(c[i], v)]}

\* What the macro makes of a declaration compiles: the conversion between two
\* neighbouring versions sets every field of the version it makes once and reads
\* only fields of the version it is given, the conversion of an enum has an arm
\* for every variant, and the items the code names are generated.
GeneratedCodeCompiles == Expanded => Compiles(declared, generated.value)

\* Across any sequence of conversions between versions and of edits in any of
\* them, the object has the fields of its version and each of them holds what a
\* user last put there, carried along the declared changes; with
\* experimental_conversion_tracking even after the object was in a version that
\* lacks the field.  No conversion panics.
ConversionsKeepValues ==
  (Expanded /\ object # None) =>
    LET code == generated.value
    IN  /\ ~object.panic
        /\ DOMAIN object.spec = {f.ident : f \in Definition(code.structs["spec"], object.version)}
        /\ \A key \in KeysOf(code, object) \cap DOMAIN truth :
             ValueOf(code, object, key)
               = Carry(code, FieldOf(code, key), truth[key].value,
                       truth[key].version, object.version)

\* A ConversionReview succeeds exactly if the desired version is known and every
\* object is one of the resource's; then it holds all of them, in order, in the
\* desired version, and otherwise none.
ReviewsAreAllOrNothing ==
  (Expanded /\ response # None) =>
    LET review == response.review
        answer == response.answer
        fine == /\ review.desired \in DOMAIN generated.value.versions
                /\ Range(review.defects) \subseteq {"none"}
    IN  /\ answer.uid = IF review.desired = None THEN None ELSE review.uid
        /\ IF fine
           THEN /\ answer.code = 200
                /\ Len(answer.objects) = Len(review.defects)
                /\ \A i \in DOMAIN answer.objects :
                     /\ answer.objects[i].metadata = i
                     /\ answer.objects[i].version = generated.value.versions[review.desired]
           ELSE answer.code = 400 /\ answer.objects = <<>>

\* The macro generates what the history of each item asks for, and it compiles.
ExpansionIsSound == DefinitionsFollowHistory /\ GeneratedCodeCompiles

=============================================================================
