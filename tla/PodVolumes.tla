----------------------------- MODULE PodVolumes -----------------------------
(***************************************************************************)
(* How PodBuilder and ContainerBuilder collect volumes and mounts          *)
(* (stackable-operator/src/builder/pod): an IndexMap of volumes by name,   *)
(* and one of mounts by path, for the modules that add some.               *)
(***************************************************************************)
EXTENDS Integers, Sequences, SequencesExt, Options

\* the fields of a record or function replaced by those of another
Overlay(f, g) == [x \in DOMAIN f \cup DOMAIN g |-> IF x \in DOMAIN g THEN g[x] ELSE f[x]]

Keyed(b, item) == {i \in DOMAIN b.items : b.items[i].key = item.key}

add_volume_Always(b, item) == Ok([b EXCEPT !.items = Append(@, item)])

\* add_volume and add_volume_mount_impl: the same content again is accepted,
\* different content is refused, and the builder stays as it was
add_volume(b, item) ==
    IF Keyed(b, item) = {} THEN Ok([b EXCEPT !.items = Append(@, item)])
    ELSE IF b.items[CHOOSE i \in Keyed(b, item) : TRUE] = item THEN Ok(b)
    ELSE [ok |-> FALSE, error |-> "Collision", value |-> b]

\* add_volumes and add_volume_mounts stop at the first collision; what came
\* before it stays in the builder
AddedFirst(b, items) ==
    LET added[n \in 0..Len(items)] ==
          IF n = 0 THEN Ok(b)
          ELSE IF added[n - 1].ok THEN add_volume(added[n - 1].value, items[n]) ELSE added[n - 1]
    IN  added

add_volumes(b, items) == AddedFirst(b, items)[Len(items)]

\* the setters of VolumeBuilder: the last source set counts, an emptyDir without any
VolumeSource(sources) == IF sources = <<>> THEN "emptyDir" ELSE Last(sources)

VolumeBuilder_build(name, sources) == [key |-> name, content |-> <<VolumeSource(sources)>>]

\* VolumeMountBuilder, and the mounts add_volume_mount builds itself
VolumeMountBuilder_build(name, path, options) ==
    [key |-> path, content |-> <<name, options>>]

=============================================================================
