----------------------------- MODULE Quantities -----------------------------
(***************************************************************************)
(* Quantities users write and operators compute with: memory, CPU and       *)
(* durations, the resource requirements of a container and the checks on    *)
(* them.  Memory and CPU counts go through f32, so rounding is part of what *)
(* the code does.                                                           *)
(*                                                                          *)
(* A quantity's text is a decimal number and a unit.  [num, den] is the      *)
(* number as written; [f32] is one the code itself printed, which Rust's     *)
(* Display makes exact: parsing it gives the same f32.                       *)
(***************************************************************************)
EXTENDS Options, Float32, FiniteSets, FiniteSetsExt, Functions, TLC

CONSTANTS
  MemoryTexts,     \* memory quantities users write
  Factors,         \* factors applied to memory, as <<num, den>>
  CpuMillis,       \* CPU counts in thousandths
  CpuTexts,        \* further CPU quantities
  DurationTexts,   \* durations users write
  DurationMillis,  \* durations that are printed
  MaxMillis,       \* u64::MAX, scaled down
  MaxValue,        \* u128::MAX, scaled down
  RequirementQuantities   \* [cpu, memory]: the quantities given to the builder

\* A Duration of more than u64::MAX milliseconds is printed, but from_str refuses it.
ASSUME DurationAssumption ==
  /\ MaxMillis \in Nat /\ MaxValue \in Nat /\ MaxMillis <= MaxValue
  /\ DurationMillis \subseteq 0..MaxMillis
  /\ None \notin Nat /\ None \notin {"d", "h", "m", "s", "ms"}
  /\ \A text \in DurationTexts :
       /\ Len(text) \in Nat /\ DOMAIN text = 1..Len(text)
       /\ \A i \in DOMAIN text : text[i].value \in Nat \cup {None}

VARIABLES
  computed,        \* the operation on a quantity and its result
  requirements     \* the ResourceRequirementsBuilder

quantityVars == <<computed, requirements>>

Written(num, den, unit) == [num |-> num, den |-> den, unit |-> unit]
Printed(f32, unit) == [f32 |-> f32, unit |-> unit]

\* str::parse::<f32>
ParseF32(text) == IF "f32" \in DOMAIN text THEN text.f32 ELSE Ratio32(text.num, text.den)

-----------------------------------------------------------------------------
(* MemoryQuantity                                                            *)

BinaryMultiples == <<"Ki", "Mi", "Gi", "Ti", "Pi", "Ei">>

exponential_scale_factor(unit) == CHOOSE i \in DOMAIN BinaryMultiples : BinaryMultiples[i] = unit

Memory(value, unit) == [value |-> value, unit |-> unit]

memory_from_str(text) ==
  CASE text.unit = None -> Err("NoQuantityUnit")
    [] text.unit \notin Range(BinaryMultiples) -> Err("InvalidQuantityUnit")
    [] OTHER -> Ok(Memory(ParseF32(text), text.unit))

scale_to(memory, unit) ==
  Memory(Scale2(memory.value,
                10 * (exponential_scale_factor(memory.unit) - exponential_scale_factor(unit))),
         unit)

MemoryMul(memory, factor) == Memory(Mul32(memory.value, factor), memory.unit)
MemoryDiv(a, b) == Div32(a.value, scale_to(b, a.unit).value)
MemoryLess(a, b) == Less32(scale_to(a, "Ki").value, scale_to(b, "Ki").value)

One32 == Ratio32(1, 1)

scale_to_at_most_gb(memory) ==
  IF memory.unit \in {"Ki", "Mi", "Gi"} THEN memory ELSE scale_to(memory, "Gi")

\* Scaling down stops with an error at Ki.
scale_down_unit(memory) ==
  IF memory.unit = "Ki" THEN Err("CannotScaleDownMemoryUnit")
  ELSE Ok(scale_to(memory, BinaryMultiples[exponential_scale_factor(memory.unit) - 1]))

\* The two recursions walk down the units, six at most.
Units == [i \in DOMAIN BinaryMultiples |-> i]

ensure_no_zero(memory) ==
  FoldLeft(LAMBDA r, i : IF r.ok /\ Less32(r.value.value, One32)
                         THEN scale_down_unit(r.value) ELSE r,
           Ok(memory), Units)

\* Mutant: the tolerance is taken in the unit of the quantity.
ensure_integer_OwnUnit(memory, tolerated) ==
  LET fits(x) == Less32(Fract32(x.value), tolerated.value)
      last == FoldLeft(LAMBDA r, i : IF r.ok /\ ~fits(r.value) THEN scale_down_unit(r.value) ELSE r,
                       Ok(memory), Units)
  IN  AndThen(last, LAMBDA x : Ok(Memory(Floor32(x.value), x.unit)))

ensure_integer(memory, tolerated) ==
  LET fits(x) == MemoryLess(Memory(Fract32(x.value), x.unit), tolerated)
      last == FoldLeft(LAMBDA r, i : IF r.ok /\ ~fits(r.value) THEN scale_down_unit(r.value) ELSE r,
                       Ok(memory), Units)
  IN  AndThen(last, LAMBDA x : Ok(Memory(Floor32(x.value), x.unit)))

from_mebi(n) == Memory(Ratio32(n, 1), "Mi")

format_for_java(memory) ==
  AndThen(ensure_no_zero(scale_to_at_most_gb(memory)),
          LAMBDA x : ensure_integer(x, from_mebi(20)))

\* The older conversion: at most one unit down, for zeros or large fractions.
scale_for_java(memory) ==
  LET norm == scale_to_at_most_gb(memory)
      lossy == Less32(norm.value, One32) \/ Less32(Ratio32(1, 5), Fract32(norm.value))
  IN  IF lossy /\ norm.unit \in {"Mi", "Gi"} THEN scale_down_unit(norm).value ELSE norm

\* {:.0}: the nearest whole number
Nearest(x) == LET half == Less32(Ratio32(1, 2), Fract32(x))
                  tie == Fract32(x) = Ratio32(1, 2) /\ Trunc32(x) % 2 = 1
              IN  Trunc32(x) + IF half \/ tie THEN 1 ELSE 0

to_java_heap(memory, factor) ==
  LET scaled == scale_for_java(MemoryMul(memory, factor))
  IN  IF Less32(scaled.value, One32) THEN Err("CannotConvertToJavaHeap")
      ELSE Ok(Memory(Ratio32(Nearest(scaled.value), 1), scaled.unit))

to_java_heap_value(memory, factor, target) ==
  LET scaled == scale_to(scale_for_java(MemoryMul(memory, factor)), target)
  IN  IF Less32(scaled.value, One32) THEN Err("CannotConvertToJavaHeapValue")
      ELSE Ok(Trunc32(scaled.value))

-----------------------------------------------------------------------------
(* CpuQuantity, a count of thousandths                                       *)

CpuMilli(n) == Written(n, 1, "m")
CpuDecimal(n) == Written(n, 1000, None)

as_cpu_count(millis) == Div32(Ratio32(millis, 1), Ratio32(1000, 1))

\* Quantity::from(CpuQuantity)
cpu_into_quantity(millis) == Printed(as_cpu_count(millis), None)

cpu_from_str(text) ==
  CASE text.unit \notin {"m", None} -> Err("UnsupportedCpuQuantityPrecision")
    [] text.unit = "m" -> IF text.den = 1 THEN Ok(text.num) ELSE Err("InvalidCpuIntQuantity")
    [] OTHER -> LET millis == Mul32(ParseF32(text), Ratio32(1000, 1))
                IN  IF IsInteger32(millis) THEN Ok(Trunc32(millis))
                    ELSE Err("UnsupportedCpuQuantityPrecision")

CpuMul(millis, factor) == Trunc32(Mul32(Ratio32(millis, 1), factor))
CpuDiv(a, b) == Div32(Ratio32(a, 1), Ratio32(b, 1))

-----------------------------------------------------------------------------
(* Duration                                                                  *)

DurationUnits == <<"d", "h", "m", "s", "ms">>

UnitRank(unit) == CHOOSE i \in DOMAIN DurationUnits : DurationUnits[i] = unit

UnitMillis == <<86400000, 3600000, 60000, 1000, 1>>

millis(unit) == UnitMillis[UnitRank(unit)]

\* The loop of from_str.  A text is a sequence of groups [value, unit]; a group
\* without digits (value None) ends the loop with characters left over, an empty
\* unit is None and an unknown one any other string.  Products that do not fit
\* are errors, never wrapped, and the sum of one product per unit always fits.
ReadGroup(acc, g) ==
  IF ~acc.ok THEN acc
  ELSE CASE g.value = None -> Err("UnexpectedCharacter")
         [] g.value # None /\ g.value > MaxValue -> Err("ParseInt")
         [] g.value # None /\ g.unit = None -> Err("NoUnit")
         [] g.value # None /\ g.unit \notin Range(DurationUnits) -> Err("ParseUnit")
         [] acc.last # None /\ UnitRank(g.unit) < UnitRank(acc.last) -> Err("InvalidUnitOrdering")
         [] acc.last # None /\ UnitRank(g.unit) = UnitRank(acc.last) -> Err("DuplicateUnit")
         [] g.value > MaxMillis \div millis(g.unit) -> Err("Overflow")
         [] OTHER -> [ok |-> TRUE, value |-> acc.value + g.value * millis(g.unit), last |-> g.unit]

GroupsRead(text) ==
  LET read[n \in 0..Len(text)] == IF n = 0 THEN [ok |-> TRUE, value |-> 0, last |-> None]
                                  ELSE ReadGroup(read[n - 1], text[n])
  IN  read

\* from_str
duration_from_str(text) ==
  LET read == GroupsRead(text)[Len(text)]
  IN  IF text = <<>> THEN Err("EmptyInput")
      ELSE IF read.ok THEN Ok(read.value) ELSE read

\* Mutant: the rest is not taken.
EmitUnit_NoRest(acc, unit) ==
  [rest |-> acc.rest,
   text |-> IF acc.rest \div millis(unit) = 0 THEN acc.text
            ELSE Append(acc.text, [value |-> acc.rest \div millis(unit), unit |-> unit])]

\* The loop of Display
EmitUnit(acc, unit) ==
  [rest |-> acc.rest % millis(unit),
   text |-> IF acc.rest \div millis(unit) = 0 THEN acc.text
            ELSE Append(acc.text, [value |-> acc.rest \div millis(unit), unit |-> unit])]

UnitsEmitted(total) ==
  LET emitted[n \in 0..Len(DurationUnits)] ==
        IF n = 0 THEN [rest |-> total, text |-> <<>>]
        ELSE EmitUnit(emitted[n - 1], DurationUnits[n])
  IN  emitted

\* Display
duration_to_string(total) ==
  IF total = 0 THEN <<[value |-> 0, unit |-> "s"]>>
  ELSE UnitsEmitted(total)[Len(DurationUnits)].text

-----------------------------------------------------------------------------
(* ResourceRequirementsBuilder.  The type parameters say which quantities    *)
(* are still unset; with_* consumes the builder.                             *)

RESOURCE_DENYLIST == {"cpu", "memory"}

LimitRequestRatioCpu == Ratio32(5, 1)
LimitRequestRatioMemory == Ratio32(1, 1)

NewBuilder == [cpu_request |-> None, cpu_limit |-> None, mem_request |-> None,
               mem_limit |-> None, other |-> <<>>]

with_cpu_request(b, text) == [b EXCEPT !.cpu_request = text]
with_cpu_limit(b, text) == [b EXCEPT !.cpu_limit = text]
with_memory_request(b, text) == [b EXCEPT !.mem_request = text]
with_memory_limit(b, text) == [b EXCEPT !.mem_limit = text]

with_cpu_range(b, text, factor) ==
  AndThen(cpu_from_str(text),
          LAMBDA request : Ok([b EXCEPT !.cpu_request = cpu_into_quantity(request),
                                        !.cpu_limit = cpu_into_quantity(CpuMul(request, factor))]))

with_memory_range(b, text, factor) ==
  AndThen(memory_from_str(text),
          LAMBDA request :
            LET limit == MemoryMul(request, factor)
            IN  Ok([b EXCEPT !.mem_request = Printed(request.value, request.unit),
                             !.mem_limit = Printed(limit.value, limit.unit)]))

\* A resource that is set again is overwritten, whatever the warning says.
with_resource(b, kind, resource, text) ==
  IF resource \in RESOURCE_DENYLIST THEN b
  ELSE [b EXCEPT !.other = (<<resource, kind>> :> text) @@ @]

build(b) ==
  LET others(kind) == [r \in {k[1] : k \in {key \in DOMAIN b.other : key[2] = kind}} |->
                         b.other[<<r, kind>>]]
  IN  [limits   |-> [cpu |-> b.cpu_limit, memory |-> b.mem_limit] @@ others("limits"),
       requests |-> [cpu |-> b.cpu_request, memory |-> b.mem_request] @@ others("requests")]

\* Resources: the merged limits of a role group; what is not given is None.
ResourcesOf(texts) ==
  [memory : texts.memory \cup {None}, cpu_min : texts.cpu \cup {None}, cpu_max : texts.cpu \cup {None}]

\* Into<ResourceRequirements> for Resources: the memory limit is the request too.
ResourcesInto(r) ==
  LET given(map) == Restrict(map, {k \in DOMAIN map : map[k] # None})
      limits == given([memory |-> r.memory, cpu |-> r.cpu_max])
      requests == given([memory |-> r.memory, cpu |-> r.cpu_min])
  IN  [limits |-> IF limits = <<>> THEN None ELSE limits,
       requests |-> IF requests = <<>> THEN None ELSE requests]

check_resource_requirement(rr, kind, resource) ==
  LET resources == IF kind = "limits" THEN rr.limits ELSE rr.requests
  IN  IF resources # None /\ resource \in DOMAIN resources THEN Ok(resource)
      ELSE Err("MissingResourceRequirements")

\* ResourceRequirementsExt for PodSpec: the first container that fails decides.
FirstFailure(results) ==
  IF \A i \in DOMAIN results : results[i].ok THEN Ok("checked")
  ELSE results[CHOOSE i \in DOMAIN results : ~results[i].ok /\ \A j \in 1..i - 1 : results[j].ok]

check_limit_to_request_ratio(rr, resource, ratio) ==
  LET both == \A kind \in {"limits", "requests"} : check_resource_requirement(rr, kind, resource).ok
      parse(text) == IF resource = "cpu" THEN cpu_from_str(text) ELSE memory_from_str(text)
      quotient(limit, request) == IF resource = "cpu" THEN CpuDiv(limit, request)
                                  ELSE MemoryDiv(limit, request)
      within(limit, request) == IF Less32(ratio, quotient(limit, request))
                                THEN Err("LimitToRequestRatioExceeded") ELSE Ok(resource)
  IN  IF ~both THEN Err("LimitToRequestRatioExceeded")
      ELSE AndThen(parse(rr.limits[resource]),
                   LAMBDA limit : AndThen(parse(rr.requests[resource]),
                                          LAMBDA request : within(limit, request)))

-----------------------------------------------------------------------------
(* Steps: one operation on one quantity, or one call of the builder.         *)

QuantityInit == computed = None /\ requirements = None

Compute(operation, input, result) ==
  /\ computed = None /\ requirements = None
  /\ computed' = [operation |-> operation, input |-> input, result |-> result]
  /\ UNCHANGED requirements

FormatForJava ==
  \E text \in MemoryTexts :
    Compute("java", text, AndThen(memory_from_str(text), format_for_java))

ToJavaHeap ==
  \E text \in MemoryTexts, factor \in Factors, target \in {"Ki", "Mi", "Gi"} :
    LET memory == memory_from_str(text)
        f == Ratio32(factor[1], factor[2])
    IN  /\ memory.ok
        /\ Compute("heap", [text |-> text, factor |-> f, target |-> target],
                   [heap |-> to_java_heap(memory.value, f),
                    value |-> to_java_heap_value(memory.value, f, target)])

ParseCpu ==
  \E text \in {CpuMilli(n) : n \in CpuMillis} \cup {CpuDecimal(n) : n \in CpuMillis} \cup CpuTexts :
    Compute("cpu", text, cpu_from_str(text))

ParseDuration ==
  \E text \in DurationTexts : Compute("duration", text, duration_from_str(text))

PrintDuration ==
  \E total \in DurationMillis :
    Compute("print", total, duration_from_str(duration_to_string(total)))

\* ResourceRequirementsExt on a pod with two containers, of which the second
\* may be without limits.
CheckPod ==
  \E r \in ResourcesOf(RequirementQuantities), resource \in {"cpu", "memory"} :
    \E second \in {r, [memory |-> None, cpu_min |-> r.cpu_min, cpu_max |-> None]} :
      LET pod == <<ResourcesInto(r), ResourcesInto(second)>>
          has(kind) == [i \in 1..2 |-> check_resource_requirement(pod[i], kind, resource)]
          ratio == [i \in 1..2 |-> check_limit_to_request_ratio(pod[i], resource, LimitRequestRatioMemory)]
      IN  Compute("pod", [pod |-> pod, resource |-> resource],
                  [limits |-> FirstFailure(has("limits")), requests |-> FirstFailure(has("requests")),
                   ratio |-> FirstFailure(ratio)])

StartBuilder ==
  /\ computed = None /\ requirements = None
  /\ requirements' = [builder |-> NewBuilder, built |-> None]
  /\ UNCHANGED computed

Building(b) == requirements # None /\ requirements.built = None /\ b = requirements.builder

SetCpu ==
  \E b \in {requirements.builder} : \E text \in RequirementQuantities.cpu :
    /\ Building(b)
    /\ \/ b.cpu_request = None /\ requirements' = [requirements EXCEPT !.builder = with_cpu_request(b, text)]
       \/ /\ b.cpu_request # None /\ b.cpu_limit = None
          /\ requirements' = [requirements EXCEPT !.builder = with_cpu_limit(b, text)]
       \/ LET ranged == with_cpu_range(b, text, LimitRequestRatioCpu)
          IN  /\ b.cpu_request = None /\ b.cpu_limit = None
              /\ ranged.ok
              /\ requirements' = [requirements EXCEPT !.builder = ranged.value]
    /\ UNCHANGED computed

SetMemory ==
  \E b \in {requirements.builder} : \E text \in RequirementQuantities.memory :
    /\ Building(b) /\ b.cpu_limit # None
    /\ \/ b.mem_request = None /\ requirements' = [requirements EXCEPT !.builder = with_memory_request(b, text)]
       \/ /\ b.mem_request # None /\ b.mem_limit = None
          /\ requirements' = [requirements EXCEPT !.builder = with_memory_limit(b, text)]
       \/ LET ranged == with_memory_range(b, text, LimitRequestRatioMemory)
          IN  /\ b.mem_request = None
              /\ ranged.ok
              /\ requirements' = [requirements EXCEPT !.builder = ranged.value]
    /\ UNCHANGED computed

SetOther ==
  \E b \in {requirements.builder} : \E resource \in {"cpu", "gpu"}, kind \in {"limits", "requests"} :
    /\ Building(b) /\ b.mem_limit # None /\ Cardinality(DOMAIN b.other) < 2
    /\ requirements' = [requirements EXCEPT
         !.builder = with_resource(b, kind, resource, CpuMilli(1))]
    /\ UNCHANGED computed

BuildRequirements ==
  \E b \in {requirements.builder} :
    /\ Building(b)
    /\ None \notin {b.cpu_request, b.cpu_limit, b.mem_request, b.mem_limit}
    /\ requirements' = [requirements EXCEPT !.built = build(b)]
    /\ UNCHANGED computed

QuantityNext ==
  \/ /\ computed = None /\ requirements = None
     /\ \/ FormatForJava \/ ToJavaHeap \/ ParseCpu \/ ParseDuration \/ PrintDuration
        \/ CheckPod \/ StartBuilder
  \/ requirements # None /\ (SetCpu \/ SetMemory \/ SetOther \/ BuildRequirements)

QuantitySpec == QuantityInit /\ [][QuantityNext]_quantityVars

-----------------------------------------------------------------------------
(* Properties                                                                *)

Done(operation) == computed # None /\ computed.operation = operation

\* format_for_java gives a whole number of k, m or g that is never more than
\* the quantity it was given and falls short of it by less than 20 MiB; it fails
\* only for less than 1 KiB.  The older functions also never exceed the scaled
\* quantity by more than the rounding to the printed unit.
JavaHeapFitsQuantity ==
  /\ Done("java") /\ computed.input.unit \in Range(BinaryMultiples) =>
       LET given == scale_to(memory_from_str(computed.input).value, "Ki").value
           result == computed.result
           heap == scale_to(result.value, "Ki").value
       IN  IF ~result.ok THEN Less32(given, One32)
           ELSE /\ result.value.unit \in {"Ki", "Mi", "Gi"}
                /\ IsInteger32(result.value.value) /\ ~Less32(result.value.value, One32)
                /\ ~Less32(given, heap)
                /\ Trunc32(given) - Trunc32(heap) < 20 * 1024
  /\ Done("heap") =>
       LET scaled == MemoryMul(memory_from_str(computed.input.text).value, computed.input.factor)
           value == computed.result.value
           heap == computed.result.heap
       IN  /\ value.ok => /\ ~Less32(scale_to(scaled, computed.input.target).value,
                                     Ratio32(value.value, 1))
                          /\ value.value > 0
           /\ heap.ok => Less32(heap.value.value,
                                Ratio32(Trunc32(scale_to(scaled, heap.value.unit).value) + 2, 1))

\* A CPU quantity that is accepted is the number of thousandths that was
\* written: nothing finer is accepted and no rounding of the f32 shows, for
\* fewer than 1000 CPUs with at most four decimals.  Beyond that the f32 is too
\* coarse, and a quantity may be accepted as a neighbouring thousandth.  The
\* Quantity that the code prints for a count is read back as the same count or
\* refused: 0.127, for 127m, is no thousandth any more once it is an f32.
AcceptedCpuIsExact ==
  (Done("cpu") /\ computed.result.ok) =>
    LET count == computed.result.value
        reread == cpu_from_str(cpu_into_quantity(count))
    IN  /\ IF computed.input.unit = "m" THEN count = computed.input.num
           ELSE (computed.input.den <= 10000 /\ computed.input.num < 1000 * computed.input.den) =>
                  count * computed.input.den = computed.input.num * 1000
        /\ count < 1000000 => reread = Ok(count) \/ reread = Err("UnsupportedCpuQuantityPrecision")

\* What the group with a unit adds to a duration.
Share(text, unit) ==
  LET groups == {i \in DOMAIN text : text[i].unit = unit}
  IN  IF groups = {} THEN 0 ELSE text[CHOOSE i \in groups : TRUE].value * millis(unit)

\* A printed duration is read back as the same duration, and a duration that is
\* accepted has every unit once, from large to small, and is their sum.  The units
\* are those of DurationUnit, d, h, m, s and ms: the documentation's example
\* 2y2h20m42s has the unit y, which from_str refuses as it does any other.
DurationsRoundTrip ==
  /\ Done("print") => computed.result = Ok(computed.input)
  /\ Done("duration") =>
       LET text == computed.input
           known == \A i \in DOMAIN text : /\ text[i].value # None /\ text[i].unit # None
                                           /\ text[i].unit \in Range(DurationUnits)
           ordered == \A i, j \in DOMAIN text :
                        i < j => UnitRank(text[i].unit) < UnitRank(text[j].unit)
       IN  /\ computed.result.ok <=>
                /\ text # <<>> /\ known /\ ordered
                /\ \A i \in DOMAIN text : text[i].value <= MaxMillis \div millis(text[i].unit)
           /\ computed.result.ok =>
                computed.result.value = Share(text, "d") + Share(text, "h") + Share(text, "m")
                                        + Share(text, "s") + Share(text, "ms")

\* Requirements built with a range keep the limit within the ratio to the
\* request that the range was built with: check_limit_to_request_ratio, which
\* reads the quantities that with_cpu_range and with_memory_range printed, never
\* finds it exceeded.  It fails with another error exactly when one of the CPU
\* quantities cannot be read back (127m, printed as 0.127); memory always can.
\* The memory of Resources is requested in full, so a pod whose containers limit it passes with ratio 1,
\* and no pod passes with a container that lacks the resource.
RangesKeepRatio ==
  /\ (requirements # None /\ requirements.built # None) =>
       LET rr == requirements.built
           check(resource, ratio) == check_limit_to_request_ratio(rr, resource, ratio)
       IN  /\ \A kind \in {"limits", "requests"}, resource \in {"cpu", "memory"} :
                check_resource_requirement(rr, kind, resource).ok
           /\ "f32" \in DOMAIN rr.limits.cpu /\ "f32" \in DOMAIN rr.requests.cpu =>
                IF cpu_from_str(rr.limits.cpu).ok /\ cpu_from_str(rr.requests.cpu).ok
                THEN check("cpu", LimitRequestRatioCpu).ok
                ELSE check("cpu", LimitRequestRatioCpu) = Err("UnsupportedCpuQuantityPrecision")
           /\ "f32" \in DOMAIN rr.limits.memory => check("memory", LimitRequestRatioMemory).ok
  /\ Done("pod") =>
       LET result == computed.result
       IN  /\ result.ratio.ok => result.limits.ok /\ result.requests.ok
           /\ computed.input.resource = "memory" =>
                (result.limits.ok <=> result.requests.ok) /\ (result.limits.ok => result.ratio.ok)

\* Rounding never gives a container or a JVM more than was asked for, nor changes
\* a quantity that is accepted.
QuantitiesAreExact == JavaHeapFitsQuantity /\ AcceptedCpuIsExact /\ RangesKeepRatio

=============================================================================
