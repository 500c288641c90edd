---------------------------- MODULE MCQuantities ----------------------------
EXTENDS Quantities

MCMemoryTexts ==
  {Written(n, 10, unit) : n \in {0, 5, 8, 10, 12, 16, 25, 123}, unit \in {"Ki", "Mi", "Gi"}}
  \cup {Written(n, 1000, "Gi") : n \in {999, 1015, 1019, 1020, 2021, 15999}}
  \cup {Written(n, 10, "Ti") : n \in {2, 5, 8}}
  \cup {Written(n, 1, "Ki") : n \in {16777217, 49041204, 1048577}}
  \cup {Written(1, 10000000, "Ei"), Written(1, 10000, "Pi")}
  \cup {Written(5, 1, None), Written(5, 1, "M")}

MCFactors == {<<1, 1>>, <<8, 10>>, <<1, 3>>}

\* From 0 to 2.1 CPUs, and around the counts where f32 gets coarser.
MCCpuMillis == (0..520) \cup (990..1030) \cup (2040..2060) \cup {8000, 64001, 1000000}

MCCpuTexts ==
  {Written(n, 10000, None) : n \in {1, 10, 12345, 20001, 1000001, 99990, 10485761}}
  \cup {Written(10240001, 10000000, None)} \cup {Written(1, 1, "k"), Written(15, 10, "m")}

MCDurationMillis ==
  {d * 86400000 + h * 3600000 + m * 60000 + s * 1000 + ms :
     d \in {0, 2}, h \in {0, 23}, m \in {0, 59}, s \in {0, 1, 59}, ms \in {0, 999}}

MCDurationTexts ==
  LET value == {0, 7, 24856, 2000000001}
      group(v, u) == [value |-> v, unit |-> u]
      first == {group(v, u) : v \in value, u \in {"d", "m", "ms"}}
      second == {group(7, u) : u \in {"d", "h", "m", "y", None}} \cup {group(None, None)}
      documented == <<group(2, "y"), group(2, "h"), group(20, "m"), group(42, "s")>>
  IN  {<<>>, documented} \cup {<<g>> : g \in first \cup second}
        \cup {<<g, h>> : g \in first, h \in second}

MCRequirementQuantities ==
  [cpu |-> {CpuMilli(100), CpuMilli(127), CpuMilli(333), CpuDecimal(1500), CpuDecimal(127)},
   memory |-> {Written(12, 10, "Gi"), Written(2, 1, "Gi"), Written(16777217, 1, "Ki")}]
=============================================================================
