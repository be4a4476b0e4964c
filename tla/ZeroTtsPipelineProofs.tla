------------------------- MODULE ZeroTtsPipelineProofs -------------------------
(***************************************************************************)
(* The native context of ZeroTtsPipeline, for any number of syntheses, any *)
(* queue and any lengths of slices and audio, what the end of a stream     *)
(* tells of its frames, and, of HostPlan, what the engine takes of its     *)
(* host.                                                                   *)
(***************************************************************************)
EXTENDS ZeroTtsPipeline, HostPlan, FiniteSums, SequenceTheorems

--------------------------------------------------------------------------------
(* HostPlan: what a server answers to every question about its machine. *)

\* The groups of a path are groups.
LEMMA PathRange ==
  ASSUME NEW G, NEW p \in Paths(G)
  PROVE  Range(p) \subseteq G
<1>1. CASE p = <<>>
  BY <1>1 DEF Range
<1>2. CASE p \in [1..2 -> G]
  BY <1>2 DEF Range
<1> QED BY <1>1, <1>2 DEF Paths

\* A number raised to one, as a machine with no quota to spare keeps a thread.
LEMMA AtLeastOne ==
  ASSUME NEW m \in Nat
  PROVE  /\ Max({1, m}) \in Nat
         /\ Max({1, m}) = IF m >= 1 THEN m ELSE 1
<1>1. 1 \in Int /\ m \in Int
  OBVIOUS
<1>2. Max({1, m}) = IF 1 >= m THEN 1 ELSE m
  BY <1>1, OfTwo, Zenon
<1>3. (IF 1 >= m THEN 1 ELSE m) = (IF m >= 1 THEN m ELSE 1)
  OBVIOUS
<1>4. (IF m >= 1 THEN m ELSE 1) \in Nat
  OBVIOUS
<1> QED BY <1>2, <1>3, <1>4, Zenon

\* ThreadsFit, of every answer.
LEMMA CpuAnswers ==
  ASSUME NEW q \in CpuQuestions
  PROVE  LET Fits(t) == /\ t <= q.cpus /\ t <= q.affinity
                        /\ q.configured # Unset => t <= q.configured
                        /\ \A h \in (Range(q.v1) \cup Range(q.v2)) \ {0} : 2 * (t - 1) < h
         IN  resolve_cpu_threads(q) = Max({1} \cup {t \in 1..q.cpus : Fits(t)})
<1> DEFINE H == (Range(q.v1) \cup Range(q.v2)) \ {0}
           S == {q.cpus, Min({q.affinity, q.cpus})} \cup _cpu_count_cgroup(q)
           m == Min(S)
           Within(t) == t <= q.cpus /\ t <= q.affinity /\ \A h \in H : 2 * (t - 1) < h
           Fits(t) == /\ t <= q.cpus /\ t <= q.affinity
                      /\ q.configured # Unset => t <= q.configured
                      /\ \A h \in H : 2 * (t - 1) < h
           r == resolve_cpu_threads(q)
           T == {1} \cup {t \in 1..q.cpus : Fits(t)}
<1>1. /\ q.cpus \in Nat /\ q.affinity \in Nat /\ q.configured \in Nat /\ q.cpus >= 1
      /\ q.v1 \in Paths(Quotas) /\ q.v2 \in Paths(Quotas)
      /\ q.configured # Unset => q.configured >= 1
  BY DEF CpuQuestions, Unset
<1>2. H \subseteq Nat \ {0}
  <2>1. Range(q.v1) \subseteq Quotas /\ Range(q.v2) \subseteq Quotas
    BY <1>1, PathRange
  <2> QED BY <2>1, HostAssumption
<1>3. \A h \in H : Quota(h) \in Nat /\ \A t \in Nat : t <= Quota(h) <=> 2 * (t - 1) < h
  BY <1>2 DEF Quota
<1>4. _cpu_count_cgroup(q) = {Quota(h) : h \in H}
  BY DEF _cpu_count_cgroup, _collect_hierarchy_quotas
<1>5. Min({q.affinity, q.cpus}) = IF q.affinity <= q.cpus THEN q.affinity ELSE q.cpus
  <2>1. q.affinity \in Int /\ q.cpus \in Int
    BY <1>1
  <2> QED BY <2>1, OfTwo, Zenon
<1> HIDE DEF H
<1>6. S \subseteq Nat /\ S # {}
  BY <1>1, <1>3, <1>4, <1>5
<1>7. m \in S /\ \A x \in S : m <= x
  <2> HIDE DEF S
  <2> QED BY <1>6, Lowest
<1>8. \A t \in Nat : t <= m <=> Within(t)
  <2> SUFFICES ASSUME NEW t \in Nat PROVE t <= m <=> Within(t)
    OBVIOUS
  <2>1. t <= m <=> \A x \in S : t <= x
    BY <1>6, <1>7
  <2>2. (\A x \in S : t <= x) <=> Within(t)
    BY <1>1, <1>3, <1>4, <1>5
  <2> QED BY <2>1, <2>2
<1>9. m \in Nat
  BY <1>6, <1>7
<1> HIDE DEF m, S
<1>10. /\ available_cpu_count(q) \in Nat
       /\ available_cpu_count(q) = IF m >= 1 THEN m ELSE 1
  <2>1. available_cpu_count(q) = Max({1, m})
    BY DEF available_cpu_count, m, S
  <2>2. Max({1, m}) \in Nat /\ Max({1, m}) = IF m >= 1 THEN m ELSE 1
    BY <1>9, AtLeastOne, Zenon
  <2> QED BY <2>1, <2>2, Zenon
<1>11. r = IF q.configured = Unset \/ available_cpu_count(q) <= q.configured
           THEN available_cpu_count(q) ELSE q.configured
  <2>1. q.configured \in Int /\ available_cpu_count(q) \in Int
    BY <1>1, <1>10
  <2>2. Min({q.configured, available_cpu_count(q)})
          = IF q.configured <= available_cpu_count(q) THEN q.configured ELSE available_cpu_count(q)
    BY <2>1, OfTwo, Zenon
  <2>3. r = IF q.configured = Unset THEN available_cpu_count(q)
            ELSE IF q.configured <= available_cpu_count(q) THEN q.configured
            ELSE available_cpu_count(q)
    BY <2>2, Zenon DEF resolve_cpu_threads
  <2> HIDE DEF r
  <2> QED BY <2>1, <2>3
<1>12. r \in Nat /\ r >= 1 /\ (r = 1 \/ Fits(r))
  <2>1. r \in Nat /\ r >= 1
    BY <1>1, <1>10, <1>11
  <2>2. r # 1 => r <= m
    BY <1>1, <1>9, <1>10, <1>11
  <2>3. q.configured # Unset => r <= q.configured
    BY <1>1, <1>10, <1>11
  <2> HIDE DEF r
  <2> QED BY <2>1, <2>2, <2>3, <1>8
<1>13. \A t \in 1..q.cpus : Fits(t) => t <= r
  <2> SUFFICES ASSUME NEW t \in 1..q.cpus, Fits(t) PROVE t <= r
    OBVIOUS
  <2>1. t \in Nat /\ t <= m
    BY <1>1, <1>8
  <2>2. q.configured # Unset => t <= q.configured
    OBVIOUS
  <2> QED BY <2>1, <2>2, <1>1, <1>9, <1>10, <1>11
<1>14. T \subseteq Int /\ r \in T /\ \A x \in T : x <= r
  <2> HIDE DEF r
  <2> QED BY <1>1, <1>12, <1>13
<1>15. r = Max(T)
  <2> HIDE DEF T, r
  <2> QED BY <1>14, Greatest
<1> QED BY <1>15 DEF H

\* MemoryFits, of every answer.
LEMMA MemoryAnswers ==
  ASSUME NEW q \in MemoryQuestions
  PROVE  LET groups == {g \in Range(q.v1) \cup Range(q.v2) : g.limit # 0}
             Takes(m) == m <= q.free /\ \A g \in groups : m = 0 \/ g.usage + m <= g.limit
             reply == detect_device_resources(q)
         IN  /\ reply.memory = Max({m \in 0..q.free : Takes(m)})
             /\ reply.voices = 1 <=> \E g \in groups : g.limit <= 2
             /\ reply.voices <= 2 <=> \E g \in groups : g.limit <= 6
<1> DEFINE groups == {g \in Range(q.v1) \cup Range(q.v2) : g.limit # 0}
           Takes(m) == m <= q.free /\ \A g \in groups : m = 0 \/ g.usage + m <= g.limit
           S == {q.free} \cup _hierarchy_memory_available(q.v1) \cup _hierarchy_memory_available(q.v2)
           C == {q.total} \cup _hierarchy_memory_limits(q.v1) \cup _hierarchy_memory_limits(q.v2)
           T == {m \in 0..q.free : Takes(m)}
           Rest(g) == IF g.limit >= g.usage THEN g.limit - g.usage ELSE 0
<1>1. /\ q.free \in Nat /\ q.total = 7
      /\ q.v1 \in Paths(MemoryGroups) /\ q.v2 \in Paths(MemoryGroups)
  BY DEF MemoryQuestions
<1>2. Range(q.v1) \subseteq MemoryGroups /\ Range(q.v2) \subseteq MemoryGroups
  BY <1>1, PathRange
<1>3. \A g \in MemoryGroups : g.limit \in Nat /\ g.usage \in Nat
  BY HostAssumption DEF MemoryGroups
<1>4. \A g \in MemoryGroups : Max({0, g.limit - g.usage}) = Rest(g) /\ Rest(g) \in Nat
  <2> SUFFICES ASSUME NEW g \in MemoryGroups
               PROVE  Max({0, g.limit - g.usage}) = Rest(g) /\ Rest(g) \in Nat
    OBVIOUS
  <2>1. g.limit - g.usage \in Int /\ g.limit \in Nat /\ g.usage \in Nat
    BY <1>3
  <2>2. \A d \in Int : Max({0, d}) = IF 0 >= d THEN 0 ELSE d
    BY OfTwo
  <2>3. IF 0 >= g.limit - g.usage THEN g.limit <= g.usage /\ 0 = Rest(g)
                                  ELSE g.limit - g.usage = Rest(g)
    BY <2>1
  <2> QED BY <2>1, <2>2, <2>3
<1>5. groups \subseteq MemoryGroups
  BY <1>2
<1>6. \A x : x \in S <=> x = q.free \/ \E g \in groups : x = Rest(g)
  BY <1>2, <1>4 DEF _hierarchy_memory_available
<1>7. \A x : x \in C <=> x = q.total \/ \E g \in groups : x = g.limit
  <2>1. \A x : x \in _hierarchy_memory_limits(q.v1) <=> \E g \in Range(q.v1) : g.limit # 0 /\ x = g.limit
    BY DEF _hierarchy_memory_limits
  <2>2. \A x : x \in _hierarchy_memory_limits(q.v2) <=> \E g \in Range(q.v2) : g.limit # 0 /\ x = g.limit
    BY DEF _hierarchy_memory_limits
  <2> QED BY <2>1, <2>2
<1> HIDE DEF groups, S, C
<1>8. S \subseteq Nat /\ S # {}
  <2>1. \A g \in groups : Rest(g) \in Nat
    BY <1>4, <1>5
  <2>2. \A x \in S : x \in Nat
    <3> HIDE DEF Rest
    <3> QED BY <2>1, <1>1, <1>6
  <2> QED BY <2>2, <1>6
<1>9. C \subseteq Nat /\ C # {}
  <2>1. \A x \in C : x \in Nat
    BY <1>1, <1>3, <1>5, <1>7
  <2> QED BY <2>1, <1>7
<1>10. Min(S) \in S /\ (\A x \in S : Min(S) <= x) /\ Min(S) \in Nat
  BY <1>8, Lowest
<1>11. Min(C) \in C /\ (\A x \in C : Min(C) <= x) /\ Min(C) \in Nat
  BY <1>9, Lowest
<1>12. \A m \in Nat : \A g \in groups : m <= Rest(g) <=> (m = 0 \/ g.usage + m <= g.limit)
  BY <1>3, <1>5
<1> HIDE DEF Rest
<1>13. \A m \in Nat : m <= Min(S) <=> Takes(m)
  <2> SUFFICES ASSUME NEW m \in Nat PROVE m <= Min(S) <=> Takes(m)
    OBVIOUS
  <2>1. m <= Min(S) <=> \A x \in S : m <= x
    BY <1>8, <1>10
  <2>2. (\A x \in S : m <= x) <=> m <= q.free /\ \A g \in groups : m <= Rest(g)
    BY <1>6
  <2> QED BY <2>1, <2>2, <1>12
<1>14. T \subseteq Int /\ Min(S) \in T /\ \A x \in T : x <= Min(S)
  <2>1. Takes(Min(S)) /\ Min(S) <= q.free
    BY <1>10, <1>13
  <2> HIDE DEF Takes
  <2> QED BY <2>1, <1>1, <1>10, <1>13
<1>15. Max(T) = Min(S)
  <2> HIDE DEF T
  <2> QED BY <1>14, Greatest
<1>16. /\ detect_device_resources(q).memory = Min(S)
       /\ detect_device_resources(q).voices = MaxVoices[_classify(Min(C))]
  BY DEF detect_device_resources, available_memory_bytes, memory_capacity_bytes, S, C
<1>17. \A k \in 0..6 : Min(C) <= k <=> \E g \in groups : g.limit <= k
  <2> SUFFICES ASSUME NEW k \in 0..6 PROVE Min(C) <= k <=> \E g \in groups : g.limit <= k
    OBVIOUS
  <2>1. Min(C) <= k => \E g \in groups : g.limit <= k
    BY <1>1, <1>7, <1>11
  <2>2. ASSUME NEW g \in groups, g.limit <= k PROVE Min(C) <= k
    <3>1. g.limit \in C /\ g.limit \in Nat
      BY <1>3, <1>5, <1>7
    <3> QED BY <3>1, <2>2, <1>11
  <2> QED BY <2>1, <2>2
<1>18. /\ MaxVoices[_classify(Min(C))] = 1 <=> Min(C) <= 2
       /\ MaxVoices[_classify(Min(C))] <= 2 <=> Min(C) <= 6
  <2>1. MaxVoices[_classify(Min(C))] = IF Min(C) <= 2 THEN 1 ELSE IF Min(C) <= 6 THEN 2 ELSE 99
    BY DEF MaxVoices, _classify
  <2> QED BY <2>1, <1>11
<1>19. /\ detect_device_resources(q).voices = 1 <=> \E g \in groups : g.limit <= 2
       /\ detect_device_resources(q).voices <= 2 <=> \E g \in groups : g.limit <= 6
  BY <1>16, <1>17, <1>18
<1>20. detect_device_resources(q).memory = Max(T)
  BY <1>15, <1>16
<1> QED BY <1>19, <1>20 DEF groups

\* BudgetKept, of every answer.
LEMMA BudgetAnswers ==
  ASSUME NEW q \in BudgetQuestions
  PROVE  LET t == resolve_zerotts_thread_budget(q)
         IN  /\ t.ggml >= 1 /\ t.codec >= 1
             /\ Pipelined(q) => /\ t.ggml + t.codec <= q.total + (IF Borrows(q) THEN 1 ELSE 0)
                                /\ t.ggml <= q.total /\ t.codec < q.total
             /\ q.codec # Unset /\ q.ggml # Unset /\ q.codec + q.ggml <= q.total
                  => t = [ggml |-> q.ggml, codec |-> q.codec]
<1> DEFINE t == resolve_zerotts_thread_budget(q)
           Kept(b) == /\ b.ggml >= 1 /\ b.codec >= 1
                      /\ Pipelined(q) => /\ b.ggml + b.codec <= q.total + (IF Borrows(q) THEN 1 ELSE 0)
                                         /\ b.ggml <= q.total /\ b.codec < q.total
                      /\ q.codec # Unset /\ q.ggml # Unset /\ q.codec + q.ggml <= q.total
                           => b = [ggml |-> q.ggml, codec |-> q.codec]
           Least2(a, b) == IF a <= b THEN a ELSE b
           Most2(a, b) == IF a >= b THEN a ELSE b
<1>1. /\ q.total \in Nat /\ q.total >= 1 /\ q.codec \in Nat /\ q.ggml \in Nat
      /\ q.pipelined \in BOOLEAN /\ q.opportunistic \in BOOLEAN
  <2>1. Overrides \subseteq Nat
    BY HostAssumption DEF Overrides, Unset
  <2>2. /\ q.total \in 1..MaxThreads /\ q.codec \in Overrides /\ q.ggml \in Overrides
        /\ q.pipelined \in BOOLEAN /\ q.opportunistic \in BOOLEAN
    BY DEF BudgetQuestions
  <2>3. MaxThreads \in Nat
    BY HostAssumption
  <2>4. q.total \in Nat /\ q.total >= 1
    BY <2>2, <2>3
  <2> QED BY <2>1, <2>2, <2>4
<1>2. \A a, b \in Int : Min({a, b}) = Least2(a, b) /\ Max({a, b}) = Most2(a, b)
  BY OfTwo
<1>3. CASE ~Pipelined(q)
  <2>1. t = [ggml |-> IF q.ggml = Unset THEN q.total ELSE q.ggml,
             codec |-> IF q.codec = Unset THEN _default_non_pipelined_codec_threads(q.total)
                       ELSE q.codec]
    BY <1>3 DEF resolve_zerotts_thread_budget
  <2>2. _default_non_pipelined_codec_threads(q.total) >= 1
    <3>1. Min({q.total \div 2, 4}) = Least2(q.total \div 2, 4)
      BY <1>1, <1>2
    <3> QED BY <3>1, <1>1 DEF _default_non_pipelined_codec_threads
  <2> QED BY <2>1, <2>2, <1>1, <1>3 DEF Unset
<1>4. CASE Pipelined(q)
  <2>1. q.total >= 2
    BY <1>1, <1>4 DEF Pipelined
  <2>2. CASE q.codec = Unset /\ q.ggml = Unset
    <3> DEFINE c == _default_pipelined_codec_threads(q.total)
    <3>1. t = [ggml |-> IF Borrows(q) THEN q.total ELSE q.total - c, codec |-> c]
      BY <1>4, <2>2 DEF resolve_zerotts_thread_budget
    <3>2. c \in Nat /\ c >= 1 /\ c < q.total /\ (q.total <= 4 => c = 1)
      BY <1>1, <2>1 DEF _default_pipelined_codec_threads
    <3>3. Borrows(q) => q.total <= 4
      BY <1>1 DEF Borrows
    <3> HIDE DEF c
    <3> QED BY <3>1, <3>2, <3>3, <2>2, <1>1
  <2>3. CASE q.codec # Unset /\ q.ggml # Unset
    <3> DEFINE c == Least2(q.codec, q.total - 1)
               r == IF Borrows(q) /\ c = 1 THEN q.total ELSE q.total - c
    <3>1. Min({q.codec, q.total - 1}) = c
      BY <1>1, <1>2
    <3>2. c \in Nat /\ c >= 1 /\ c < q.total /\ c <= q.codec /\ (q.codec < q.total => c = q.codec)
      BY <1>1, <2>1, <2>3 DEF Unset
    <3>3. r \in Nat /\ r >= 1 /\ r <= q.total /\ r >= q.total - c
          /\ r + c <= q.total + (IF Borrows(q) THEN 1 ELSE 0)
      <4> HIDE DEF c
      <4> QED BY <3>2, <1>1
    <3>4. t = [ggml |-> Min({q.ggml, r}), codec |-> c]
      BY <1>4, <2>3, <3>1
         DEF resolve_zerotts_thread_budget, _resolve_explicit_pipelined_threads,
             _resolve_dual_override_threads
    <3> HIDE DEF r, c
    <3>5. Min({q.ggml, r}) = Least2(q.ggml, r)
      BY <1>1, <1>2, <3>3
    <3>6. q.codec + q.ggml <= q.total => c = q.codec /\ Least2(q.ggml, r) = q.ggml
      BY <1>1, <2>3, <3>2, <3>3 DEF Unset
    <3>7. Kept([ggml |-> Least2(q.ggml, r), codec |-> c])
      BY <1>1, <2>1, <2>3, <3>2, <3>3, <3>6 DEF Unset
    <3> QED BY <3>4, <3>5, <3>7
  <2>4. CASE q.codec # Unset /\ q.ggml = Unset
    <3> DEFINE c == Least2(q.codec, q.total - 1)
               r == IF Borrows(q) /\ c = 1 THEN q.total ELSE Most2(1, q.total - c)
    <3>1. Min({q.codec, q.total - 1}) = c
      BY <1>1, <1>2
    <3>2. c \in Nat /\ c >= 1 /\ c < q.total
      BY <1>1, <2>1, <2>4 DEF Unset
    <3>3. t = [ggml |-> IF Borrows(q) /\ c = 1 THEN q.total ELSE Max({1, q.total - c}), codec |-> c]
      BY <1>4, <2>4, <3>1
         DEF resolve_zerotts_thread_budget, _resolve_explicit_pipelined_threads
    <3> HIDE DEF c
    <3>4. Max({1, q.total - c}) = Most2(1, q.total - c)
      <4>1. q.total - c \in Int
        BY <1>1, <3>2
      <4>2. \A d \in Int : Max({1, d}) = Most2(1, d)
        BY <1>2
      <4> HIDE DEF Most2
      <4> QED BY <4>1, <4>2
    <3>5. r >= 1 /\ r <= q.total /\ r + c <= q.total + (IF Borrows(q) THEN 1 ELSE 0)
      BY <1>1, <3>2
    <3> QED BY <3>2, <3>3, <3>4, <3>5, <2>4
  <2>5. CASE q.codec = Unset /\ q.ggml # Unset
    <3> DEFINE m == IF Borrows(q) THEN q.total ELSE q.total - 1
               g == Least2(q.ggml, m)
               r == IF Borrows(q) /\ g = q.total THEN 1 ELSE Most2(1, q.total - g)
    <3>1. Min({q.ggml, m}) = g
      BY <1>1, <1>2
    <3>2. g \in Nat /\ g >= 1 /\ g <= q.total /\ (~Borrows(q) => g < q.total)
      BY <1>1, <2>1, <2>5 DEF Unset
    <3>3. t = [ggml |-> g, codec |-> IF Borrows(q) /\ g = q.total THEN 1 ELSE Max({1, q.total - g})]
      BY <1>4, <2>5, <3>1
         DEF resolve_zerotts_thread_budget, _resolve_explicit_pipelined_threads
    <3> HIDE DEF g
    <3>4. Max({1, q.total - g}) = Most2(1, q.total - g)
      <4>1. q.total - g \in Int
        BY <1>1, <3>2
      <4>2. \A d \in Int : Max({1, d}) = Most2(1, d)
        BY <1>2
      <4> HIDE DEF Most2
      <4> QED BY <4>1, <4>2
    <3>5. r \in Nat /\ r >= 1 /\ r < q.total /\ r + g <= q.total + (IF Borrows(q) THEN 1 ELSE 0)
      <4>1. CASE Borrows(q)
        BY <4>1, <1>1, <2>1, <3>2
      <4>2. CASE ~Borrows(q)
        BY <4>2, <1>1, <2>1, <3>2
      <4> QED BY <4>1, <4>2
    <3>6. t = [ggml |-> g, codec |-> r]
      BY <3>3, <3>4
    <3> HIDE DEF r
    <3> QED BY <3>2, <3>5, <3>6, <2>5, <1>1
  <2> QED BY <2>2, <2>3, <2>4, <2>5
<1> QED BY <1>3, <1>4

\* The needs of the variants, from the best on: each runs where the one before it runs.
LEMMA VariantOrder ==
  /\ DOMAIN Hierarchy = 1..3 /\ Len(Hierarchy) = 3 /\ Range(Hierarchy) = {"avx2", "avx", "compat"}
  /\ \A i, j \in 1..3 : i <= j => /\ Needs[Hierarchy[j]] \subseteq Needs[Hierarchy[i]]
                                 /\ Cardinality(Needs[Hierarchy[j]]) <= Cardinality(Needs[Hierarchy[i]])
  /\ \A i, j \in 1..3 : Hierarchy[i] = Hierarchy[j] => i = j
  /\ Needs[Hierarchy[3]] = {}
<1>1. DOMAIN Hierarchy = 1..3 /\ Len(Hierarchy) = 3
      /\ Hierarchy[1] = "avx2" /\ Hierarchy[2] = "avx" /\ Hierarchy[3] = "compat"
  BY DEF Hierarchy
<1>2. Needs["avx2"] = {"avx", "avx2"} /\ Needs["avx"] = {"avx"} /\ Needs["compat"] = {}
  BY DEF Needs
<1>3. Cardinality({}) = 0 /\ Cardinality({"avx"}) = 1
  BY FS_EmptySet, FS_Singleton
<1>4. Cardinality({"avx", "avx2"}) = 2
  <2>1. IsFiniteSet({"avx"}) /\ "avx2" \notin {"avx"} /\ {"avx"} \cup {"avx2"} = {"avx", "avx2"}
    BY FS_Singleton
  <2> QED BY <2>1, <1>3, FS_AddElement
<1>5. \A i \in 1..3 : i = 1 \/ i = 2 \/ i = 3
  OBVIOUS
<1>6. Range(Hierarchy) = {"avx2", "avx", "compat"}
  BY <1>1, <1>5 DEF Range
<1>7. \A i, j \in 1..3 : i <= j => /\ Needs[Hierarchy[j]] \subseteq Needs[Hierarchy[i]]
                                  /\ Cardinality(Needs[Hierarchy[j]]) <= Cardinality(Needs[Hierarchy[i]])
  BY <1>1, <1>2, <1>3, <1>4, <1>5
<1>8. \A i, j \in 1..3 : Hierarchy[i] = Hierarchy[j] => i = j
  BY <1>1, <1>5
<1> QED BY <1>1, <1>2, <1>6, <1>7, <1>8

\* The candidates, by the place of their variant in the hierarchy.
LEMMA Candidates ==
  ASSUME NEW q \in LibraryQuestions
  PROVE  \E d \in 1..3 :
           /\ detect_cpu_variant(q) = Hierarchy[d]
           /\ can_host_execute_variant(q, Hierarchy[d])
           /\ \A k \in 1..3 : can_host_execute_variant(q, Hierarchy[k]) <=> d <= k
           /\ LET paths == get_zerotts_candidate_lib_paths(q)
                  n == 2 * (4 - d)
              IN  /\ DOMAIN paths = 1..n \/ DOMAIN paths = 1..n + 1
                  /\ \A k \in d..3 : /\ paths[2 * (k - d) + 1] = <<"app", Hierarchy[k]>>
                                     /\ paths[2 * (k - d) + 2] = <<"repo", Hierarchy[k]>>
                  /\ n + 1 \in DOMAIN paths => \E k \in d..3 : paths[n + 1] = <<"app", Hierarchy[k]>>
<1> DEFINE R == {i \in DOMAIN Hierarchy : can_host_execute_variant(q, Hierarchy[i])}
           d == Min(R)
           paths == get_zerotts_candidate_lib_paths(q)
           order == _get_variant_fallback_order(q)
           n == 2 * (4 - d)
<1>1. 3 \in R /\ R \subseteq 1..3
  BY VariantOrder DEF can_host_execute_variant
<1>2. d \in R /\ d \in 1..3 /\ \A k \in R : d <= k
  <2>1. R # {} /\ R \subseteq Nat
    BY <1>1
  <2> HIDE DEF R
  <2> QED BY <2>1, <1>1, Lowest
<1>3. detect_cpu_variant(q) = Hierarchy[d]
  BY DEF detect_cpu_variant
<1> HIDE DEF d
<1>4. \A k \in 1..3 : can_host_execute_variant(q, Hierarchy[k]) <=> d <= k
  <2> SUFFICES ASSUME NEW k \in 1..3
               PROVE  can_host_execute_variant(q, Hierarchy[k]) <=> d <= k
    OBVIOUS
  <2>1. can_host_execute_variant(q, Hierarchy[k]) => d <= k
    BY <1>2, VariantOrder
  <2>2. ASSUME d <= k PROVE can_host_execute_variant(q, Hierarchy[k])
    <3>1. Needs[Hierarchy[k]] \subseteq Needs[Hierarchy[d]]
      BY <2>2, <1>2, VariantOrder
    <3>2. can_host_execute_variant(q, Hierarchy[d])
      BY <1>2
    <3> QED BY <3>1, <3>2 DEF can_host_execute_variant
  <2> QED BY <2>1, <2>2
<1>5. (CHOOSE i \in DOMAIN Hierarchy : Hierarchy[i] = detect_cpu_variant(q)) = d
  <2>1. d \in DOMAIN Hierarchy /\ \A i \in DOMAIN Hierarchy : Hierarchy[i] = detect_cpu_variant(q) <=> i = d
    BY <1>2, <1>3, VariantOrder
  <2> QED BY <2>1
<1>6. order = SubSeq(Hierarchy, d, 3)
  BY <1>5, VariantOrder DEF _get_variant_fallback_order
<1>7. /\ order \in Seq({"avx2", "avx", "compat"}) /\ Len(order) = 4 - d
      /\ \A j \in 1..4 - d : order[j] = Hierarchy[d + j - 1]
  <2>1. \A i \in d..3 : Hierarchy[i] \in {"avx2", "avx", "compat"}
    BY <1>2 DEF Hierarchy
  <2>2. 3 - d + 1 = 4 - d /\ d <= 3 /\ d \in Int /\ 3 \in Int
    BY <1>2
  <2> QED BY <2>1, <2>2, <1>6, SubSeqProperties
<1> HIDE DEF order
<1> DEFINE base == [i \in 1..Len(order) * 2 |-> <<BaseDirs[((i - 1) % 2) + 1], order[((i - 1) \div 2) + 1]>>]
           link == IF q.link \in Range(order) THEN << <<"app", q.link>> >> ELSE <<>>
<1>8. Len(BaseDirs) = 2 /\ BaseDirs[1] = "app" /\ BaseDirs[2] = "repo"
  BY DEF BaseDirs
<1>9. paths = base \o link
  BY <1>8 DEF get_zerotts_candidate_lib_paths, order
<1>10. n \in Nat /\ Len(order) * 2 = n
  BY <1>2, <1>7
<1>11. base \in Seq({BaseDirs[1], BaseDirs[2]} \X {"avx2", "avx", "compat"}) /\ Len(base) = n
  <2>1. \A i \in 1..n : /\ BaseDirs[((i - 1) % 2) + 1] \in {BaseDirs[1], BaseDirs[2]}
                        /\ ((i - 1) \div 2) + 1 \in 1..4 - d
    <3> SUFFICES ASSUME NEW i \in 1..n
                 PROVE  /\ BaseDirs[((i - 1) % 2) + 1] \in {BaseDirs[1], BaseDirs[2]}
                        /\ ((i - 1) \div 2) + 1 \in 1..4 - d
      OBVIOUS
    <3>1. (i - 1) % 2 = 0 \/ (i - 1) % 2 = 1
      BY <1>2
    <3>2. ((i - 1) \div 2) + 1 \in 1..4 - d
      BY <1>2
    <3> QED BY <3>1, <3>2
  <2>2. \A j \in 1..4 - d : order[j] \in {"avx2", "avx", "compat"}
    BY <1>7
  <2>3. base \in [1..n -> {BaseDirs[1], BaseDirs[2]} \X {"avx2", "avx", "compat"}]
    BY <1>10, <2>1, <2>2
  <2> HIDE DEF base
  <2> QED BY <1>10, <2>3
<1>12. \A k \in d..3 : /\ base[2 * (k - d) + 1] = <<"app", Hierarchy[k]>>
                       /\ base[2 * (k - d) + 2] = <<"repo", Hierarchy[k]>>
  <2> SUFFICES ASSUME NEW k \in d..3
               PROVE  /\ base[2 * (k - d) + 1] = <<"app", Hierarchy[k]>>
                      /\ base[2 * (k - d) + 2] = <<"repo", Hierarchy[k]>>
    OBVIOUS
  <2>1. /\ 2 * (k - d) + 1 \in 1..n /\ 2 * (k - d) + 2 \in 1..n
        /\ k - d + 1 \in 1..4 - d /\ d + (k - d + 1) - 1 = k
    BY <1>2
  <2>2. /\ (2 * (k - d) + 1 - 1) % 2 = 0 /\ (2 * (k - d) + 2 - 1) % 2 = 1
        /\ (2 * (k - d) + 1 - 1) \div 2 = k - d /\ (2 * (k - d) + 2 - 1) \div 2 = k - d
    BY <1>2
  <2>3. order[k - d + 1] = Hierarchy[k]
    BY <2>1, <1>7
  <2>4. \A i \in 1..n : base[i] = <<BaseDirs[((i - 1) % 2) + 1], order[((i - 1) \div 2) + 1]>>
    BY <1>10
  <2> HIDE DEF base
  <2>5. base[2 * (k - d) + 1] = <<BaseDirs[0 + 1], order[(k - d) + 1]>>
    BY <2>1, <2>2, <2>4
  <2>6. base[2 * (k - d) + 2] = <<BaseDirs[1 + 1], order[(k - d) + 1]>>
    BY <2>1, <2>2, <2>4
  <2> QED BY <2>3, <2>5, <2>6, <1>8
<1> HIDE DEF base
<1>13. link = <<>> \/ \E k \in d..3 : link = << <<"app", Hierarchy[k]>> >>
  <2> SUFFICES ASSUME q.link \in Range(order) PROVE \E k \in d..3 : q.link = Hierarchy[k]
    OBVIOUS
  <2>1. PICK j \in 1..4 - d : q.link = order[j]
    BY <1>7 DEF Range
  <2>2. d + j - 1 \in d..3
    BY <1>2
  <2> QED BY <2>1, <2>2, <1>7
<1> HIDE DEF link
<1>14. /\ DOMAIN paths = 1..n \/ DOMAIN paths = 1..n + 1
       /\ \A i \in 1..n : paths[i] = base[i]
       /\ n + 1 \in DOMAIN paths => \E k \in d..3 : paths[n + 1] = <<"app", Hierarchy[k]>>
  <2>1. CASE link = <<>>
    BY <2>1, <1>9, <1>10, <1>11
  <2>2. CASE \E k \in d..3 : link = << <<"app", Hierarchy[k]>> >>
    <3>1. PICK k \in d..3 : link = << <<"app", Hierarchy[k]>> >>
      BY <2>2
    <3> DEFINE e == <<"app", Hierarchy[k]>>
    <3>2. link = <<e>>
      BY <3>1
    <3> HIDE DEF e
    <3>3. Len(link) = 1 /\ link[1] = e
      BY <3>2
    <3>4. DOMAIN paths = 1..n + 1 /\ (\A i \in 1..n : paths[i] = base[i]) /\ paths[n + 1] = e
      BY <3>2, <3>3, <1>9, <1>10, <1>11
    <3> QED BY <3>4 DEF e
  <2> QED BY <1>13, <2>1, <2>2
<1>15. \A k \in d..3 : 2 * (k - d) + 1 \in 1..n /\ 2 * (k - d) + 2 \in 1..n
  BY <1>2
<1>16. \A k \in d..3 : /\ paths[2 * (k - d) + 1] = <<"app", Hierarchy[k]>>
                       /\ paths[2 * (k - d) + 2] = <<"repo", Hierarchy[k]>>
  BY <1>12, <1>14, <1>15
<1>17. can_host_execute_variant(q, Hierarchy[d])
  BY <1>2
<1> HIDE DEF paths
<1>18. LET m == 2 * (4 - d)
       IN  /\ DOMAIN paths = 1..m \/ DOMAIN paths = 1..m + 1
           /\ m + 1 \in DOMAIN paths => \E k \in d..3 : paths[m + 1] = <<"app", Hierarchy[k]>>
  BY <1>14
<1> QED BY <1>2, <1>3, <1>4, <1>16, <1>17, <1>18 DEF paths

\* BestLibrary, of every answer.
LEMMA LibraryAnswers ==
  ASSUME NEW q \in LibraryQuestions
  PROVE  LET RunsOn(v) == \A i \in DOMAIN q.cores : Needs[v] \subseteq q.cores[i]
             there == {v \in Range(Hierarchy) :
                         RunsOn(v) /\ \E dir \in Range(BaseDirs) : q.libs[<<dir, v>>] = "whole"}
             reply == resolve_zerotts_ggml_lib(q)
         IN  /\ RunsOn(reply[2])
             /\ \A v \in there : Cardinality(Needs[v]) <= Cardinality(Needs[reply[2]])
             /\ reply[1] = "built" <=> there = {}
<1> DEFINE RunsOn(v) == \A i \in DOMAIN q.cores : Needs[v] \subseteq q.cores[i]
           there == {v \in Range(Hierarchy) :
                       RunsOn(v) /\ \E dir \in Range(BaseDirs) : q.libs[<<dir, v>>] = "whole"}
           reply == resolve_zerotts_ggml_lib(q)
           paths == get_zerotts_candidate_lib_paths(q)
           loads == {i \in DOMAIN paths : q.libs[paths[i]] # "none" /\ _load_zerotts_candidate(q, paths[i])}
<1>1. \A v : can_host_execute_variant(q, v) <=> RunsOn(v)
  <2>1. DOMAIN q.cores = {1, 2}
    BY DEF LibraryQuestions
  <2> QED BY <2>1 DEF can_host_execute_variant, get_host_cpu_flags
<1>2. Range(BaseDirs) = {"app", "repo"}
  BY DEF Range, BaseDirs
<1>3. PICK d \in 1..3 :
           /\ detect_cpu_variant(q) = Hierarchy[d]
           /\ can_host_execute_variant(q, Hierarchy[d])
           /\ \A k \in 1..3 : can_host_execute_variant(q, Hierarchy[k]) <=> d <= k
           /\ DOMAIN paths = 1..2 * (4 - d) \/ DOMAIN paths = 1..2 * (4 - d) + 1
           /\ \A k \in d..3 : /\ paths[2 * (k - d) + 1] = <<"app", Hierarchy[k]>>
                              /\ paths[2 * (k - d) + 2] = <<"repo", Hierarchy[k]>>
           /\ 2 * (4 - d) + 1 \in DOMAIN paths
                => \E k \in d..3 : paths[2 * (4 - d) + 1] = <<"app", Hierarchy[k]>>
  BY Candidates
<1> DEFINE n == 2 * (4 - d)
<1> HIDE DEF RunsOn, paths
\* Of the places of a variant that is there, one loads.
<1>4. \A k \in d..3 : Hierarchy[k] \in there
        <=> 2 * (k - d) + 1 \in loads \/ 2 * (k - d) + 2 \in loads
  <2> SUFFICES ASSUME NEW k \in d..3
               PROVE  Hierarchy[k] \in there <=> 2 * (k - d) + 1 \in loads \/ 2 * (k - d) + 2 \in loads
    OBVIOUS
  <2>1. 2 * (k - d) + 1 \in DOMAIN paths /\ 2 * (k - d) + 2 \in DOMAIN paths
    BY <1>3
  <2>2. Hierarchy[k] \in Range(Hierarchy) /\ RunsOn(Hierarchy[k])
    BY <1>1, <1>3, VariantOrder DEF Range
  <2>3. 2 * (k - d) + 1 \in loads <=> q.libs[<<"app", Hierarchy[k]>>] = "whole"
    BY <1>3, <2>1 DEF _load_zerotts_candidate
  <2>4. 2 * (k - d) + 2 \in loads <=> q.libs[<<"repo", Hierarchy[k]>>] = "whole"
    BY <1>3, <2>1 DEF _load_zerotts_candidate
  <2> QED BY <2>2, <2>3, <2>4, <1>2
<1>5. \A v \in there : \E k \in d..3 : v = Hierarchy[k]
  <2> SUFFICES ASSUME NEW v \in there PROVE \E k \in d..3 : v = Hierarchy[k]
    OBVIOUS
  <2>1. PICK k \in 1..3 : v = Hierarchy[k]
    BY VariantOrder DEF Range
  <2> QED BY <2>1, <1>1, <1>3
<1> HIDE DEF there
<1>6. loads \subseteq Nat /\ loads \subseteq DOMAIN paths
  BY <1>3
<1>7. reply = IF loads # {} THEN paths[Min(loads)] ELSE <<"built", Hierarchy[d]>>
  BY <1>3 DEF resolve_zerotts_ggml_lib, paths
<1> HIDE DEF reply
<1>8. CASE loads = {}
  <2>1. there = {}
    BY <1>4, <1>5, <1>8
  <2>2. reply[1] = "built" /\ RunsOn(reply[2])
    BY <1>1, <1>3, <1>7, <1>8
  <2>3. /\ RunsOn(reply[2])
        /\ \A v \in there : Cardinality(Needs[v]) <= Cardinality(Needs[reply[2]])
        /\ reply[1] = "built" <=> there = {}
    BY <2>1, <2>2
  <2> QED BY <2>3 DEF RunsOn, there, reply
<1>9. CASE loads # {}
  <2> DEFINE m == Min(loads)
  <2>1. m \in loads /\ \A i \in loads : m <= i
    <3> HIDE DEF loads
    <3> QED BY <1>6, <1>9, Lowest
  <2> HIDE DEF m
  <2>2. m \in 1..n
    <3> SUFFICES ASSUME m \notin 1..n PROVE FALSE
      OBVIOUS
    <3>0. m \in DOMAIN paths /\ n \in Nat
      BY <1>6, <2>1
    <3>1. m = n + 1 /\ n + 1 \in DOMAIN paths
      BY <3>0, <1>3
    <3>2. PICK k \in d..3 : paths[n + 1] = <<"app", Hierarchy[k]>>
      BY <1>3, <3>1
    <3>3. 2 * (k - d) + 1 \in DOMAIN paths /\ paths[2 * (k - d) + 1] = paths[m]
      BY <1>3, <3>1, <3>2
    <3>4. 2 * (k - d) + 1 \in loads
      BY <2>1, <3>3
    <3>5. 2 * (k - d) + 1 < n + 1
      BY <1>3
    <3> QED BY <2>1, <3>1, <3>4, <3>5, <1>3
  <2>3. PICK k \in d..3 : m = 2 * (k - d) + 1 \/ m = 2 * (k - d) + 2
    <3>1. (m - 1) \div 2 + d \in d..3
      BY <2>2, <1>3
    <3>2. m = 2 * (((m - 1) \div 2 + d) - d) + 1 \/ m = 2 * (((m - 1) \div 2 + d) - d) + 2
      BY <2>2, <1>3
    <3> QED BY <3>1, <3>2
  <2>4. reply = <<"app", Hierarchy[k]>> \/ reply = <<"repo", Hierarchy[k]>>
    BY <1>3, <1>7, <1>9, <2>3 DEF m
  <2>5. Hierarchy[k] \in there /\ RunsOn(Hierarchy[k])
    <3>1. k \in 1..3 /\ d <= k
      BY <1>3
    <3>2. RunsOn(Hierarchy[k])
      BY <3>1, <1>1, <1>3
    <3> HIDE DEF loads
    <3>3. Hierarchy[k] \in there
      BY <1>4, <2>1, <2>3
    <3> QED BY <3>2, <3>3
  <2>6. \A j \in d..3 : Hierarchy[j] \in there => k <= j
    <3> SUFFICES ASSUME NEW j \in d..3, Hierarchy[j] \in there PROVE k <= j
      OBVIOUS
    <3>1. m <= 2 * (j - d) + 1 \/ m <= 2 * (j - d) + 2
      BY <1>4, <2>1
    <3> QED BY <3>1, <2>3, <1>3
  <2>7. \A v \in there : Cardinality(Needs[v]) <= Cardinality(Needs[Hierarchy[k]])
    <3> SUFFICES ASSUME NEW v \in there
                 PROVE  Cardinality(Needs[v]) <= Cardinality(Needs[Hierarchy[k]])
      OBVIOUS
    <3>1. PICK j \in d..3 : v = Hierarchy[j]
      BY <1>5
    <3>2. k \in 1..3 /\ j \in 1..3 /\ k <= j
      BY <1>3, <2>6, <3>1
    <3> QED BY <3>1, <3>2, VariantOrder
  <2>8. /\ RunsOn(reply[2])
        /\ \A v \in there : Cardinality(Needs[v]) <= Cardinality(Needs[reply[2]])
        /\ reply[1] = "built" <=> there = {}
    BY <2>4, <2>5, <2>7
  <2> QED BY <2>8 DEF RunsOn, there, reply
<1> QED BY <1>8, <1>9

--------------------------------------------------------------------------------

Questions == CpuQuestions \cup MemoryQuestions \cup BudgetQuestions \cup LibraryQuestions

\* The answer to a question, as HostNext gives it.
Reply(q) ==
  CASE q.kind = "cpu"     -> resolve_cpu_threads(q)
    [] q.kind = "memory"  -> detect_device_resources(q)
    [] q.kind = "budget"  -> resolve_zerotts_thread_budget(q)
    [] q.kind = "library" -> resolve_zerotts_ggml_lib(q)

HostInv == question \in Questions /\ (answer = NoAnswer \/ answer = <<Reply(question)>>)

\* The answer is that to the question.
LEMMA HostKeepsInv == HostSpec => []HostInv
<1>1. HostInit => HostInv
  BY DEF HostInit, HostInv, Questions
<1>2. HostInv /\ [HostNext]_host_vars => HostInv'
  <2>1. HostInv /\ HostNext => HostInv'
    <3> SUFFICES ASSUME HostInv, HostNext PROVE HostInv'
      OBVIOUS
    <3>1. question' = question /\ answer' = <<Reply(question)>>
      BY DEF HostNext, Reply
    <3>2. answer' = <<Reply(question')>>
      BY <3>1
    <3> QED BY <3>1, <3>2 DEF HostInv
  <2>2. HostInv /\ UNCHANGED host_vars => HostInv'
    BY DEF HostInv, host_vars
  <2> QED BY <2>1, <2>2
<1> QED BY <1>1, <1>2, PTL DEF HostSpec

\* The kind of a question tells whose it is, and what answers it.
LEMMA Kinds ==
  ASSUME HostInv, answer # NoAnswer
  PROVE  /\ question.kind = "cpu" => question \in CpuQuestions /\ answer[1] = resolve_cpu_threads(question)
         /\ question.kind = "memory" =>
              question \in MemoryQuestions /\ answer[1] = detect_device_resources(question)
         /\ question.kind = "budget" =>
              question \in BudgetQuestions /\ answer[1] = resolve_zerotts_thread_budget(question)
         /\ question.kind = "library" =>
              question \in LibraryQuestions /\ answer[1] = resolve_zerotts_ggml_lib(question)
<1>1. answer = <<Reply(question)>> /\ question \in Questions
  BY DEF HostInv
<1>2. answer[1] = Reply(question)
  BY <1>1
<1>3. /\ \A q \in CpuQuestions : q.kind = "cpu"
      /\ \A q \in MemoryQuestions : q.kind = "memory"
      /\ \A q \in BudgetQuestions : q.kind = "budget"
      /\ \A q \in LibraryQuestions : q.kind = "library"
  BY DEF CpuQuestions, MemoryQuestions, BudgetQuestions, LibraryQuestions
<1> QED BY <1>1, <1>2, <1>3 DEF Questions, Reply

\* HostFits: a server takes the threads, the memory and the library that its host has, and no
\* more, whatever the limits of the groups above it (resolve_cpu_threads,
\* detect_device_resources, resolve_zerotts_thread_budget, resolve_zerotts_ggml_lib).
THEOREM HostTakesItsShare == HostSpec => []HostFits
<1>1. HostInv => HostFits
  <2> SUFFICES ASSUME HostInv PROVE HostFits
    OBVIOUS
  <2>1. ThreadsFit
    BY Kinds, CpuAnswers DEF ThreadsFit, Answered
  <2>2. MemoryFits
    BY Kinds, MemoryAnswers DEF MemoryFits, Answered
  <2>3. BudgetKept
    BY Kinds, BudgetAnswers DEF BudgetKept, Answered
  <2>4. BestLibrary
    BY Kinds, LibraryAnswers DEF BestLibrary, Answered
  <2> QED BY <2>1, <2>2, <2>3, <2>4 DEF HostFits
<1> QED BY <1>1, HostKeepsInv, PTL

--------------------------------------------------------------------------------
(* ZeroTtsPipeline: the native context. *)

USE ConstantsAssumption

\* The engine starts with a context and without workers.
LEMMA InitIInv == Init => IInv
<1> SUFFICES ASSUME Init PROVE IInv
  OBVIOUS
<1>1. TypeOK
  BY DEF Init, TypeOK, QueueTypes
<1>2. \A u \in Runs : ~Alive(u)
  BY DEF Init, Alive, InNative, Putting
<1> QED
  BY <1>1, <1>2 DEF Init, IInv, EngineInv, StopInv, WorkerKnown, BusyAlive

\* The chunk queue of a run changes by the head that is taken or the item that is put.
LEMMA QueueTyped ==
  ASSUME TypeOK, NEW u \in Runs, NEW item \in Nat \cup {ErrorMark},
         \/ UNCHANGED queue
         \/ queue[u] # <<>> /\ queue' = [queue EXCEPT ![u] = Tail(@)]
         \/ HasRoom(u) /\ Put(u, item)
  PROVE  DOMAIN queue' = Runs /\ QueueTypes'
<1> DEFINE Items == Nat \cup {ErrorMark}
<1>1. queue[u] \in Seq(Items) /\ Len(queue[u]) <= QueueCap /\ DOMAIN queue = Runs
  BY DEF TypeOK, QueueTypes
<1>2. queue[u] # <<>> => Tail(queue[u]) \in Seq(Items) /\ Len(Tail(queue[u])) <= QueueCap
  BY <1>1
<1>3. HasRoom(u) => Append(queue[u], item) \in Seq(Items) /\ Len(Append(queue[u], item)) <= QueueCap
  BY <1>1 DEF HasRoom
<1> HIDE DEF Items
<1>4. \A v \in Runs : queue'[v] = queue[v] \/ v = u
  BY <1>1 DEF Put
<1>5. queue'[u] \in Seq(Items) /\ Len(queue'[u]) <= QueueCap
  BY <1>1, <1>2, <1>3 DEF Put
<1> QED
  BY <1>1, <1>4, <1>5 DEF TypeOK, QueueTypes, Put, Items

\* Steps of the generator and of its caller keep the types.
LEMMA GeneratorTypes ==
  ASSUME IInv, GeneratorStep \/ Resume \/ Discard \/ Abandon \/ (\E u \in Runs : Open(u))
  PROVE  TypeOK'
<1>0. TypeOK /\ (pc \notin {"idle"} => current \in Runs)
  BY DEF IInv, EngineInv, TypeOK
<1>1. DOMAIN queue' = Runs /\ QueueTypes'
  <2>1. CASE UNCHANGED queue
    BY <2>1, <1>0 DEF TypeOK, QueueTypes
  <2>2. CASE GetSlice \/ GetMark \/ DrainSlice
    <3>1. pc # "idle" /\ queue[current] # <<>> /\ queue' = [queue EXCEPT ![current] = Tail(@)]
      BY <2>2 DEF GetSlice, GetMark, DrainSlice
    <3> QED BY <3>1, <1>0, QueueTyped
  <2> QED
    BY <2>1, <2>2 DEF GeneratorStep, Resume, Discard, Abandon, Open, Begin, Refuse, GetTimeout,
                      CheckWorker, SetStop, Joined, JoinTimeout, sharedVars
<1> USE DEF TypeOK, InNative, Putting
<1>2. CASE \E u \in Runs : Open(u)
  BY <1>0, <1>1, <1>2 DEF Open, workerVars, sharedVars, engineVars
<1>3. CASE Resume \/ Discard \/ Abandon
  BY <1>0, <1>1, <1>3 DEF Resume, Discard, Abandon, Ended, workerVars, sharedVars, engineVars
<1>4. CASE Begin \/ Refuse
  BY <1>0, <1>1, <1>4 DEF Begin, Refuse, Ended, workerVars, sharedVars
<1>5. CASE GetSlice
  <2>1. Head(queue[current]) \in Nat
    BY <1>0, <1>5 DEF GetSlice, QueueTypes, ErrorMark
  <2>2. decoded' \in [Runs -> Nat]
    <3>0. current \in Runs /\ decoded \in [Runs -> Nat]
      BY <1>0, <1>5 DEF GetSlice
    <3>1. \A n \in Nat : [decoded EXCEPT ![current] = @ + n] \in [Runs -> Nat]
      <4> HIDE DEF TypeOK
      <4> QED BY <3>0
    <3>2. decoded' = [decoded EXCEPT ![current] = @ + Head(queue[current])]
      BY <1>5 DEF GetSlice
    <3> QED BY <2>1, <3>1, <3>2
  <2>3. /\ pc' \in {"yield", "get", "stop"}
        /\ outcome' \in [Runs -> {"none", "open", "marked", "gone", "failed", "empty", "abandoned"}]
    BY <1>0, <1>5 DEF GetSlice, Leave, Ended
  <2> QED
    BY <1>0, <1>1, <1>5, <2>2, <2>3 DEF GetSlice, workerVars, engineVars
<1>6. CASE GetMark \/ GetTimeout \/ CheckWorker \/ SetStop
  <2>1. CASE GetMark
    BY <1>0, <1>1, <2>1 DEF GetMark, Leave, Ended, workerVars, engineVars
  <2>2. CASE GetTimeout
    BY <1>0, <1>1, <2>2 DEF GetTimeout, workerVars, sharedVars, engineVars
  <2>3. CASE CheckWorker
    BY <1>0, <1>1, <2>3 DEF CheckWorker, Leave, Ended, workerVars, sharedVars, engineVars
  <2>4. CASE SetStop
    BY <1>0, <1>1, <2>4 DEF SetStop, workerVars, engineVars
  <2> QED BY <1>6, <2>1, <2>2, <2>3, <2>4
<1>7. CASE DrainSlice
  BY <1>0, <1>1, <1>7 DEF DrainSlice, generatorVars, workerVars, engineVars
<1>8. CASE Joined \/ JoinTimeout
  BY <1>0, <1>1, <1>8 DEF Joined, JoinTimeout, Finish, workerVars, sharedVars
<1> QED
  BY <1>2, <1>3, <1>4, <1>5, <1>6, <1>7, <1>8 DEF GeneratorStep

\* Steps of the worker keep the types.
LEMMA WorkerTypes ==
  ASSUME IInv, NEW u \in Runs, NativeReturns(u) \/ WorkerStep(u)
  PROVE  TypeOK'
<1>0. TypeOK
  BY DEF IInv
<1>1. DOMAIN queue' = Runs /\ QueueTypes'
  <2>1. UNCHANGED queue \/ \E item \in Nat \cup {ErrorMark} : HasRoom(u) /\ Put(u, item)
    BY <1>0 DEF NativeReturns, WorkerStep, FrameReturns, AdvanceReturns, PutSlice, PutLast, PutMark,
           GiveUp, sharedVars, TypeOK, EndMark, ErrorMark
  <2> QED BY <1>0, <2>1, QueueTyped
<1> USE DEF TypeOK, WorkerTo, InNative, Putting
<1>2. CASE FrameReturns(u)
  <2>1. CASE Raise(u) /\ UNCHANGED <<made, tail, count>>
    BY <1>0, <1>1, <1>2, <2>1 DEF FrameReturns, Raise, generatorVars, engineVars
  <2>2. CASE WorkerTo(u, "dead") /\ UNCHANGED <<made, tail, count, error>>
    BY <1>0, <1>1, <1>2, <2>2 DEF FrameReturns, generatorVars, engineVars
  <2>3. CASE /\ made' = [made EXCEPT ![u] = @ + 1]
             /\ count' = [count EXCEPT ![u] = @ + 1]
             /\ \E eoa \in BOOLEAN : tail' = [tail EXCEPT ![u] = TailAfter(@, eoa)]
             /\ WorkerTo(u, "put") \/ AfterFrame(u, tail'[u], count[u] + 1)
             /\ UNCHANGED error
    <3>1. tail' \in [Runs -> {-1, 0, 1}]
      BY <1>0, <2>3 DEF TailAfter
    <3>2. wpc' \in [Runs -> {"none", "dead"} \cup InNative \cup Putting]
      BY <1>0, <2>3 DEF AfterFrame
    <3> QED
      BY <1>0, <1>1, <1>2, <2>3, <3>1, <3>2 DEF FrameReturns, generatorVars, engineVars
  <2> QED
    BY <1>2, <2>1, <2>2, <2>3 DEF FrameReturns
<1>3. CASE AdvanceReturns(u)
  BY <1>0, <1>1, <1>3 DEF AdvanceReturns, Raise, generatorVars, engineVars
<1>4. CASE PutSlice(u)
  <2>1. target' \in [Runs -> Nat \ {0}]
    BY <1>0, <1>4 DEF PutSlice
  <2>2. wpc' \in [Runs -> {"none", "dead"} \cup InNative \cup Putting]
    BY <1>0, <1>4 DEF PutSlice, AfterFrame
  <2> QED
    BY <1>0, <1>1, <1>4, <2>1, <2>2 DEF PutSlice, generatorVars, engineVars
<1>5. CASE PutLast(u) \/ PutMark(u)
  BY <1>0, <1>1, <1>5 DEF PutLast, PutMark, generatorVars, engineVars
<1>6. CASE GiveUp(u)
  BY <1>0, <1>1, <1>6 DEF GiveUp, generatorVars, sharedVars, engineVars
<1> QED
  BY <1>2, <1>3, <1>4, <1>5, <1>6 DEF NativeReturns, WorkerStep

\* Steps of close() and of the clean-up thread keep the types.
LEMMA CloserTypes ==
  ASSUME IInv, Close \/ CloserStep
  PROVE  TypeOK'
<1>1. UNCHANGED <<generatorVars, workerVars, sharedVars>>
  BY DEF Close, CloserStep, CloseJoined, CloseTimeout, DeferredFree
<1>2. ctx' \in BOOLEAN /\ closer' \in {"none", "joining", "closed"}
  BY DEF IInv, TypeOK, Close, CloserStep, CloseJoined, CloseTimeout, DeferredFree
<1>3. busy' \in Runs \cup {NoRun} /\ deferred' \in Runs \cup {NoRun}
  BY DEF IInv, TypeOK, Close, CloserStep, CloseJoined, CloseTimeout, DeferredFree
<1>4. freed' \in Nat
  <2>1. freed \in Nat /\ (freed' = freed \/ freed' = freed + 1)
    BY DEF IInv, TypeOK, Close, CloserStep, CloseJoined, CloseTimeout, DeferredFree, Free
  <2> QED BY <2>1
<1> QED
  BY <1>1, <1>2, <1>3, <1>4 DEF IInv, TypeOK, QueueTypes, InNative, Putting, generatorVars,
                              workerVars, sharedVars

\* The caller's steps leave workers and engine alone.
LEMMA CallerKeeps ==
  ASSUME IInv, Resume \/ Discard \/ Abandon \/ (\E u \in Runs : Open(u))
  PROVE  EngineInv' /\ StopInv' /\ WorkerKnown'
<1>1. UNCHANGED <<wpc, stop, busy, ctx, closer, deferred, freed>>
  BY DEF Resume, Discard, Abandon, Open, workerVars, sharedVars, engineVars
<1>2. \A u \in Runs : Alive(u)' <=> Alive(u)
  BY <1>1 DEF Alive
<1>3. WorkerKnown' /\ (BusyAlive' <=> BusyAlive)
  BY <1>1, <1>2 DEF IInv, TypeOK, WorkerKnown, BusyAlive, Alive
<1>4. EngineInv'
  BY <1>1, <1>3 DEF IInv, EngineInv, Resume, Discard, Abandon, Open, TypeOK
<1>5. StopInv'
  BY <1>1, <1>2 DEF IInv, StopInv, Resume, Discard, Abandon, Open
<1> QED
  BY <1>3, <1>4, <1>5

\* The generator hands its worker over to the engine, or takes it from there.
LEMMA GeneratorKeeps ==
  ASSUME IInv, GeneratorStep
  PROVE  EngineInv' /\ StopInv' /\ WorkerKnown'
<1> USE DEF IInv, TypeOK, EngineInv, StopInv, WorkerKnown, BusyAlive, Alive
<1>1. CASE Begin
  BY <1>1 DEF Begin, InNative, Putting, sharedVars
<1>2. CASE Refuse
  BY <1>2 DEF Refuse, Ended, workerVars, sharedVars
<1>3. CASE GetSlice \/ GetMark \/ GetTimeout \/ CheckWorker
  BY <1>3 DEF GetSlice, GetMark, GetTimeout, CheckWorker, Leave, Ended, workerVars, sharedVars,
              engineVars
<1>4. CASE SetStop
  BY <1>4 DEF SetStop, workerVars, engineVars
<1>5. CASE DrainSlice
  BY <1>5 DEF DrainSlice, generatorVars, workerVars, engineVars
<1>6. CASE Joined \/ JoinTimeout
  BY <1>6 DEF Joined, JoinTimeout, Finish, workerVars, sharedVars
<1> QED
  BY <1>1, <1>2, <1>3, <1>4, <1>5, <1>6 DEF GeneratorStep

\* A worker's step neither revives a worker nor touches the engine.
LEMMA WorkerKeeps ==
  ASSUME IInv, NEW u \in Runs, NativeReturns(u) \/ WorkerStep(u)
  PROVE  EngineInv' /\ StopInv' /\ WorkerKnown'
<1>1. Alive(u) /\ UNCHANGED <<pc, current, stop, busy, ctx, closer, deferred, freed>>
  BY DEF NativeReturns, WorkerStep, FrameReturns, AdvanceReturns, PutSlice, PutLast, PutMark,
         GiveUp, Alive, InNative, Putting, generatorVars, engineVars, sharedVars
<1>2. \A v \in Runs \ {u} : wpc'[v] = wpc[v]
  BY DEF NativeReturns, WorkerStep, FrameReturns, AdvanceReturns, PutSlice, PutLast, PutMark,
         GiveUp, Raise, AfterFrame, WorkerTo, IInv, TypeOK
<1>3. \A v \in Runs : Alive(v)' => Alive(v)
  BY <1>1, <1>2 DEF Alive
<1> QED
  BY <1>1, <1>3 DEF IInv, TypeOK, EngineInv, StopInv, WorkerKnown, BusyAlive

\* close() frees the context or leaves it to the clean-up thread with the worker.
LEMMA CloserKeeps ==
  ASSUME IInv, Close \/ CloserStep
  PROVE  EngineInv' /\ StopInv' /\ WorkerKnown'
<1> USE DEF IInv, TypeOK, EngineInv, StopInv, WorkerKnown, BusyAlive, Alive
<1>1. CASE Close
  BY <1>1 DEF Close, Free, generatorVars, workerVars, sharedVars
<1>2. CASE CloseJoined
  BY <1>2 DEF CloseJoined, Free, generatorVars, workerVars, sharedVars
<1>3. CASE CloseTimeout
  BY <1>3 DEF CloseTimeout, generatorVars, workerVars, sharedVars
<1>4. CASE DeferredFree
  BY <1>4 DEF DeferredFree, Free, generatorVars, workerVars, sharedVars
<1> QED
  BY <1>1, <1>2, <1>3, <1>4 DEF CloserStep

\* The invariant is inductive.
LEMMA NextIInv == IInv /\ [Next]_vars => IInv'
<1> SUFFICES ASSUME IInv, [Next]_vars PROVE IInv'
  OBVIOUS
<1>1. CASE GeneratorStep \/ Resume \/ Discard \/ Abandon \/ (\E u \in Runs : Open(u))
  BY <1>1, GeneratorTypes, CallerKeeps, GeneratorKeeps DEF IInv
<1>2. CASE \E u \in Runs : NativeReturns(u) \/ WorkerStep(u)
  BY <1>2, WorkerTypes, WorkerKeeps DEF IInv
<1>3. CASE Close \/ CloserStep
  BY <1>3, CloserTypes, CloserKeeps DEF IInv
<1>4. CASE UNCHANGED vars
  BY <1>4 DEF vars, generatorVars, workerVars, sharedVars, engineVars, IInv, TypeOK, QueueTypes,
              EngineInv, StopInv, WorkerKnown, BusyAlive, Alive
<1> QED
  BY <1>1, <1>2, <1>3, <1>4 DEF Next

\* The invariant holds throughout.
THEOREM Invariance == Safe => []IInv
BY InitIInv, NextIInv, PTL DEF Safe

\* Every variable keeps its range and the chunk queue its bound.
THEOREM TypeCorrect == Safe => []TypeOK
<1>1. IInv => TypeOK
  BY DEF IInv
<1> QED
  BY <1>1, Invariance, PTL

\* No worker is forgotten by both the engine and the clean-up thread.
THEOREM WorkersKnown == Safe => []WorkerKnown
<1>1. IInv => WorkerKnown
  BY DEF IInv
<1> QED
  BY <1>1, Invariance, PTL

\* One worker at a time uses the native model, and never one that was freed.
THEOREM ContextExclusive == Safe => []ExclusiveContext
<1>1. IInv => ExclusiveContext
  <2> SUFFICES ASSUME IInv, NEW u \in Runs, wpc[u] \in InNative
               PROVE  freed = 0 /\ \A v \in Runs \ {u} : wpc[v] \notin InNative
    BY DEF ExclusiveContext
  <2>1. \A v \in Runs : wpc[v] \in InNative => v = (IF ctx THEN busy ELSE deferred)
    BY DEF IInv, TypeOK, EngineInv, WorkerKnown, BusyAlive, Alive
  <2>2. freed = 0
    BY <2>1 DEF IInv, TypeOK, EngineInv
  <2> QED BY <2>1, <2>2
<1> QED
  BY <1>1, Invariance, PTL

\* zerotts_free is called once at most, when nobody will call it later.
THEOREM ContextFreedOnce == Safe => []FreedOnce
<1>1. IInv => FreedOnce
  BY DEF IInv, TypeOK, EngineInv, FreedOnce
<1> QED
  BY <1>1, Invariance, PTL

\* The native context has one user, who is known until it ends, and is freed once
\* (_prepare_synthesis_session, close).
THEOREM ContextIsSafe == Safe => []ContextSafe
<1>1. TypeOK /\ WorkerKnown /\ ExclusiveContext /\ FreedOnce <=> ContextSafe
  BY DEF ContextSafe
<1> QED
  BY <1>1, TypeCorrect, WorkersKnown, ContextExclusive, ContextFreedOnce, PTL

\* Without a context no worker enters the native model.
THEOREM ContextAtCall == Safe => NoCallWithoutContext
<1> DEFINE Entering == \E u \in Runs : wpc[u] \notin InNative /\ wpc'[u] \in InNative
<1>1. IInv /\ [Next]_vars => (Entering => ctx')
  <2> SUFFICES ASSUME IInv, [Next]_vars, NEW u \in Runs,
                      wpc[u] \notin InNative, wpc'[u] \in InNative
               PROVE  ctx'
    OBVIOUS
  <2>1. CASE Begin
    BY <2>1 DEF Begin
  <2>2. CASE \E v \in Runs : NativeReturns(v) \/ WorkerStep(v)
    <3>1. PICK v \in Runs : NativeReturns(v) \/ WorkerStep(v)
      BY <2>2
    <3>2. u = v /\ ~stop[u]
      BY <3>1 DEF NativeReturns, WorkerStep, FrameReturns, AdvanceReturns, PutSlice, PutLast,
                  PutMark, GiveUp, Raise, AfterFrame, WorkerTo, InNative, IInv, TypeOK
    <3>3. ctx /\ ctx' = ctx
      BY <3>1, <3>2 DEF NativeReturns, WorkerStep, FrameReturns, AdvanceReturns, PutSlice, PutLast,
                  PutMark, GiveUp, IInv, EngineInv, StopInv, Alive, InNative, Putting, engineVars
    <3> QED BY <3>3
  <2>3. CASE GeneratorStep /\ ~Begin
    BY <2>3 DEF GeneratorStep, Refuse, GetSlice, GetMark, GetTimeout, CheckWorker, SetStop,
                DrainSlice, Joined, JoinTimeout, workerVars
  <2>4. CASE Resume \/ Discard \/ Abandon \/ (\E v \in Runs : Open(v))
    BY <2>4 DEF Resume, Discard, Abandon, Open, workerVars
  <2>5. CASE Close \/ CloserStep
    BY <2>5 DEF Close, CloserStep, CloseJoined, CloseTimeout, DeferredFree, workerVars
  <2>6. CASE UNCHANGED vars
    BY <2>6 DEF vars, workerVars
  <2> QED
    BY <2>1, <2>2, <2>3, <2>4, <2>5, <2>6 DEF Next
<1>2. IInv /\ [Next]_vars =>
         [\A u \in Runs : ~ctx' /\ wpc[u] \notin InNative => wpc'[u] \notin InNative]_vars
  BY <1>1
<1> QED
  BY <1>2, Invariance, PTL DEF Safe, NoCallWithoutContext
--------------------------------------------------------------------------------
(* The frames in a queue. *)

Items == Nat \cup {ErrorMark}

\* The recursive definition of the frames in a queue has a solution.
LEMMA QueuedSum ==
  ASSUME NEW q \in Seq(Items)
  PROVE  \E F : /\ F[0] = 0 /\ Queued(q) = F[Len(q)]
                /\ \A n \in 1 .. Len(q) : F[n] = F[n - 1] + Frames(q[n])
<1> DEFINE C == [i \in 1 .. Len(q) |-> Frames(q[i])]
           Solves(G) == G = [n \in 0 .. Len(q) |-> IF n = 0 THEN 0 ELSE G[n - 1] + Frames(q[n])]
           U == CHOOSE G : Solves(G)
<1>0. Len(q) \in Nat
  OBVIOUS
<1>1. \E G : Solves(G)
  <2>1. PICK F : IsPrefixSum(F, C, Len(q))
    BY <1>0, PrefixSum
  <2>2. \A n \in 0 .. Len(q) : n # 0 => C[n] = Frames(q[n])
    BY <1>0
  <2> HIDE DEF C
  <2>3. Solves(F)
    BY <2>1, <2>2 DEF IsPrefixSum
  <2> QED BY <2>3
<1>2. Solves(U)
  <2> HIDE DEF Solves
  <2> QED BY <1>1
<1>3. Queued(q) = U[Len(q)]
  BY Zenon DEF Queued
<1> HIDE DEF U
<1>4. \A n \in 0 .. Len(q) : U[n] = IF n = 0 THEN 0 ELSE U[n - 1] + Frames(q[n])
  BY <1>2
<1>5. U[0] = 0 /\ \A n \in 1 .. Len(q) : U[n] = U[n - 1] + Frames(q[n])
  BY <1>0, <1>4
<1> QED BY <1>3, <1>5

\* A queue has a number of frames; what is put adds its own, what is taken is less.
LEMMA QueuedFrames ==
  ASSUME NEW q \in Seq(Items)
  PROVE  /\ Queued(q) \in Int
         /\ \A item \in Items : Queued(Append(q, item)) = Queued(q) + Frames(item)
         /\ q # <<>> => Queued(Tail(q)) = Queued(q) - Frames(Head(q))
<1>0. /\ Len(q) \in Nat /\ \A i \in 1 .. Len(q) : q[i] \in Items
      /\ \A item \in Items : Frames(item) \in Int
  BY DEF Frames, Items, ErrorMark
<1>1. PICK F : /\ F[0] = 0 /\ Queued(q) = F[Len(q)]
               /\ \A n \in 1 .. Len(q) : F[n] = F[n - 1] + Frames(q[n])
  BY QueuedSum
<1>2. Queued(q) \in Int
  <2>1. GrowAlike(F, F, 0, Len(q))
    BY <1>0, <1>1 DEF GrowAlike
  <2>2. F[0] \in Int /\ F[0] = F[0] + 0 /\ 0 \in Nat /\ 0 \in Int
    BY <1>1
  <2>3. Len(q) \in Nat
    BY <1>0
  <2>4. F[Len(q)] \in Int
    BY <2>1, <2>2, <2>3, SameGrowth
  <2> QED BY <1>1, <2>4
<1>3. ASSUME NEW item \in Items
      PROVE  Queued(Append(q, item)) = Queued(q) + Frames(item)
  <2> DEFINE a == Append(q, item)
  <2>1. /\ a \in Seq(Items) /\ Len(a) = Len(q) + 1 /\ a[Len(q) + 1] = item
        /\ \A i \in 1 .. Len(q) : a[i] = q[i]
    OBVIOUS
  <2> HIDE DEF a
  <2>2. PICK G : /\ G[0] = 0 /\ Queued(a) = G[Len(a)]
                 /\ \A n \in 1 .. Len(a) : G[n] = G[n - 1] + Frames(a[n])
    BY <2>1, QueuedSum
  <2>3. GrowAlike(G, F, 0, Len(q))
    <3> SUFFICES ASSUME NEW n \in 1 .. Len(q)
                 PROVE  \E c \in Int : F[n] = F[n - 1] + c /\ G[0 + n] = G[0 + n - 1] + c
      BY DEF GrowAlike
    <3>1. 0 + n = n /\ 0 + n - 1 = n - 1 /\ n \in 1 .. Len(a) /\ Frames(q[n]) \in Int /\ a[n] = q[n]
      BY <1>0, <2>1
    <3> QED BY <1>1, <2>2, <3>1
  <2>4. F[0] \in Int /\ G[0] = F[0] + 0 /\ 0 \in Int /\ 0 \in Nat
    BY <1>1, <2>2
  <2>5. Len(q) \in Nat
    BY <1>0
  <2>6. F[Len(q)] \in Int /\ G[0 + Len(q)] = F[Len(q)] + 0
    BY <2>3, <2>4, <2>5, SameGrowth
  <2>7. G[Len(q) + 1] = G[Len(q)] + Frames(item)
    <3>1. Len(q) + 1 \in 1 .. Len(a) /\ (Len(q) + 1) - 1 = Len(q)
      BY <1>0, <2>1
    <3> QED BY <2>1, <2>2, <3>1
  <2>8. G[Len(q)] = F[Len(q)]
    <3>1. 0 + Len(q) = Len(q)
      BY <1>0
    <3> QED BY <2>6, <3>1
  <2>9. Queued(a) = Queued(q) + Frames(item)
    BY <1>1, <2>1, <2>2, <2>7, <2>8
  <2> QED BY <2>9 DEF a
<1>4. ASSUME q # <<>>
      PROVE  Queued(Tail(q)) = Queued(q) - Frames(Head(q))
  <2> DEFINE t == Tail(q)
  <2>1. /\ t \in Seq(Items) /\ Len(t) \in Nat /\ Len(q) = 1 + Len(t) /\ Head(q) = q[1]
        /\ \A i \in 1 .. Len(t) : t[i] = q[i + 1]
    BY <1>4
  <2> HIDE DEF t
  <2>2. PICK G : /\ G[0] = 0 /\ Queued(t) = G[Len(t)]
                 /\ \A n \in 1 .. Len(t) : G[n] = G[n - 1] + Frames(t[n])
    BY <2>1, QueuedSum
  <2>3. 1 \in 1 .. Len(q) /\ q[1] \in Items
    BY <1>0, <2>1
  <2>4. F[1] = G[0] + Frames(Head(q)) /\ Frames(Head(q)) \in Int /\ G[0] \in Int /\ 1 \in Nat
    BY <1>0, <1>1, <2>1, <2>2, <2>3
  <2>5. GrowAlike(F, G, 1, Len(t))
    <3> SUFFICES ASSUME NEW n \in 1 .. Len(t)
                 PROVE  \E c \in Int : G[n] = G[n - 1] + c /\ F[1 + n] = F[1 + n - 1] + c
      BY DEF GrowAlike
    <3>1. n + 1 \in 1 .. Len(q) /\ (n + 1) - 1 = n /\ 1 + n = n + 1 /\ 1 + n - 1 = n
      BY <2>1
    <3>2. F[n + 1] = F[n] + Frames(q[n + 1])
      BY <1>1, <3>1
    <3>3. t[n] = q[n + 1] /\ q[n + 1] \in Items
      BY <1>0, <2>1, <3>1
    <3> QED BY <1>0, <2>1, <2>2, <3>1, <3>2, <3>3
  <2>6. G[Len(t)] \in Int /\ F[1 + Len(t)] = G[Len(t)] + Frames(Head(q))
    <3> DEFINE d == Frames(Head(q))
    <3>1. Len(t) \in Nat /\ 1 \in Nat /\ d \in Int /\ G[0] \in Int /\ F[1] = G[0] + d
      BY <2>1, <2>4
    <3> HIDE DEF d
    <3>2. G[Len(t)] \in Int /\ F[1 + Len(t)] = G[Len(t)] + d
      BY <3>1, <2>5, SameGrowth
    <3> QED BY <3>2 DEF d
  <2>7. Queued(t) = Queued(q) - Frames(Head(q))
    BY <1>1, <2>1, <2>2, <2>4, <2>6
  <2> QED BY <2>7 DEF t
<1> QED BY <1>2, <1>3, <1>4
\* A queue without items has no frames.
LEMMA NothingQueued ==
  ASSUME NEW q \in Seq(Items), Len(q) = 0
  PROVE  Queued(q) = 0
BY QueuedSum

--------------------------------------------------------------------------------
(* The outcomes. *)

\* At the start nothing was synthesized.
LEMMA InitEnd == Init => EndInv
<1> SUFFICES ASSUME Init PROVE EndInv
  OBVIOUS
<1>1. OutcomeInv
  BY DEF Init, OutcomeInv
<1>2. ASSUME NEW u \in Runs PROVE StreamInv(u)
  <2>1. <<>> \in Seq(Items) /\ Len(<<>>) = 0
    OBVIOUS
  <2>2. Queued(<<>>) = 0
    BY <2>1, NothingQueued
  <2> QED BY <2>1, <2>2 DEF Init, StreamInv
<1> QED BY <1>1, <1>2, InitIInv DEF EndInv

\* The caller and the generator keep the book of outcomes.
LEMMA GeneratorOutcome ==
  ASSUME IInv, OutcomeInv,
         GeneratorStep \/ Resume \/ Discard \/ Abandon \/ (\E u \in Runs : Open(u))
  PROVE  OutcomeInv'
<1> USE DEF IInv, TypeOK, EngineInv, OutcomeInv
<1>1. CASE \E u \in Runs : Open(u)
  BY <1>1 DEF Open, workerVars
<1>2. CASE Resume \/ Discard \/ Abandon
  BY <1>2 DEF Resume, Discard, Abandon, Ended, workerVars
<1>3. CASE Begin
  BY <1>3 DEF Begin
<1>4. CASE Refuse
  BY <1>4 DEF Refuse, Ended, workerVars
<1>5. CASE GetSlice \/ GetMark \/ GetTimeout \/ CheckWorker
  BY <1>5 DEF GetSlice, GetMark, GetTimeout, CheckWorker, Leave, Ended, workerVars
<1>6. CASE SetStop \/ DrainSlice \/ Joined \/ JoinTimeout
  BY <1>6 DEF SetStop, DrainSlice, Joined, JoinTimeout, Finish, workerVars, generatorVars
<1> QED
  BY <1>1, <1>2, <1>3, <1>4, <1>5, <1>6 DEF GeneratorStep

\* A step of a worker is one of that worker alone, which was alive and has not "none".
LEMMA WorkerAlone ==
  ASSUME IInv, NEW u \in Runs, NativeReturns(u) \/ WorkerStep(u)
  PROVE  /\ Alive(u) /\ wpc'[u] # "none" /\ UNCHANGED <<pc, current, outcome, decoded>>
         /\ \A v \in Runs \ {u} :
              /\ wpc'[v] = wpc[v] /\ made'[v] = made[v] /\ tail'[v] = tail[v]
              /\ count'[v] = count[v] /\ queue'[v] = queue[v] /\ error'[v] = error[v]
<1>1. Alive(u) /\ wpc'[u] # "none" /\ UNCHANGED <<pc, current, outcome, decoded>>
  BY DEF NativeReturns, WorkerStep, FrameReturns, AdvanceReturns, PutSlice, PutLast, PutMark,
         GiveUp, Raise, AfterFrame, WorkerTo, Alive, InNative, Putting, generatorVars, IInv, TypeOK
<1>2. ASSUME NEW v \in Runs \ {u}
      PROVE  /\ wpc'[v] = wpc[v] /\ made'[v] = made[v] /\ tail'[v] = tail[v]
             /\ count'[v] = count[v] /\ queue'[v] = queue[v] /\ error'[v] = error[v]
  <2> USE DEF IInv, TypeOK
  <2>1. CASE FrameReturns(u)
    <3>1. wpc'[v] = wpc[v] /\ queue'[v] = queue[v] /\ error'[v] = error[v]
      BY <2>1 DEF FrameReturns, Raise, AfterFrame, WorkerTo
    <3>2. made'[v] = made[v] /\ tail'[v] = tail[v] /\ count'[v] = count[v]
      BY <2>1 DEF FrameReturns
    <3> QED BY <3>1, <3>2
  <2>2. CASE AdvanceReturns(u)
    BY <2>2 DEF AdvanceReturns, Raise, WorkerTo
  <2>3. CASE PutSlice(u) \/ PutLast(u) \/ PutMark(u) \/ GiveUp(u)
    BY <2>3 DEF PutSlice, PutLast, PutMark, GiveUp, AfterFrame, WorkerTo, Put, sharedVars
  <2> QED BY <2>1, <2>2, <2>3 DEF NativeReturns, WorkerStep
<1> QED BY <1>1, <1>2

\* So does a worker.
LEMMA WorkerOutcome ==
  ASSUME IInv, OutcomeInv, NEW u \in Runs, NativeReturns(u) \/ WorkerStep(u)
  PROVE  OutcomeInv'
<1>1. wpc[u] # "none"
  BY WorkerAlone DEF Alive, InNative, Putting
<1> QED
  BY <1>1, WorkerAlone DEF OutcomeInv

--------------------------------------------------------------------------------
(* The frames. *)

\* What does not touch a run keeps its frames.
LEMMA StreamKept ==
  ASSUME NEW v \in Runs, StreamInv(v),
         outcome'[v] = outcome[v] \/ outcome'[v] \in {"failed", "empty", "abandoned"}
           \/ (outcome[v] = "none" /\ outcome'[v] = "open"),
         wpc'[v] = wpc[v], made'[v] = made[v], tail'[v] = tail[v], count'[v] = count[v],
         queue'[v] = queue[v], error'[v] = error[v], decoded'[v] = decoded[v]
  PROVE  StreamInv(v)'
BY DEF StreamInv

\* An item more or less in the queue keeps the place of the end mark.
LEMMA QueueEnds ==
  ASSUME NEW q \in Seq(Items)
  PROVE  /\ q # <<>> => /\ Head(q) = q[1] /\ Len(Tail(q)) = Len(q) - 1 /\ 1 \in 1 .. Len(q)
                        /\ \A i \in 1 .. Len(Tail(q)) : Tail(q)[i] = q[i + 1] /\ i + 1 \in 1 .. Len(q)
         /\ \A item \in Items :
              /\ Len(Append(q, item)) = Len(q) + 1
              /\ Append(q, item)[Len(q) + 1] = item
              /\ \A i \in 1 .. Len(q) : Append(q, item)[i] = q[i]
OBVIOUS

\* The generator decodes a slice, meets a mark or throws a slice away.
LEMMA TakenStream ==
  ASSUME IInv, OutcomeInv, NEW v \in Runs, StreamInv(v), v = current,
         GetSlice \/ GetMark \/ DrainSlice
  PROVE  StreamInv(v)'
<1> DEFINE q == queue[v]
<1>1. /\ q \in Seq(Items) /\ q # <<>> /\ Len(q) \in Nat
      /\ decoded[v] \in Nat /\ count[v] \in Nat /\ made[v] \in Nat
      /\ Frames(Head(q)) \in Int
  <2>1. q \in Seq(Items) /\ q # <<>>
    BY DEF IInv, TypeOK, QueueTypes, Items, GetSlice, GetMark, DrainSlice
  <2>2. Head(q) \in Items /\ Len(q) \in Nat
    BY <2>1
  <2> QED BY <2>1, <2>2 DEF IInv, TypeOK, Items, Frames, ErrorMark
<1>2. /\ queue'[v] = Tail(q) /\ wpc'[v] = wpc[v] /\ made'[v] = made[v] /\ tail'[v] = tail[v]
      /\ count'[v] = count[v] /\ error'[v] = error[v]
  BY DEF IInv, TypeOK, GetSlice, GetMark, DrainSlice, workerVars
<1>3. /\ Queued(Tail(q)) = Queued(q) - Frames(Head(q)) /\ Queued(q) \in Int
      /\ Head(q) = q[1] /\ Len(Tail(q)) = Len(q) - 1 /\ 1 \in 1 .. Len(q)
      /\ \A i \in 1 .. Len(Tail(q)) : Tail(q)[i] = q[i + 1] /\ i + 1 \in 1 .. Len(q)
  <2> HIDE DEF q
  <2>1. Queued(Tail(q)) = Queued(q) - Frames(Head(q)) /\ Queued(q) \in Int
    BY <1>1, QueuedFrames
  <2> QED BY <1>1, <2>1, QueueEnds
<1>4. \A i \in 1 .. Len(queue'[v]) : queue'[v][i] = EndMark =>
        i = Len(queue'[v]) /\ wpc'[v] = "dead" /\ count'[v] = 0 /\ tail'[v] = 0
  <2> SUFFICES ASSUME NEW i \in 1 .. Len(Tail(q)), Tail(q)[i] = EndMark
               PROVE  i = Len(Tail(q)) /\ wpc[v] = "dead" /\ count[v] = 0 /\ tail[v] = 0
    BY <1>2
  <2>1. i + 1 \in 1 .. Len(q) /\ q[i + 1] = EndMark
    BY <1>3
  <2>2. i + 1 = Len(q) /\ wpc[v] = "dead" /\ count[v] = 0 /\ tail[v] = 0
    BY <2>1 DEF StreamInv
  <2>3. i \in Int /\ Len(q) \in Int /\ Len(Tail(q)) = Len(q) - 1
    BY <1>1, <1>3
  <2>4. i = Len(Tail(q))
    <3> HIDE DEF q
    <3> QED BY <2>2, <2>3
  <2> QED BY <2>2, <2>4
<1> DEFINE sum == /\ outcome'[v] \in {"none", "open"} =>
                       decoded'[v] + Queued(queue'[v]) + count'[v] = made'[v]
                  /\ outcome'[v] \in {"marked", "gone"} => wpc'[v] = "dead" /\ ~error'[v]
                  /\ outcome'[v] = "marked" => decoded'[v] = made'[v] /\ tail'[v] = 0
<1>5. sum
  <2>1. CASE GetSlice
    <3>1. /\ decoded'[v] = decoded[v] + Frames(Head(q))
          /\ outcome[v] = "open" /\ outcome'[v] \in {"open", "failed"}
      BY <2>1 DEF IInv, TypeOK, OutcomeInv, GetSlice, Leave, Ended, Frames
    <3>2. decoded[v] + Queued(q) + count[v] = made[v]
      BY <3>1 DEF StreamInv
    <3>3. decoded'[v] + Queued(queue'[v]) + count'[v] = made'[v]
      <4> HIDE DEF q
      <4>1. Queued(queue'[v]) = Queued(q) - Frames(Head(q))
        BY <1>2, <1>3
      <4> QED BY <1>1, <1>2, <1>3, <3>1, <3>2, <4>1
    <3> QED BY <3>1, <3>3
  <2>2. CASE GetMark
    <3>1. /\ decoded'[v] = decoded[v] /\ outcome[v] = "open" /\ outcome'[v] \in {"marked", "failed"}
          /\ outcome'[v] = "marked" => Head(q) = EndMark /\ ~error[v]
      BY <2>2 DEF IInv, TypeOK, OutcomeInv, GetMark, Leave, Ended
    <3>2. CASE outcome'[v] = "marked"
      <4>1. 1 = Len(q) /\ wpc[v] = "dead" /\ count[v] = 0 /\ tail[v] = 0
        BY <1>3, <3>1, <3>2 DEF StreamInv
      <4>2. Frames(Head(q)) = 0
        BY <3>1, <3>2 DEF Frames, EndMark
      <4>3. Queued(q) = 0
        <5> HIDE DEF q
        <5>0. q \in Seq(Items) /\ q # <<>>
          BY <1>1
        <5>1. Tail(q) \in Seq(Items)
          BY <5>0
        <5>3. Len(Tail(q)) = 0
          <6>1. Len(Tail(q)) = Len(q) - 1
            BY <1>3, Zenon
          <6>2. Len(q) = 1
            BY <4>1, Zenon
          <6> QED BY <6>1, <6>2
        <5>2. Queued(Tail(q)) = 0
          BY <5>1, <5>3, NothingQueued
        <5> QED BY <1>3, <4>2, <5>2
      <4>4. decoded[v] + Queued(q) + count[v] = made[v]
        BY <3>1 DEF StreamInv
      <4>5. decoded[v] = made[v]
        <5> HIDE DEF q
        <5> QED BY <1>1, <4>1, <4>3, <4>4
      <4> QED BY <1>2, <3>1, <3>2, <4>1, <4>5
    <3> QED BY <3>1, <3>2
  <2>3. CASE DrainSlice
    <3>1. decoded'[v] = decoded[v] /\ outcome'[v] = outcome[v] /\ outcome[v] \notin {"none", "open"}
      BY <2>3 DEF IInv, TypeOK, OutcomeInv, DrainSlice, generatorVars, Alive, InNative, Putting
    <3> QED BY <1>2, <3>1 DEF StreamInv
  <2> QED BY <2>1, <2>2, <2>3
<1> HIDE DEF q
<1> QED BY <1>2, <1>4, <1>5 DEF StreamInv

\* The other steps of the generator, its caller and close() move no frame.
LEMMA GeneratorStream ==
  ASSUME IInv, OutcomeInv, NEW v \in Runs, StreamInv(v),
         GeneratorStep \/ Resume \/ Discard \/ Abandon \/ (\E u \in Runs : Open(u))
           \/ Close \/ CloserStep
  PROVE  StreamInv(v)'
<1> DEFINE Still == /\ made'[v] = made[v] /\ tail'[v] = tail[v] /\ count'[v] = count[v]
                    /\ queue'[v] = queue[v] /\ error'[v] = error[v] /\ decoded'[v] = decoded[v]
<1> USE DEF IInv, TypeOK
<1>1. CASE \/ Refuse \/ GetTimeout \/ SetStop \/ Joined \/ JoinTimeout \/ Close \/ CloserStep
           \/ Resume \/ Discard \/ Abandon \/ (\E u \in Runs : Open(u))
  <2>1. Still /\ wpc'[v] = wpc[v]
    BY <1>1 DEF Refuse, GetTimeout, SetStop, Joined, JoinTimeout, Close, CloserStep, CloseJoined,
                CloseTimeout, DeferredFree, Resume, Discard, Abandon, Open, workerVars, sharedVars,
                generatorVars
  <2>2. \/ outcome'[v] = outcome[v] \/ outcome'[v] \in {"failed", "empty", "abandoned"}
        \/ outcome[v] = "none" /\ outcome'[v] = "open"
    BY <1>1 DEF Refuse, GetTimeout, SetStop, Joined, JoinTimeout, Close, CloserStep, CloseJoined,
                CloseTimeout, DeferredFree, Resume, Discard, Abandon, Open, Ended, Finish,
                generatorVars
  <2> HIDE DEF IInv, TypeOK
  <2> QED BY <2>1, <2>2, StreamKept
<1>2. CASE Begin
  <2>1. Still /\ outcome'[v] = outcome[v]
    BY <1>2 DEF Begin, sharedVars
  <2>2. CASE v # current
    <3>1. wpc'[v] = wpc[v]
      BY <1>2, <2>2 DEF Begin
    <3> QED BY <2>1, <3>1, StreamKept
  <2>3. CASE v = current
    <3>1. wpc[v] = "none" /\ wpc'[v] = "frame" /\ outcome[v] = "open"
      BY <1>2, <2>3 DEF Begin, OutcomeInv
    <3> HIDE DEF IInv, TypeOK
    <3> QED BY <2>1, <3>1 DEF StreamInv
  <2> QED BY <2>2, <2>3
<1>3. CASE CheckWorker
  <2>1. Still /\ wpc'[v] = wpc[v]
    BY <1>3 DEF CheckWorker, workerVars, sharedVars
  <2>2. CASE outcome'[v] = outcome[v] \/ outcome'[v] = "failed"
    BY <2>1, <2>2, StreamKept
  <2>3. CASE ~(outcome'[v] = outcome[v] \/ outcome'[v] = "failed")
    <3>1. outcome'[v] = "gone" /\ ~Alive(v) /\ ~error[v] /\ wpc[v] # "none"
      BY <1>3, <2>3 DEF CheckWorker, Leave, Ended, OutcomeInv
    <3>2. wpc[v] = "dead"
      BY <3>1 DEF Alive
    <3> HIDE DEF IInv, TypeOK
    <3> QED BY <2>1, <3>1, <3>2 DEF StreamInv
  <2> QED BY <2>2, <2>3
<1>4. CASE GetSlice \/ GetMark \/ DrainSlice
  <2>1. CASE v = current
    BY <1>4, <2>1, TakenStream
  <2>2. CASE v # current
    <3>1. Still /\ wpc'[v] = wpc[v] /\ outcome'[v] = outcome[v]
      BY <1>4, <2>2 DEF GetSlice, GetMark, DrainSlice, Leave, Ended, workerVars, generatorVars
    <3> QED BY <3>1, StreamKept
  <2> QED BY <2>1, <2>2
<1> QED
  BY <1>1, <1>2, <1>3, <1>4 DEF GeneratorStep

\* A worker makes frames, sends slices of them and a mark at the end.
LEMMA WorkerStream ==
  ASSUME IInv, OutcomeInv, NEW u \in Runs, NativeReturns(u) \/ WorkerStep(u), StreamInv(u)
  PROVE  StreamInv(u)'
<1> DEFINE q == queue[u]
<1>0. /\ Alive(u) /\ wpc[u] \notin {"none", "dead"} /\ outcome'[u] = outcome[u]
      /\ decoded'[u] = decoded[u] /\ outcome[u] \notin {"none", "marked", "gone"}
  <2>1. Alive(u) /\ UNCHANGED <<outcome, decoded>>
    BY WorkerAlone
  <2>2. wpc[u] \notin {"none", "dead"}
    BY <2>1 DEF Alive, InNative, Putting
  <2> QED BY <2>1, <2>2 DEF OutcomeInv, StreamInv
<1>1. /\ q \in Seq(Items) /\ Len(q) \in Nat /\ Queued(q) \in Int
      /\ decoded[u] \in Nat /\ count[u] \in Nat /\ made[u] \in Nat /\ tail[u] \in {-1, 0, 1}
  <2>1. q \in Seq(Items)
    BY DEF IInv, TypeOK, QueueTypes, Items
  <2>2. Len(q) \in Nat
    BY <2>1
  <2> HIDE DEF q
  <2>3. Queued(q) \in Int
    BY <2>1, QueuedFrames
  <2> QED BY <2>1, <2>2, <2>3 DEF IInv, TypeOK
<1>2. \A i \in 1 .. Len(q) : q[i] # EndMark
  BY <1>0 DEF StreamInv
<1>3. outcome[u] = "open" => decoded[u] + Queued(q) + count[u] = made[u]
  BY DEF StreamInv
<1>4. CASE queue'[u] = q
  <2> SUFFICES /\ outcome[u] = "open" => decoded[u] + Queued(q) + count'[u] = made'[u]
               /\ error'[u] => wpc'[u] \in {"raise", "dead"}
               /\ wpc'[u] \in {"put", "last"} => count'[u] > 0
               /\ wpc'[u] \in {"last", "end"} => tail'[u] = 0
               /\ wpc'[u] = "end" => count'[u] = 0
    <3> HIDE DEF q
    <3> QED BY <1>0, <1>2, <1>4 DEF StreamInv
  <2> HIDE DEF q
  <2>1. CASE wpc'[u] \in {"raise", "dead"} /\ made'[u] = made[u] /\ count'[u] = count[u]
    BY <1>3, <2>1
  <2>2. CASE FrameReturns(u) /\ ~(wpc'[u] \in {"raise", "dead"} /\ made'[u] = made[u] /\ count'[u] = count[u])
    <3>1. /\ made'[u] = made[u] + 1 /\ count'[u] = count[u] + 1 /\ error'[u] = error[u]
          /\ wpc'[u] = "put" \/ AfterFrame(u, tail'[u], count[u] + 1)
          /\ wpc[u] = "frame"
      BY <2>2 DEF FrameReturns, Raise, WorkerTo, IInv, TypeOK
    <3>2. ~error[u]
      BY <3>1 DEF StreamInv
    <3>3. count'[u] > 0 /\ decoded[u] + Queued(q) + count'[u] = decoded[u] + Queued(q) + count[u] + 1
      <4>1. count'[u] = count[u] + 1 /\ count[u] \in Nat /\ decoded[u] \in Nat /\ Queued(q) \in Int
        BY <1>1, <3>1
      <4> QED BY <4>1
    <3>4. AfterFrame(u, tail'[u], count[u] + 1) =>
            wpc'[u] \in {"dead", "last", "advance"} /\ (wpc'[u] = "last" => tail'[u] = 0)
      BY <1>1 DEF AfterFrame, WorkerTo, IInv, TypeOK
    <3> QED BY <1>3, <3>1, <3>2, <3>3, <3>4
  <2>3. CASE AdvanceReturns(u) /\ wpc'[u] \notin {"raise", "dead"}
    <3>1. /\ made'[u] = made[u] /\ count'[u] = count[u] /\ error'[u] = error[u]
          /\ wpc'[u] = "frame" /\ wpc[u] = "advance"
      BY <2>3 DEF AdvanceReturns, Raise, WorkerTo, IInv, TypeOK
    <3> QED BY <1>3, <3>1 DEF StreamInv
  <2>4. CASE GiveUp(u)
    <3>1. made'[u] = made[u] /\ count'[u] = count[u] /\ wpc'[u] = "dead"
      BY <2>4 DEF GiveUp, WorkerTo, IInv, TypeOK
    <3> QED BY <1>3, <3>1
  <2>5. CASE AdvanceReturns(u) /\ wpc'[u] \in {"raise", "dead"}
    <3>1. made'[u] = made[u] /\ count'[u] = count[u]
      BY <2>5 DEF AdvanceReturns
    <3> QED BY <2>1, <2>5, <3>1
  <2>6. CASE PutSlice(u) \/ PutLast(u) \/ PutMark(u)
    <3>1. PICK item \in Items : queue'[u] = Append(q, item)
      BY <2>6 DEF PutSlice, PutLast, PutMark, Put, Items, EndMark, ErrorMark, IInv, TypeOK, q
    <3>2. Len(Append(q, item)) = Len(q) + 1
      BY <1>1, QueueEnds
    <3>3. Len(queue'[u]) = Len(q)
      BY <1>4
    <3> QED BY <1>1, <3>1, <3>2, <3>3
  <2> QED BY <2>1, <2>2, <2>3, <2>4, <2>5, <2>6 DEF NativeReturns, WorkerStep
<1>5. CASE queue'[u] # q
  <2>1. PICK item \in Items :
          /\ queue'[u] = Append(q, item) /\ made'[u] = made[u] /\ tail'[u] = tail[u]
          /\ error'[u] = error[u]
          /\ \/ /\ wpc[u] \in {"put", "last"} /\ item = count[u] /\ count'[u] = 0
                /\ wpc'[u] \in {"dead", "end", "advance"} /\ (wpc'[u] = "end" => tail[u] = 0)
             \/ /\ item \in {EndMark, ErrorMark} /\ wpc'[u] = "dead" /\ count'[u] = count[u]
                /\ item = EndMark => wpc[u] = "end"
    <3>1. PutSlice(u) \/ PutLast(u) \/ PutMark(u)
      BY <1>5 DEF NativeReturns, WorkerStep, FrameReturns, AdvanceReturns, GiveUp, sharedVars
    <3>2. CASE PutSlice(u)
      <4>1. wpc'[u] \in {"dead", "end", "advance"} /\ (wpc'[u] = "end" => tail[u] = 0)
        BY <3>2 DEF PutSlice, AfterFrame, WorkerTo, IInv, TypeOK
      <4> QED BY <1>1, <3>2, <4>1 DEF PutSlice, Put, Items, IInv, TypeOK
    <3>3. CASE PutLast(u)
      <4>1. tail[u] = 0
        BY <3>3 DEF PutLast, StreamInv
      <4> QED BY <1>1, <3>3, <4>1 DEF PutLast, Put, WorkerTo, Items, IInv, TypeOK
    <3>4. CASE PutMark(u)
      BY <3>4 DEF PutMark, Put, WorkerTo, Items, EndMark, ErrorMark, IInv, TypeOK
    <3> QED BY <3>1, <3>2, <3>3, <3>4
  <2> HIDE DEF q
  <2>2. /\ Len(queue'[u]) = Len(q) + 1 /\ queue'[u][Len(q) + 1] = item
        /\ \A i \in 1 .. Len(q) : queue'[u][i] = q[i]
    BY <1>1, <2>1, QueueEnds
  <2>3. Queued(queue'[u]) = Queued(q) + Frames(item)
    <3>1. Queued(Append(q, item)) = Queued(q) + Frames(item)
      BY <1>1, QueuedFrames
    <3> QED BY <2>1, <3>1
  <2>4. item = EndMark => wpc[u] = "end" /\ wpc'[u] = "dead" /\ count'[u] = 0 /\ tail'[u] = 0
    BY <1>1, <2>1 DEF StreamInv, EndMark
  <2>5. \A i \in 1 .. Len(queue'[u]) : queue'[u][i] = EndMark =>
          i = Len(queue'[u]) /\ wpc'[u] = "dead" /\ count'[u] = 0 /\ tail'[u] = 0
    BY <1>1, <1>2, <2>2, <2>4
  <2>6. outcome'[u] \in {"none", "open"} => decoded'[u] + Queued(queue'[u]) + count'[u] = made'[u]
    <3>1. Frames(item) + count'[u] = count[u]
      BY <1>1, <2>1 DEF Frames, EndMark, ErrorMark
    <3>2. Frames(item) \in Int /\ count'[u] \in Int
      BY <1>1, <2>1 DEF Frames, Items, ErrorMark
    <3> QED BY SMTT(40), <1>0, <1>1, <1>3, <2>1, <2>3, <3>1, <3>2
  <2>7. error'[u] => wpc'[u] \in {"raise", "dead"}
    <3>1. wpc[u] \in {"put", "last", "end"} => ~error[u]
      BY DEF StreamInv
    <3> QED BY <2>1, <3>1
  <2> QED BY <1>0, <2>1, <2>5, <2>6, <2>7 DEF StreamInv
<1> QED BY <1>4, <1>5

\* The invariant of the streams is inductive.
LEMMA NextEnd == EndInv /\ [Next]_vars => EndInv'
<1> SUFFICES ASSUME EndInv, [Next]_vars PROVE EndInv'
  OBVIOUS
<1>0. IInv /\ OutcomeInv /\ IInv' /\ \A v \in Runs : StreamInv(v)
  BY NextIInv DEF EndInv
<1>1. CASE GeneratorStep \/ Resume \/ Discard \/ Abandon \/ (\E u \in Runs : Open(u))
  <2>1. OutcomeInv'
    BY <1>0, <1>1, GeneratorOutcome
  <2>2. \A v \in Runs : StreamInv(v)'
    BY <1>0, <1>1, GeneratorStream
  <2> QED BY <1>0, <2>1, <2>2 DEF EndInv
<1>2. CASE \E u \in Runs : NativeReturns(u) \/ WorkerStep(u)
  <2>1. PICK u \in Runs : NativeReturns(u) \/ WorkerStep(u)
    BY <1>2
  <2>2. OutcomeInv'
    BY <1>0, <2>1, WorkerOutcome
  <2>3. StreamInv(u)'
    BY <1>0, <2>1, WorkerStream
  <2>4. ASSUME NEW v \in Runs, v # u PROVE StreamInv(v)'
    <3>1. /\ outcome'[v] = outcome[v] /\ decoded'[v] = decoded[v] /\ wpc'[v] = wpc[v]
          /\ made'[v] = made[v] /\ tail'[v] = tail[v] /\ count'[v] = count[v]
          /\ queue'[v] = queue[v] /\ error'[v] = error[v]
      BY <1>0, <2>1, <2>4, WorkerAlone
    <3> QED BY <1>0, <3>1, StreamKept
  <2> QED BY <1>0, <2>2, <2>3, <2>4 DEF EndInv
<1>3. CASE Close \/ CloserStep
  <2>1. \A v \in Runs : StreamInv(v)'
    BY <1>0, <1>3, GeneratorStream
  <2>2. UNCHANGED <<pc, current, outcome, wpc>>
    BY <1>3 DEF Close, CloserStep, CloseJoined, CloseTimeout, DeferredFree, generatorVars, workerVars
  <2> QED BY <1>0, <2>1, <2>2 DEF EndInv, OutcomeInv
<1>4. CASE UNCHANGED vars
  BY <1>0, <1>4 DEF vars, generatorVars, workerVars, sharedVars, engineVars, EndInv, OutcomeInv,
                    StreamInv
<1> QED
  BY <1>1, <1>2, <1>3, <1>4 DEF Next

\* The invariant of the streams holds throughout.
THEOREM StreamsAccounted == Safe => []EndInv
BY InitEnd, NextEnd, PTL DEF Safe

\* A worker's error reaches the caller, and a stream that ends at the end mark was
\* decoded to the frame that follows the end of audio (_synthesize_pipelined).
THEOREM StreamsEndTruly == Safe => []EndsTruly
<1>1. EndInv => EndsTruly
  <2> SUFFICES ASSUME EndInv, NEW u \in Runs
               PROVE  /\ error[u] => outcome[u] \notin {"marked", "gone"}
                      /\ outcome[u] = "marked" => decoded[u] = made[u] /\ tail[u] = 0
    BY DEF EndsTruly, ErrorsReported, MarkedIsWhole
  <2> QED BY DEF EndInv, StreamInv
<1> QED
  BY <1>1, StreamsAccounted, PTL
================================================================================
