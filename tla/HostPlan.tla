------------------------------- MODULE HostPlan -------------------------------
(***************************************************************************)
(* What a server derives from the machine it starts on: the processors and *)
(* the memory that the control groups leave it (cpu.py, resources.py), the *)
(* threads of its two runtimes and the native library it loads             *)
(* (zerotts_engine.py). One question is asked of each behaviour, and       *)
(* answered as the code does.                                              *)
(***************************************************************************)
EXTENDS Integers, Sequences, SequencesExt, FiniteSetsExt, Functions

CONSTANTS Quotas,         \* processor quotas of a control group, in halves of a processor
          Limits,         \* memory limits of a control group, in GiB; 0 is none in both
          MaxThreads      \* bound on the processors of the machine

ASSUME HostAssumption == Quotas \cup Limits \subseteq Nat /\ MaxThreads \in Nat \ {0}

VARIABLES question, answer

host_vars == <<question, answer>>

NoAnswer == <<>>
Unset == 0

-------------------------------------------------------------------------------
(* Processors and memory. A group's path goes from the process up to the   *)
(* root; each of the two hierarchies may be there.                         *)

Paths(groups) == {<<>>} \cup [1..2 -> groups]
CpuQuestions ==
  [kind : {"cpu"}, v1 : Paths(Quotas), v2 : Paths(Quotas), cpus : {1, 2, 4},
   affinity : {1, 3}, configured : {Unset, 1, 3}]

\* math.ceil(quota / period)
Quota(halves) == (halves + 1) \div 2

\* Faulty: the limits of the parents are not looked at.
LeafOnly(path) == SubSeq(path, 1, IF path = <<>> THEN 0 ELSE 1)
_collect_hierarchy_quotas(path) == path
_cpu_count_cgroup(q) ==
  {Quota(h) : h \in (Range(_collect_hierarchy_quotas(q.v1)) \cup Range(_collect_hierarchy_quotas(q.v2))) \ {0}}

available_cpu_count(q) ==
  Max({1, Min({q.cpus, Min({q.affinity, q.cpus})} \cup _cpu_count_cgroup(q))})
resolve_cpu_threads(q) ==
  IF q.configured = Unset THEN available_cpu_count(q)
  ELSE Min({q.configured, available_cpu_count(q)})

MemoryGroups == [limit : Limits, usage : {0, 2, 4}]
MemoryQuestions ==
  [kind : {"memory"}, v1 : Paths(MemoryGroups), v2 : Paths(MemoryGroups),
   total : {7}, free : {1, 5}]

_hierarchy_memory_available(path) ==
  {Max({0, g.limit - g.usage}) : g \in {h \in Range(path) : h.limit # 0}}
available_memory_bytes(q) ==
  Min({q.free} \cup _hierarchy_memory_available(q.v1) \cup _hierarchy_memory_available(q.v2))
\* Faulty: the limits of the parents are not looked at.
OwnLimit(path) == IF path = <<>> THEN {} ELSE {path[1].limit} \ {0}
_hierarchy_memory_limits(path) == {g.limit : g \in Range(path)} \ {0}
memory_capacity_bytes(q) ==
  Min({q.total} \cup _hierarchy_memory_limits(q.v1) \cup _hierarchy_memory_limits(q.v2))

\* Voices to keep loaded, per tier; 99 stands for all of them.
_classify(capacity) == IF capacity <= 2 THEN "weak" ELSE IF capacity <= 6 THEN "average" ELSE "strong"
MaxVoices == [weak |-> 1, average |-> 2, strong |-> 99]
detect_device_resources(q) ==
  [memory |-> available_memory_bytes(q), voices |-> MaxVoices[_classify(memory_capacity_bytes(q))]]

-------------------------------------------------------------------------------
(* The threads of the two runtimes.                                        *)

Overrides == {Unset, 1, 2, 3, 6, MaxThreads + 3}
BudgetQuestions == [kind : {"budget"}, total : 1..MaxThreads, pipelined : BOOLEAN,
                    codec : Overrides, ggml : Overrides, opportunistic : BOOLEAN]

Borrows(q) == q.opportunistic /\ q.total \in 3..4

_default_non_pipelined_codec_threads(total) ==
  IF total <= 2 THEN 1 ELSE IF total <= 4 THEN 2 ELSE Min({total \div 2, 4})
_default_pipelined_codec_threads(total) ==
  IF total <= 4 THEN 1 ELSE IF total <= 8 THEN 2 ELSE IF total <= 12 THEN 3 ELSE 4

\* Faulty: the codec may take all threads.
DualUnbounded(q) ==
  LET c == Min({q.codec, q.total}) IN [ggml |-> Min({q.ggml, Max({1, q.total - c})}), codec |-> c]
_resolve_dual_override_threads(q) ==
  LET c == Min({q.codec, q.total - 1})
  IN  [ggml |-> Min({q.ggml, IF Borrows(q) /\ c = 1 THEN q.total ELSE q.total - c}), codec |-> c]

_resolve_explicit_pipelined_threads(q) ==
  CASE q.codec # Unset /\ q.ggml # Unset -> _resolve_dual_override_threads(q)
    [] q.codec # Unset /\ q.ggml = Unset ->
         LET c == Min({q.codec, q.total - 1})
         IN  [ggml |-> IF Borrows(q) /\ c = 1 THEN q.total ELSE Max({1, q.total - c}), codec |-> c]
    [] OTHER ->
         LET g == Min({q.ggml, IF Borrows(q) THEN q.total ELSE q.total - 1})
         IN  [ggml |-> g, codec |-> IF Borrows(q) /\ g = q.total THEN 1 ELSE Max({1, q.total - g})]

Pipelined(q) == q.pipelined /\ q.total > 1      \* _resolve_engine_options
resolve_zerotts_thread_budget(q) ==
  CASE ~Pipelined(q) ->
         [ggml |-> IF q.ggml = Unset THEN q.total ELSE q.ggml,
          codec |-> IF q.codec = Unset THEN _default_non_pipelined_codec_threads(q.total) ELSE q.codec]
    [] Pipelined(q) /\ (q.codec # Unset \/ q.ggml # Unset) -> _resolve_explicit_pipelined_threads(q)
    [] Pipelined(q) /\ q.codec = Unset /\ q.ggml = Unset ->
         LET c == _default_pipelined_codec_threads(q.total)
         IN  [ggml |-> IF Borrows(q) THEN q.total ELSE q.total - c, codec |-> c]

-------------------------------------------------------------------------------
(* The native library: of each processor variant there may be one, whole   *)
(* or incomplete, in each of two directories.                              *)

Hierarchy == <<"avx2", "avx", "compat">>      \* the other variants differ in the flags they need
BaseDirs == <<"app", "repo">>
Needs == [avx2 |-> {"avx", "avx2"}, avx |-> {"avx"}, compat |-> {}]
CoreFlags == SUBSET {"avx", "avx2"}
LibraryQuestions ==
  [kind : {"library"}, cores : {<<f, g>> : f \in CoreFlags, g \in CoreFlags},
   libs : [Range(BaseDirs) \X Range(Hierarchy) -> {"none", "whole", "incomplete"}],
   link : {"none", "avx2", "compat"}]

\* Faulty: the flags of any core.
AnyCore(q) == UNION Range(q.cores)
get_host_cpu_flags(q) == q.cores[1] \cap q.cores[2]
can_host_execute_variant(q, v) == Needs[v] \subseteq get_host_cpu_flags(q)
detect_cpu_variant(q) == Hierarchy[Min({i \in DOMAIN Hierarchy : can_host_execute_variant(q, Hierarchy[i])})]
_get_variant_fallback_order(q) ==
  SubSeq(Hierarchy, CHOOSE i \in DOMAIN Hierarchy : Hierarchy[i] = detect_cpu_variant(q), Len(Hierarchy))

\* Each variant in every directory before the next variant; last, where a link leads.
get_zerotts_candidate_lib_paths(q) ==
  LET order == _get_variant_fallback_order(q)
      n     == Len(BaseDirs)
  IN  [i \in 1..Len(order) * n |-> <<BaseDirs[((i - 1) % n) + 1], order[((i - 1) \div n) + 1]>>]
        \o (IF q.link \in Range(order) THEN << <<"app", q.link>> >> ELSE <<>>)

\* A library whose dependencies are not all beside it does not load.
_load_zerotts_candidate(q, c) == q.libs[c] = "whole"
resolve_zerotts_ggml_lib(q) ==
  LET paths == get_zerotts_candidate_lib_paths(q)
      loads == {i \in DOMAIN paths : q.libs[paths[i]] # "none" /\ _load_zerotts_candidate(q, paths[i])}
  IN  IF loads # {} THEN paths[Min(loads)] ELSE <<"built", detect_cpu_variant(q)>>

-------------------------------------------------------------------------------

HostInit ==
  /\ question \in CpuQuestions \cup MemoryQuestions \cup BudgetQuestions \cup LibraryQuestions
  /\ answer = NoAnswer

HostNext ==
  /\ answer = NoAnswer
  /\ LET q == question
     IN  answer' = << CASE q.kind = "cpu"     -> resolve_cpu_threads(q)
                        [] q.kind = "memory"  -> detect_device_resources(q)
                        [] q.kind = "budget"  -> resolve_zerotts_thread_budget(q)
                        [] q.kind = "library" -> resolve_zerotts_ggml_lib(q) >>
  /\ UNCHANGED question

HostSpec == HostInit /\ [][HostNext]_host_vars

-------------------------------------------------------------------------------
(* Properties.                                                             *)

Answered(kind) == answer # NoAnswer /\ question.kind = kind

\* A server uses as many threads as every limit on its processors allows, its own and those
\* of the groups above it, but one at least (resolve_cpu_threads).
ThreadsFit ==
  Answered("cpu") =>
    LET q == question
        Fits(t) == /\ t <= q.cpus /\ t <= q.affinity
                   /\ q.configured # Unset => t <= q.configured
                   /\ \A h \in (Range(q.v1) \cup Range(q.v2)) \ {0} : 2 * (t - 1) < h
    IN  answer[1] = Max({1} \cup {t \in 1..q.cpus : Fits(t)})

\* The memory a server counts on is what it may take without pushing any group above it over
\* its limit, and a machine is as weak as its smallest limit (available_memory_bytes,
\* _classify).
MemoryFits ==
  Answered("memory") =>
    LET q == question
        groups == {g \in Range(q.v1) \cup Range(q.v2) : g.limit # 0}
        Takes(m) == m <= q.free /\ \A g \in groups : m = 0 \/ g.usage + m <= g.limit
    IN  /\ answer[1].memory = Max({m \in 0..q.free : Takes(m)})
        /\ answer[1].voices = 1 <=> \E g \in groups : g.limit <= 2
        /\ answer[1].voices <= 2 <=> \E g \in groups : g.limit <= 6

\* Each runtime has a thread; two that overlap keep within the budget, but for the one thread
\* a small machine may lend; and overrides that fit are what is used
\* (resolve_zerotts_thread_budget: "strict partitioning").
BudgetKept ==
  Answered("budget") =>
    LET q == question
        t == answer[1]
    IN  /\ t.ggml >= 1 /\ t.codec >= 1
        /\ Pipelined(q) => /\ t.ggml + t.codec <= q.total + (IF Borrows(q) THEN 1 ELSE 0)
                           /\ t.ggml <= q.total /\ t.codec < q.total
        /\ q.codec # Unset /\ q.ggml # Unset /\ q.codec + q.ggml <= q.total
             => t = [ggml |-> q.ggml, codec |-> q.codec]

\* The library that is loaded runs on every core, is complete, and no better one that is
\* there would (resolve_zerotts_ggml_lib).
BestLibrary ==
  Answered("library") =>
    LET q == question
        Runs(v) == \A i \in DOMAIN q.cores : Needs[v] \subseteq q.cores[i]
        there == {v \in Range(Hierarchy) : Runs(v) /\ \E d \in Range(BaseDirs) : q.libs[<<d, v>>] = "whole"}
    IN  /\ Runs(answer[1][2])
        /\ \A v \in there : Cardinality(Needs[v]) <= Cardinality(Needs[answer[1][2]])
        /\ answer[1][1] = "built" <=> there = {}

\* A server takes what its host has, and no more.
HostFits == ThreadsFit /\ MemoryFits /\ BudgetKept /\ BestLibrary
===============================================================================
