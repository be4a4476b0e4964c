----------------------------- MODULE StorageProofs -----------------------------
(***************************************************************************)
(* Proofs about what is kept on disk: LibraryPublish, for any supported    *)
(* and unsupported variants and any number of builds, failures, signals    *)
(* and kills; PinUpdate, for any number of failed writes and interrupts;   *)
(* AudioCache, for any limits, results and failures of the disk; and       *)
(* VoiceUsage, for any servers, voices and number of uses.                 *)
(***************************************************************************)
EXTENDS LibraryPublish, PinUpdate, AudioCache, VoiceUsage, FiniteSums, SequenceTheorems, TLAPS


-------------------------------------------------------------------------------
(* Sequences.                                                              *)

\* What a sequence holds after one more element.
LEMMA AppendFacts ==
  ASSUME NEW S, NEW q \in Seq(S), NEW e \in S
  PROVE  /\ Append(q, e) \in Seq(S) /\ Range(Append(q, e)) = Range(q) \cup {e}
         /\ IsInjective(q) /\ e \notin Range(q) => IsInjective(Append(q, e))
<1>1. /\ Append(q, e) \in Seq(S) /\ DOMAIN Append(q, e) = 1..Len(q) + 1 /\ Len(q) \in Nat
      /\ DOMAIN q = 1..Len(q)
      /\ \A i \in 1..Len(q) : Append(q, e)[i] = q[i]
      /\ Append(q, e)[Len(q) + 1] = e
    OBVIOUS
<1>2. \A x : x \in Range(Append(q, e)) <=> x \in Range(q) \/ x = e
    BY <1>1 DEF Range
<1>3. IsInjective(q) /\ e \notin Range(q) => IsInjective(Append(q, e))
  <2> SUFFICES ASSUME IsInjective(q), e \notin Range(q),
                      NEW i \in 1..Len(q) + 1, NEW j \in 1..Len(q) + 1,
                      Append(q, e)[i] = Append(q, e)[j]
               PROVE  i = j
      BY <1>1 DEF IsInjective
  <2>1. \A k \in 1..Len(q) : q[k] # e
      BY <1>1 DEF Range
  <2>. QED BY <1>1, <2>1 DEF IsInjective
<1>. QED BY <1>1, <1>2, <1>3

\* Its elements, the last of them, and the ones in front.
LEMMA AppendElements ==
  ASSUME NEW S, NEW q \in Seq(S), NEW e \in S
  PROVE  /\ Append(q, e) \in Seq(S) /\ Append(q, e) # <<>> /\ Last(Append(q, e)) = e
         /\ Front(Append(q, e)) = q /\ Len(Append(q, e)) = Len(q) + 1
         /\ \A i \in DOMAIN Append(q, e) :
              \/ i \in DOMAIN q /\ Append(q, e)[i] = q[i]
              \/ i = Len(q) + 1 /\ Append(q, e)[i] = e
<1>1. /\ Append(q, e) \in Seq(S) /\ Append(q, e) # <<>> /\ Len(Append(q, e)) = Len(q) + 1
      /\ Append(q, e)[Len(q) + 1] = e /\ \A i \in 1..Len(q) : Append(q, e)[i] = q[i]
      /\ DOMAIN q = 1..Len(q) /\ DOMAIN Append(q, e) = 1..Len(q) + 1 /\ Len(q) \in Nat
    OBVIOUS
<1>2. Last(Append(q, e)) = e
    BY <1>1 DEF Last
<1>3. Front(Append(q, e)) = q
  <2>1. Front(Append(q, e)) = [i \in 1..Len(q) |-> Append(q, e)[i]]
    <3>1. Len(Append(q, e)) - 1 = Len(q)
        BY <1>1
    <3>. QED BY <1>1, <3>1 DEF Front
  <2>2. q = [i \in 1..Len(q) |-> q[i]]
      BY <1>1
  <2>3. \A i \in 1..Len(q) : Append(q, e)[i] = q[i]
      BY <1>1
  <2>. QED BY <2>1, <2>2, <2>3, Zenon
<1>4. \A i \in DOMAIN Append(q, e) :
        \/ i \in DOMAIN q /\ Append(q, e)[i] = q[i]
        \/ i = Len(q) + 1 /\ Append(q, e)[i] = e
  <2>1. \A n \in Nat : \A i \in 1..n + 1 : i \in 1..n \/ i = n + 1
      OBVIOUS
  <2>. QED BY <1>1, <2>1
<1>. QED BY <1>1, <1>2, <1>3, <1>4

\* A sequence without its last element.
LEMMA FrontFacts ==
  ASSUME NEW S, NEW q \in Seq(S), q # <<>>
  PROVE  /\ Front(q) \in Seq(S) /\ Last(q) \in S /\ Last(q) \in Range(q)
         /\ IsInjective(q) => /\ IsInjective(Front(q)) /\ Range(Front(q)) = Range(q) \ {Last(q)}
<1>1. /\ Len(q) \in Nat \ {0} /\ DOMAIN q = 1..Len(q) /\ Last(q) = q[Len(q)]
    BY DEF Last
<1>2. /\ Front(q) \in Seq(S) /\ DOMAIN Front(q) = 1..Len(q) - 1
      /\ \A i \in 1..Len(q) - 1 : Front(q)[i] = q[i]
    BY <1>1 DEF Front
<1>3. Last(q) \in S /\ Last(q) \in Range(q)
    BY <1>1 DEF Range
<1>4. ASSUME IsInjective(q) PROVE IsInjective(Front(q)) /\ Range(Front(q)) = Range(q) \ {Last(q)}
  <2>1. IsInjective(Front(q))
      BY <1>1, <1>2, <1>4 DEF IsInjective
  <2>2. \A x : x \in Range(Front(q)) => x \in Range(q) /\ x # Last(q)
      BY <1>1, <1>2, <1>4 DEF IsInjective, Range
  <2>3. \A x : x \in Range(q) /\ x # Last(q) => x \in Range(Front(q))
    <3> SUFFICES ASSUME NEW i \in 1..Len(q), q[i] # Last(q) PROVE q[i] \in Range(Front(q))
        BY <1>1 DEF Range
    <3>1. i \in 1..Len(q) - 1
        BY <1>1
    <3>. QED BY <1>2, <3>1 DEF Range
  <2>. QED BY <2>1, <2>2, <2>3
<1>. QED BY <1>2, <1>3, <1>4

\* Its elements are the earlier ones.
LEMMA FrontElements ==
  ASSUME NEW S, NEW q \in Seq(S), q # <<>>
  PROVE  /\ Front(q) \in Seq(S) /\ Last(q) \in S /\ Last(q) \in Range(q)
         /\ Range(q) = Range(Front(q)) \cup {Last(q)} /\ Len(Front(q)) <= Len(q)
         /\ \A i \in DOMAIN Front(q) : i \in DOMAIN q /\ Front(q)[i] = q[i]
<1>1. /\ Len(q) \in Nat \ {0} /\ DOMAIN q = 1..Len(q) /\ Last(q) = q[Len(q)]
    BY DEF Last
<1>2. /\ Front(q) \in Seq(S) /\ DOMAIN Front(q) = 1..Len(q) - 1 /\ Len(Front(q)) = Len(q) - 1
      /\ \A i \in 1..Len(q) - 1 : Front(q)[i] = q[i]
    BY <1>1 DEF Front
<1>3. Last(q) \in S /\ Last(q) \in Range(q)
    BY <1>1 DEF Range
<1>4. \A x : x \in Range(q) <=> x \in Range(Front(q)) \/ x = Last(q)
  <2>1. \A n \in Nat : \A i \in 1..n : i \in 1..n - 1 \/ i = n
      OBVIOUS
  <2>2. \A n \in Nat : \A i \in 1..n - 1 : i \in 1..n
      OBVIOUS
  <2>3. \A x : x \in Range(Front(q)) => x \in Range(q)
      BY <1>1, <1>2, <2>2 DEF Range
  <2>4. \A x : x \in Range(q) => x \in Range(Front(q)) \/ x = Last(q)
      BY <1>1, <1>2, <2>1 DEF Range
  <2>. QED BY <1>3, <2>3, <2>4
<1>. QED BY <1>1, <1>2, <1>3, <1>4

\* A sequence without its first element.
LEMMA TailFacts ==
  ASSUME NEW S, NEW q \in Seq(S), q # <<>>
  PROVE  /\ Tail(q) \in Seq(S) /\ Head(q) \in Range(q) /\ Head(q) \in S
         /\ Range(Tail(q)) \subseteq Range(q) /\ (IsInjective(q) => IsInjective(Tail(q)))
<1>1. /\ Len(q) \in Nat \ {0} /\ DOMAIN q = 1..Len(q) /\ Head(q) = q[1]
      /\ Tail(q) \in Seq(S) /\ DOMAIN Tail(q) = 1..Len(q) - 1
      /\ \A i \in 1..Len(q) - 1 : Tail(q)[i] = q[i + 1]
    OBVIOUS
<1>2. Head(q) \in Range(q) /\ Head(q) \in S
    BY <1>1 DEF Range
<1>3. Range(Tail(q)) \subseteq Range(q)
    BY <1>1 DEF Range
<1>4. IsInjective(q) => IsInjective(Tail(q))
    BY <1>1 DEF IsInjective
<1>. QED BY <1>1, <1>2, <1>3, <1>4

\* The empty sequence.
LEMMA NothingRecorded == Range(<<>>) = {} /\ IsInjective(<<>>)
BY DEF Range, IsInjective

-------------------------------------------------------------------------------
(* LibraryPublish: the files of a variant, in the order of their publication. *)

Slot(i) == <<Variants[var], Sorted[i].name>>
Indices == 1..Len(Sorted)
Recording == newly \cup Range(backups)
Building == Publishing \cup {"quarantine", "checkout", "spawned", "compile", "clean", "rollback",
                             "restore", "compat", "purge"}
Phases == Building \cup Ended

-------------------------------------------------------------------------------
(* LibraryPublish: the inductive invariant.                                *)

Numbered(b) == [Slots -> [Pids -> 0..b]]
Places == [Unsupported -> {"there", "gone"} \cup Pids]
PublishTypes ==
  /\ bp \in Phases /\ var \in DOMAIN Variants /\ entry \in Indices
  /\ more \in [builds : 0..MaxBuilds, faults : 0..MaxFaults]
  /\ dst \in [Slots -> 0..Build] /\ tmp \subseteq Slots \X Pids /\ bak \in Numbered(Build - 1)
  /\ before \in [dst : [Slots -> 0..Build], bak : Numbered(Build - 1), place : Places,
                 torn : SUBSET Unsupported]
  /\ bp # "off" => Build > 1 /\ \A s \in Slots : before.dst[s] < Build
  /\ backups \in Seq(Slots) /\ newly \subseteq Slots
  /\ aside \subseteq Unsupported /\ torn \subseteq Unsupported /\ place \in Places
  /\ compat \in BOOLEAN /\ tree \in {"none", "runs", "stubborn"} /\ pid \in Pids /\ all \in BOOLEAN

\* What other builders have left is not touched, and a library is there or has a backup of
\* this one's: nothing is lost.
Kept ==
  /\ \A s \in Slots, p \in Pids : p # pid => bak[s][p] = before.bak[s][p]
  /\ \A s \in Slots : before.dst[s] # None \/ before.bak[s][pid] # None => dst[s] # None \/ Mine(s) # None

\* What has to be rolled back: nothing twice, of the variant that is published, and each
\* file that was there has its earlier contents behind it.
RecordSet ==
  bp \in Publishing \cup {"clean", "rollback"} =>
    /\ IsInjective(backups) /\ Range(backups) \cap newly = {}
    /\ \A s \in Recording : s[1] = Variants[var]
Debt ==
  bp \in Publishing \cup {"rollback"} =>
    /\ \A s \in newly : before.dst[s] = None /\ (before.bak[s][pid] # None => Mine(s) # None)
    /\ \A s \in Range(backups) : before.dst[s] # None /\ Mine(s) = before.dst[s]
    /\ \A s \in Slots \ Recording :
         s[1] = Variants[var] =>
           \/ dst[s] = before.dst[s]
           \/ bp = "backed" /\ s = Here
           \/ bp = "rollback" /\ "backed" \in hit

\* The files before the one that is published are new, the later ones not recorded.
Progress ==
  bp \in Publishing =>
    /\ \A i \in Indices : i < entry => dst[Slot(i)] = Build
    /\ \A s \in Recording :
         \E i \in Indices : s = Slot(i) /\ (i < entry \/ (i = entry /\ bp \in {"publish", "copied"}))
    /\ bp = "backed" => dst[Here] = None /\ before.dst[Here] # None /\ Mine(Here) = before.dst[Here]
    /\ bp \in {"publish", "copied"} => Here \in Recording

\* The variants are built one after another, or one of them alone.
Same(v) == \A n \in Names : dst[<<v, n>>] = before.dst[<<v, n>>]
Whole(v) == \A n \in Names : dst[<<v, n>>] = Build
OtherLibraries == \A i \in DOMAIN Variants :
            i # var => IF all /\ i < var THEN Whole(Variants[i]) ELSE Same(Variants[i])
Alone == ~all => \A i \in DOMAIN Variants : i # var => Same(Variants[i])
Built ==
  /\ Alone
  /\ bp = "quarantine" => var = 1 /\ \A i \in DOMAIN Variants : Same(Variants[i])
  /\ bp \in {"checkout", "spawned", "compile", "clean", "rollback"} \cup Publishing => OtherLibraries
  /\ bp \in {"checkout", "spawned", "compile"} => Same(Variants[var])
  /\ bp = "clean" => Whole(Variants[var])
  /\ bp \in {"compat", "purge"} => \A i \in DOMAIN Variants : Whole(Variants[i])
  /\ bp \in {"restore", "failed"} /\ hit \cap {"backed", "rollback"} = {} =>
       \A i \in DOMAIN Variants : Same(Variants[i]) \/ Whole(Variants[i])

\* What was put aside stays there until it is removed or restored.
Sidelined(u) == u \in aside /\ place[u] = pid /\ before.place[u] = "there"
Untouched(u) == place[u] = before.place[u]
Back(u) == Untouched(u) /\ (u \in aside => place[u] = "there")
Quarantined ==
  /\ bp \in {"quarantine", "compat", "purge", "restore"} => all
  /\ ~all => aside = {}
  /\ bp \in Building \ {"purge", "restore"} =>
       /\ torn = before.torn
       /\ \A u \in Unsupported : Sidelined(u) \/ (u \notin aside /\ Untouched(u))
  /\ bp = "purge" => \A u \in aside : place[u] \in {"gone", pid}
  /\ bp = "restore" =>
       /\ \A u \in aside : place[u] \in {"there", "gone", pid}
       /\ "purge" \notin hit =>
            torn = before.torn /\ \A u \in Unsupported : Sidelined(u) \/ Back(u)
  /\ QuarantineUndone

TreeEnds == tree # "none" => \/ bp \in {"spawned", "compile", "killed", "cleaned", "off"}
                             \/ "spawned" \in hit /\ bp \in {"restore", "failed"}

PublishInv == /\ PublishTypes /\ Kept /\ AbortRestores /\ RecordSet /\ Debt /\ Progress
              /\ Built /\ Quarantined /\ TreeEnds

-------------------------------------------------------------------------------
(* LibraryPublish: its operators.                                          *)

\* Three files are staged.
LEMMA ThreeFiles == Cardinality(Staged) = 3
<1>1. \A a, b, c : a # b /\ a # c /\ b # c => Cardinality({a, b, c}) = 3
  <2> SUFFICES ASSUME NEW a, NEW b, NEW c, a # b, a # c, b # c PROVE Cardinality({a, b, c}) = 3
      OBVIOUS
  <2>1. IsFiniteSet({a}) /\ Cardinality({a}) = 1
      BY FS_Singleton
  <2>2. IsFiniteSet({a} \cup {b}) /\ Cardinality({a} \cup {b}) = 2
      BY <2>1, FS_AddElement, SMT
  <2>3. Cardinality(({a} \cup {b}) \cup {c}) = 3
      BY <2>2, FS_AddElement, SMT
  <2>4. ({a} \cup {b}) \cup {c} = {a, b, c}
      OBVIOUS
  <2>. QED BY <2>3, <2>4
<1>2. /\ [name |-> "libggml.so", link |-> TRUE] # [name |-> "libggml.so.0", link |-> FALSE]
      /\ [name |-> "libggml.so", link |-> TRUE] # [name |-> Main, link |-> FALSE]
      /\ [name |-> "libggml.so.0", link |-> FALSE] # [name |-> Main, link |-> FALSE]
    BY DEF Main
<1>. QED BY <1>1, <1>2 DEF Staged

\* The files are published in an order that has each of them once, and the main library last.
LEMMA MainComesLast ==
  /\ Len(Sorted) = 3 /\ Sorted \in [1..3 -> Staged]
  /\ \A n \in Names : \E i \in 1..3 : Sorted[i].name = n
  /\ \A i, j \in 1..3 : Sorted[i].name = Sorted[j].name => i = j
  /\ \A i \in 1..3 : Sorted[i].name \in Names /\ (Sorted[i].name = Main => i = 3)
<1> DEFINE InOrder(files) == /\ Range(files) = Staged
                              /\ \A i, j \in DOMAIN files :
                                   i < j => _library_sort_key(files[i]) <= _library_sort_key(files[j])
           so == [name |-> "libggml.so", link |-> TRUE]
           so0 == [name |-> "libggml.so.0", link |-> FALSE]
           main == [name |-> Main, link |-> FALSE]
           order == [i \in 1..3 |-> IF i = 1 THEN so0 ELSE IF i = 2 THEN so ELSE main]
<1>1. Staged = {so, so0, main} /\ so.name # so0.name /\ so.name # Main /\ so0.name # Main /\ main.name = Main
    BY DEF Staged, Main
<1>2. /\ _library_sort_key(so0) = 0 /\ _library_sort_key(so) = 1 /\ _library_sort_key(main) = 2
    BY DEF _library_sort_key, Main
<1>3. \A e, f \in Staged : e.name = f.name => e = f
    BY <1>1
<1>4. Names = {so.name, so0.name, Main}
    BY <1>1 DEF Names
<1> HIDE DEF so, so0, main
<1>5. order \in [1..3 -> Staged] /\ order[1] = so0 /\ order[2] = so /\ order[3] = main
    BY <1>1
<1>6. DOMAIN order = 1..3
    OBVIOUS
<1> HIDE DEF order
<1>7. Range(order) = Staged
  <2>1. 1..3 = {1, 2, 3}
      OBVIOUS
  <2>2. Range(order) = {order[1], order[2], order[3]}
      BY <1>6, <2>1 DEF Range
  <2>. QED BY <1>1, <1>5, <2>2
<1>8. InOrder(order)
    BY <1>2, <1>5, <1>6, <1>7
<1>9. Sorted \in [1..3 -> Staged] /\ InOrder(Sorted)
  <2>1. Sorted = CHOOSE files \in [1..3 -> Staged] : InOrder(files)
      BY ThreeFiles, Zenon DEF Sorted
  <2> HIDE DEF InOrder
  <2>. QED BY <1>5, <1>8, <2>1
<1>10. Len(Sorted) = 3 /\ DOMAIN Sorted = 1..3
    BY <1>9
<1>11. \A e \in Staged : \E i \in 1..3 : Sorted[i] = e
    BY <1>9, <1>10 DEF Range
<1>12. PICK a \in 1..3, b \in 1..3, c \in 1..3 : Sorted[a] = so /\ Sorted[b] = so0 /\ Sorted[c] = main
    BY <1>1, <1>11
<1>13. a # b /\ a # c /\ b # c
    BY <1>1, <1>12
<1>14. \A i \in 1..3 : i = a \/ i = b \/ i = c
    BY <1>13
<1>15. \A i, j \in 1..3 : Sorted[i].name = Sorted[j].name => i = j
    BY <1>1, <1>12, <1>14
<1>16. c = 3
  <2>1. ~ (c < a) /\ ~ (c < b)
      BY <1>2, <1>9, <1>10, <1>12
  <2>. QED BY <2>1, <1>13
<1>17. \A i \in 1..3 : Sorted[i].name \in Names /\ (Sorted[i].name = Main => i = 3)
    BY <1>1, <1>4, <1>12, <1>14, <1>16
<1>18. \A n \in Names : \E i \in 1..3 : Sorted[i].name = n
    BY <1>1, <1>4, <1>12
<1>. QED BY <1>9, <1>10, <1>15, <1>17, <1>18

\* Variants, files and bounds.
LEMMA SlotFacts ==
  /\ \A v \in Range(Variants), n \in Names : <<v, n>> \in Slots
  /\ \A s \in Slots : s[1] \in Range(Variants) /\ s[2] \in Names /\ s = <<s[1], s[2]>>
  /\ \A i \in DOMAIN Variants : Variants[i] \in Range(Variants)
  /\ \A v \in Range(Variants) : \E i \in DOMAIN Variants : v = Variants[i]
  /\ \A i, j \in DOMAIN Variants : Variants[i] = Variants[j] => i = j
  /\ DOMAIN Variants = 1..Len(Variants) /\ Len(Variants) \in Nat /\ 1 \in DOMAIN Variants
  /\ MaxBuilds \in Nat /\ MaxFaults \in Nat /\ "there" \notin Pids /\ "gone" \notin Pids
<1>1. \A v \in Range(Variants), n \in Names : <<v, n>> \in Slots
    BY DEF Slots
<1>2. \A s \in Slots : s[1] \in Range(Variants) /\ s[2] \in Names /\ s = <<s[1], s[2]>>
    BY DEF Slots
<1>3. /\ \A i \in DOMAIN Variants : Variants[i] \in Range(Variants)
      /\ \A v \in Range(Variants) : \E i \in DOMAIN Variants : v = Variants[i]
    BY DEF Range
<1>4. \A i, j \in DOMAIN Variants : Variants[i] = Variants[j] => i = j
    BY PublishAssumption DEF IsInjective
<1>5. DOMAIN Variants = 1..Len(Variants) /\ Len(Variants) \in Nat /\ 1 \in DOMAIN Variants
    BY PublishAssumption
<1>6. MaxBuilds \in Nat /\ MaxFaults \in Nat /\ "there" \notin Pids /\ "gone" \notin Pids
    BY PublishAssumption
<1>. QED BY <1>1, <1>2, <1>3, <1>4, <1>5, <1>6

\* One backup of one builder changes.
LEMMA OneBackup ==
  ASSUME NEW n, NEW b \in Numbered(n), NEW s \in Slots, NEW p \in Pids, NEW x,
         NEW c, c = [b EXCEPT ![s][p] = x]
  PROVE  /\ c[s][p] = x
         /\ \A r \in Slots, q \in Pids : r # s \/ q # p => c[r][q] = b[r][q]
         /\ x \in 0..n => c \in Numbered(n)
BY DEF Numbered

-------------------------------------------------------------------------------
(* LibraryPublish: every step keeps the invariant.                         *)

\* A build keeps its number, and its slots stand for files.
LEMMA BuildKept ==
  ASSUME PublishTypes
  PROVE  /\ Build \in Nat \ {0} /\ Build <= MaxBuilds + 1
         /\ PublishNext /\ bp # "off" => Build' = Build
         /\ StartBuild => Build' = Build + 1
         /\ Here \in Slots /\ Here[1] = Variants[var]
<1>1. more.builds \in 0..MaxBuilds /\ more.faults \in 0..MaxFaults
    BY DEF PublishTypes
<1>2. Build \in Nat \ {0} /\ Build <= MaxBuilds + 1
    BY <1>1, SlotFacts DEF Build
<1>3. ASSUME PublishNext, bp # "off" PROVE more'.builds = more.builds
  <2> USE <1>1 DEF PublishTypes
  <2>1. CASE _cleanup_quarantined_variants
      BY <2>1 DEF _cleanup_quarantined_variants, Faulty
  <2>2. CASE CompileStopped \/ Fault \/ Kill
      BY <2>2 DEF CompileStopped, Fault, Kill, Faulty
  <2>3. CASE ~(_cleanup_quarantined_variants \/ CompileStopped \/ Fault \/ Kill)
      BY <1>3, <2>3 DEF PublishNext, StartBuild, At, _quarantine_stale_variants, _checkout_repo,
           _compile_libraries, _run_cmake_build, _verify_library_loadable, BackUp, Note, NewFile,
           _publish_single_file, CopyBeside, MoveCopy, _cleanup_backups, _rollback_published,
           LinkCompat, _restore_quarantined_variants, _clean_zerotts_build_workspace, EndBuild
  <2>. QED BY <2>1, <2>2, <2>3
<1>4. PublishNext /\ bp # "off" => Build' = Build
    BY <1>3 DEF Build
<1>5. StartBuild => Build' = Build + 1
  <2> SUFFICES ASSUME StartBuild PROVE Build' = Build + 1
      OBVIOUS
  <2>1. more' = [more EXCEPT !.builds = @ - 1]
      BY DEF StartBuild
  <2>2. more'.builds = more.builds - 1
      BY <2>1 DEF PublishTypes
  <2>. QED BY <1>1, <2>2, SlotFacts DEF Build
<1>6. Here \in Slots /\ Here[1] = Variants[var]
    BY SlotFacts, MainComesLast DEF Here, PublishTypes, Indices
<1>. QED BY <1>2, <1>4, <1>5, <1>6

\* Builds and faults are used up one by one.
LEMMA MoreKept ==
  ASSUME PublishTypes, PublishNext
  PROVE  more' \in [builds : 0..MaxBuilds, faults : 0..MaxFaults]
<1>0. more \in [builds : 0..MaxBuilds, faults : 0..MaxFaults]
    BY DEF PublishTypes
<1>1. CASE more.builds > 0 /\ more' = [more EXCEPT !.builds = @ - 1]
    BY <1>0, <1>1, SlotFacts
<1>2. CASE more.faults > 0 /\ more' = [more EXCEPT !.faults = @ - 1]
    BY <1>0, <1>2, SlotFacts
<1>3. CASE more' = more
    BY <1>0, <1>3
<1>4. CASE StartBuild \/ CompileStopped \/ Fault \/ Kill
    BY <1>1, <1>2, <1>4 DEF StartBuild, CompileStopped, Fault, Kill, Faulty
<1>5. CASE _cleanup_quarantined_variants
    BY <1>2, <1>3, <1>5 DEF _cleanup_quarantined_variants, Faulty
<1>6. CASE ~(StartBuild \/ _cleanup_quarantined_variants \/ CompileStopped \/ Fault \/ Kill)
    BY <1>3, <1>6 DEF PublishNext, _quarantine_stale_variants, _checkout_repo,
         _compile_libraries, _run_cmake_build, _verify_library_loadable, BackUp, Note, NewFile,
         _publish_single_file, CopyBeside, MoveCopy, _cleanup_backups, _rollback_published,
         LinkCompat, _restore_quarantined_variants, _clean_zerotts_build_workspace, EndBuild
<1>. QED BY <1>4, <1>5, <1>6

\* The steps that change no file of a variant, nor what is recorded of the files.
Elsewhere == _quarantine_stale_variants \/ _checkout_repo \/ LinkCompat
             \/ _cleanup_quarantined_variants \/ _restore_quarantined_variants
             \/ _compile_libraries \/ _run_cmake_build \/ CompileStopped \/ Fault \/ Kill \/ EndBuild
FilesStay == UNCHANGED <<dst, bak, builder, publishing, before>> /\ bp # "off" /\ tmp' \subseteq tmp

\* They leave the files and the records alone.
LEMMA ElsewhereFacts == Elsewhere => FilesStay /\ bp' \in Phases
<1> SUFFICES ASSUME Elsewhere PROVE FilesStay /\ bp' \in Phases
    OBVIOUS
<1> USE DEF FilesStay, Phases, Building, Publishing, Ended, publishing, builder, target, history, At, Go,
            Onward
<1>1. CASE _quarantine_stale_variants
    BY <1>1 DEF _quarantine_stale_variants
<1>2. CASE _checkout_repo \/ LinkCompat
    BY <1>2 DEF _checkout_repo, LinkCompat
<1>3. CASE _cleanup_quarantined_variants \/ _restore_quarantined_variants
    BY <1>3 DEF _cleanup_quarantined_variants, _restore_quarantined_variants
<1>4. CASE _compile_libraries \/ _run_cmake_build \/ CompileStopped
    BY <1>4 DEF _compile_libraries, _run_cmake_build, CompileStopped
<1>5. CASE Fault
    BY <1>5 DEF Fault, Recovery, Unlinked
<1>6. CASE Kill \/ EndBuild
    BY <1>6 DEF Kill, EndBuild
<1>. QED BY <1>1, <1>2, <1>3, <1>4, <1>5, <1>6 DEF Elsewhere

\* The steps, grouped.
LEMMA NextCases ==
  ASSUME PublishNext
  PROVE  \/ Elsewhere \/ StartBuild \/ _verify_library_loadable \/ BackUp \/ Note \/ NewFile
         \/ _publish_single_file \/ CopyBeside \/ MoveCopy \/ _cleanup_backups
         \/ _rollback_published \/ _clean_zerotts_build_workspace
BY DEF PublishNext, Elsewhere

\* What may be elsewhere is what may be there.
OtherTypes == /\ aside \subseteq Unsupported /\ torn \subseteq Unsupported /\ place \in Places
              /\ compat \in BOOLEAN /\ tree \in {"none", "runs", "stubborn"}
              /\ pid \in Pids /\ all \in BOOLEAN
LEMMA OtherTypesKept ==
  ASSUME PublishTypes, PublishNext
  PROVE  OtherTypes'
<1>0. OtherTypes
    BY DEF PublishTypes, OtherTypes
<1> USE <1>0 DEF OtherTypes, Places, history, publishing, variants, builder
<1>1. CASE StartBuild
    BY <1>1 DEF StartBuild
<1>2. CASE _quarantine_stale_variants
    BY <1>2 DEF _quarantine_stale_variants
<1>3. CASE _checkout_repo \/ LinkCompat \/ _compile_libraries \/ _run_cmake_build
    BY <1>3 DEF _checkout_repo, LinkCompat, _compile_libraries, _run_cmake_build
<1>4. CASE _cleanup_quarantined_variants
    BY <1>4 DEF _cleanup_quarantined_variants, Waiting
<1>5. CASE _restore_quarantined_variants
    BY <1>5 DEF _restore_quarantined_variants
<1>6. CASE _verify_library_loadable \/ CompileStopped \/ Kill \/ EndBuild
    BY <1>6 DEF _verify_library_loadable, CompileStopped, Kill, EndBuild, _terminate_cmake_process_tree
<1>7. CASE Fault
    BY <1>7 DEF Fault
<1>8. CASE _clean_zerotts_build_workspace
  <2>1. place' = [u \in Unsupported |-> IF place[u] = pid THEN "there" ELSE place[u]]
      BY <1>8 DEF _clean_zerotts_build_workspace
  <2>2. UNCHANGED <<aside, torn, compat, tree, pid, all>>
      BY <1>8 DEF _clean_zerotts_build_workspace
  <2>. QED BY <2>1, <2>2
<1>9. CASE BackUp \/ Note \/ NewFile \/ _publish_single_file \/ CopyBeside \/ MoveCopy
           \/ _cleanup_backups \/ _rollback_published
    BY <1>9 DEF BackUp, Note, NewFile, _publish_single_file, CopyBeside, MoveCopy,
         _cleanup_backups, _rollback_published
<1>. QED BY <1>1, <1>2, <1>3, <1>4, <1>5, <1>6, <1>7, <1>8, <1>9 DEF PublishNext

FileTypes ==
  /\ dst \in [Slots -> 0..Build] /\ tmp \subseteq Slots \X Pids /\ bak \in Numbered(Build - 1)
  /\ before \in [dst : [Slots -> 0..Build], bak : Numbered(Build - 1), place : Places,
                 torn : SUBSET Unsupported]
  /\ bp # "off" => Build > 1 /\ \A s \in Slots : before.dst[s] < Build
PlaceTypes ==
  /\ bp \in Phases /\ var \in DOMAIN Variants /\ entry \in Indices
  /\ backups \in Seq(Slots) /\ newly \subseteq Slots

\* A build stays in range.
LEMMA PlaceTypesKept ==
  ASSUME PublishTypes, PublishNext
  PROVE  PlaceTypes'
<1>0. PlaceTypes /\ Indices = 1..3 /\ Len(Sorted) = 3 /\ Here \in Slots
    BY BuildKept, MainComesLast DEF PublishTypes, PlaceTypes, Indices
<1> USE DEF PlaceTypes, Go, At, publishing, target, Onward
<1>a. \A p \in Building \cup Ended : p \in Phases
    BY DEF Phases
<1>b. {"quarantine", "backup", "backed", "publish", "copied", "clean", "checkout", "compat",
       "restore", "cleaned", "failed", "done"} \subseteq Phases
    BY DEF Phases, Building, Publishing, Ended
<1>1. CASE Elsewhere
    BY <1>0, <1>1, ElsewhereFacts DEF FilesStay
<1>2. CASE StartBuild
    BY <1>0, <1>b, <1>2, SlotFacts DEF StartBuild
<1>3. CASE _verify_library_loadable
    BY <1>0, <1>b, <1>3 DEF _verify_library_loadable, Fresh
<1>4. CASE BackUp
    BY <1>0, <1>b, <1>4 DEF BackUp
<1>5. CASE Note
    BY <1>0, <1>b, <1>5 DEF Note
<1>6. CASE NewFile
    BY <1>0, <1>b, <1>6 DEF NewFile, Recorded
<1>7. CASE _publish_single_file
    BY <1>0, <1>b, <1>7 DEF _publish_single_file, NextEntry
<1>8. CASE CopyBeside
    BY <1>0, <1>b, <1>8 DEF CopyBeside
<1>9. CASE MoveCopy
    BY <1>0, <1>b, <1>9 DEF MoveCopy, NextEntry
<1>10. CASE _cleanup_backups
  <2>1. CASE backups # <<>>
    <3>1. backups' = Tail(backups) /\ UNCHANGED <<bp, var, entry, newly>>
        BY <1>10, <2>1 DEF _cleanup_backups
    <3>2. backups' \in Seq(Slots)
        BY <1>0, <2>1, <3>1, TailFacts
    <3>. QED BY <1>0, <3>1, <3>2
  <2>2. CASE backups = <<>>
      BY <1>0, <1>b, <1>10, <2>2, SlotFacts DEF _cleanup_backups
  <2>. QED BY <2>1, <2>2
<1>11. CASE _rollback_published
    BY <1>0, <1>b, <1>11, FrontFacts DEF _rollback_published
<1>12. CASE _clean_zerotts_build_workspace
    BY <1>0, <1>b, <1>12 DEF _clean_zerotts_build_workspace
<1>. QED BY <1>1, <1>2, <1>3, <1>4, <1>5, <1>6, <1>7, <1>8, <1>9, <1>10, <1>11, <1>12, NextCases

\* What files hold comes from a build up to this one, and backups from one before.
LEMMA FileTypesKept ==
  ASSUME PublishTypes, Debt, Progress, RecordSet, PublishNext
  PROVE  FileTypes'
<1>0. /\ FileTypes /\ Here \in Slots /\ Build \in Nat \ {0} /\ backups \in Seq(Slots)
      /\ newly \subseteq Slots /\ pid \in Pids
    BY BuildKept DEF PublishTypes, FileTypes
<1>a. /\ bp # "off" => Build' = Build
      /\ StartBuild => Build' = Build + 1
    BY BuildKept
<1>b. 0 \in 0..Build - 1 /\ 0..Build - 1 \subseteq 0..Build /\ Build \in 0..Build
    BY <1>0
<1> USE DEF FileTypes, Go, At, publishing, target, builder, history, None
<1>1. CASE Elsewhere
  <2>1. UNCHANGED <<dst, bak, before>> /\ Build' = Build /\ bp # "off" /\ tmp' \subseteq tmp
      BY <1>1, <1>a, ElsewhereFacts DEF FilesStay
  <2>. QED BY <1>0, <2>1
<1>2. CASE StartBuild
  <2>1. /\ UNCHANGED <<dst, bak, tmp>> /\ Build' = Build + 1
        /\ before' = [dst |-> dst, bak |-> bak, place |-> place, torn |-> torn]
      BY <1>a, <1>2 DEF StartBuild, variants
  <2>2. 0..Build \subseteq 0..Build' /\ 0..Build - 1 \subseteq 0..Build' - 1 /\ Build' > 1
      BY <1>0, <2>1
  <2>3. dst \in [Slots -> 0..Build'] /\ bak \in Numbered(Build' - 1)
    <3>1. \A s \in Slots : bak[s] \in [Pids -> 0..Build' - 1]
        BY <1>0, <2>2 DEF Numbered
    <3>. QED BY <1>0, <2>2, <3>1 DEF Numbered
  <2>4. place \in Places /\ torn \subseteq Unsupported
      BY DEF PublishTypes
  <2>5. \A s \in Slots : before'.dst[s] < Build'
      BY <1>0, <2>1
  <2>6. Numbered(Build - 1)' = Numbered(Build' - 1) /\ Places' = Places
      BY DEF Numbered, Places
  <2>. QED BY <1>0, <2>1, <2>2, <2>3, <2>4, <2>5, <2>6
<1> HIDE DEF FileTypes
<1>3. ASSUME dst' \in [Slots -> 0..Build], bak' \in Numbered(Build - 1), tmp' \subseteq Slots \X Pids,
             before' = before, bp # "off"
      PROVE  FileTypes'
    BY <1>0, <1>3, <1>a DEF FileTypes
<1>4. dst \in [Slots -> 0..Build] /\ bak \in Numbered(Build - 1) /\ tmp \subseteq Slots \X Pids
    BY <1>0 DEF FileTypes
<1>5. CASE _verify_library_loadable \/ Note
    BY <1>3, <1>4, <1>5 DEF _verify_library_loadable, Note
<1>6. CASE BackUp
  <2>1. Here \notin Recording /\ bp = "backup"
    <3>1. bp = "backup"
        BY <1>6 DEF BackUp
    <3>2. \A i, j \in Indices : Slot(i) = Slot(j) => i = j
        BY MainComesLast DEF Slot, Indices
    <3>3. entry \in Indices /\ Here = Slot(entry)
        BY DEF PublishTypes, Here, Slot
    <3>4. \A s \in Recording : \E i \in Indices : s = Slot(i) /\ i < entry
        BY <3>1 DEF Progress, Publishing
    <3>5. Indices \subseteq Nat
        BY MainComesLast DEF Indices
    <3>. QED BY <3>1, <3>2, <3>3, <3>4, <3>5
  <2>2. dst[Here] = before.dst[Here]
      BY <1>0, <2>1, BuildKept DEF Debt, Publishing
  <2>3. before \in [dst : [Slots -> 0..Build], bak : Numbered(Build - 1), place : Places,
                    torn : SUBSET Unsupported]
        /\ before.dst[Here] < Build
      BY <1>0, <2>1 DEF FileTypes
  <2>4. dst[Here] \in 0..Build - 1
      BY <1>0, <2>2, <2>3
  <2>5. bak' = [bak EXCEPT ![Here][pid] = dst[Here]] /\ dst' = [dst EXCEPT ![Here] = 0]
        /\ tmp' = tmp /\ before' = before
      BY <1>6 DEF BackUp
  <2>6. bak' \in Numbered(Build - 1)
      BY <1>0, <1>4, <2>4, <2>5 DEF Numbered
  <2>7. dst' \in [Slots -> 0..Build]
      BY <1>4, <1>b, <2>5
  <2>. QED BY <1>3, <1>4, <2>1, <2>5, <2>6, <2>7
<1>7. CASE NewFile
    BY <1>3, <1>4, <1>7 DEF NewFile, Leftover
<1>8. CASE _publish_single_file \/ MoveCopy
  <2>1. /\ dst' = [dst EXCEPT ![Here] = Build] /\ bak' = bak /\ tmp' \subseteq tmp /\ before' = before
        /\ bp # "off"
      BY <1>8 DEF _publish_single_file, MoveCopy, Unlinked
  <2>2. dst' \in [Slots -> 0..Build]
      BY <1>4, <1>b, <2>1
  <2>. QED BY <1>3, <1>4, <2>1, <2>2
<1>9. CASE CopyBeside
    BY <1>0, <1>3, <1>4, <1>9 DEF CopyBeside
<1>10. CASE _cleanup_backups
  <2>1. backups # <<>> => Head(backups) \in Slots
      BY <1>0, TailFacts
  <2>2. bak' = bak \/ (backups # <<>> /\ bak' = [bak EXCEPT ![Head(backups)][pid] = 0])
      BY <1>10 DEF _cleanup_backups
  <2>3. bak' \in Numbered(Build - 1)
    <3>1. CASE backups # <<>> /\ bak' = [bak EXCEPT ![Head(backups)][pid] = 0]
        BY <1>0, <1>4, <1>b, <2>1, <3>1, OneBackup
    <3>. QED BY <1>4, <2>2, <3>1
  <2>. QED BY <1>3, <1>4, <1>10, <2>3 DEF _cleanup_backups
<1>11. CASE _rollback_published
  <2>1. backups # <<>> => Last(backups) \in Slots
      BY <1>0, FrontFacts
  <2>2. \/ \E s \in newly : dst' = [dst EXCEPT ![s] = 0] /\ bak' = bak
        \/ backups # <<>> /\ \E s \in {Last(backups)} :
             dst' = [dst EXCEPT ![s] = bak[s][pid]] /\ bak' = [bak EXCEPT ![s][pid] = 0]
        \/ dst' = dst /\ bak' = bak
      BY <1>11 DEF _rollback_published, Mine
  <2>3. bak' \in Numbered(Build - 1)
    <3>1. ASSUME NEW s \in Slots, bak' = [bak EXCEPT ![s][pid] = 0] PROVE bak' \in Numbered(Build - 1)
        BY <1>0, <1>4, <1>b, <3>1, OneBackup
    <3>. QED BY <1>4, <2>1, <2>2, <3>1
  <2>4. \A s \in Slots : bak[s][pid] \in 0..Build
      BY <1>0, <1>4, <1>b DEF Numbered
  <2>5. dst' \in [Slots -> 0..Build]
      BY <1>0, <1>4, <1>b, <2>1, <2>2, <2>4
  <2>. QED BY <1>3, <1>4, <1>11, <2>3, <2>5 DEF _rollback_published
<1>12. CASE _clean_zerotts_build_workspace
  <2>1. PICK built \in SUBSET Slots :
          /\ dst' = [s \in Slots |-> IF s \in built THEN IF dst[s] = 0 THEN bak[s][pid] ELSE dst[s]
                                     ELSE dst[s]]
          /\ bak' = [s \in Slots |-> IF s \in built THEN [bak[s] EXCEPT ![pid] = 0] ELSE bak[s]]
      BY <1>12 DEF _clean_zerotts_build_workspace, _restore_or_remove_rollback, Mine
  <2>2. \A s \in Slots : bak[s] \in [Pids -> 0..Build - 1] /\ bak[s][pid] \in 0..Build
      BY <1>0, <1>4, <1>b DEF Numbered
  <2>3. dst' \in [Slots -> 0..Build]
      BY <1>4, <2>1, <2>2
  <2>4. \A s \in Slots : [bak[s] EXCEPT ![pid] = 0] \in [Pids -> 0..Build - 1]
      BY <1>b, <2>2
  <2>5. bak' \in Numbered(Build - 1)
      BY <1>4, <2>1, <2>2, <2>4 DEF Numbered
  <2>6. tmp' \subseteq tmp /\ before' = before /\ bp # "off"
      BY <1>12 DEF _clean_zerotts_build_workspace
  <2>. QED BY <1>3, <1>4, <2>3, <2>5, <2>6
<1>. QED BY <1>1, <1>2, <1>5, <1>6, <1>7, <1>8, <1>9, <1>10, <1>11, <1>12, NextCases

\* Every step keeps the types.
LEMMA TypesKept ==
  ASSUME PublishTypes, Debt, Progress, RecordSet, PublishNext
  PROVE  PublishTypes'
BY PlaceTypesKept, FileTypesKept, OtherTypesKept, MoreKept, Zenon
   DEF PublishTypes, PlaceTypes, FileTypes, OtherTypes

\* The files of the variant that is published, by their positions.
LEMMA PositionFacts ==
  ASSUME PublishTypes
  PROVE  /\ \A i \in Indices : Slot(i) \in Slots /\ Slot(i)[1] = Variants[var]
         /\ \A i, j \in Indices : Slot(i) = Slot(j) => i = j
         /\ \A n \in Names : \E i \in Indices : <<Variants[var], n>> = Slot(i)
         /\ entry \in Indices /\ Here = Slot(entry) /\ Indices = 1..3 /\ Len(Sorted) = 3
<1>1. Indices = 1..3 /\ Len(Sorted) = 3 /\ entry \in Indices /\ var \in DOMAIN Variants
    BY MainComesLast DEF Indices, PublishTypes
<1>2. /\ \A i \in Indices : Slot(i) \in Slots /\ Slot(i)[1] = Variants[var]
      /\ \A i, j \in Indices : Slot(i) = Slot(j) => i = j
      /\ \A n \in Names : \E i \in Indices : <<Variants[var], n>> = Slot(i)
    BY <1>1, MainComesLast, SlotFacts DEF Slot
<1>. QED BY <1>1, <1>2 DEF Here, Slot

\* Before its record a file is not recorded.
LEMMA HereUnrecorded ==
  ASSUME PublishTypes, Progress, bp \in {"backup", "backed"}
  PROVE  Here \notin Recording
<1>1. \A s \in Recording : \E i \in Indices : s = Slot(i) /\ i < entry
    BY DEF Progress, Publishing
<1>. QED BY <1>1, PositionFacts

\* From elsewhere a build comes to the rollback, but not to where files are published.
LEMMA ElsewherePhases ==
  ASSUME Elsewhere
  PROVE  /\ bp' \notin Publishing \cup {"clean", "cleaned"}
         /\ bp' = "rollback" => bp \in Publishing /\ (bp = "backed" => "backed" \in hit')
<1> USE DEF Publishing, At, Go, Onward
<1>1. CASE _quarantine_stale_variants
    BY <1>1 DEF _quarantine_stale_variants
<1>2. CASE _checkout_repo \/ LinkCompat
    BY <1>2 DEF _checkout_repo, LinkCompat
<1>3. CASE _cleanup_quarantined_variants \/ _restore_quarantined_variants
    BY <1>3 DEF _cleanup_quarantined_variants, _restore_quarantined_variants
<1>4. CASE _compile_libraries \/ _run_cmake_build \/ CompileStopped
    BY <1>4 DEF _compile_libraries, _run_cmake_build, CompileStopped
<1>5. CASE Fault
    BY <1>5 DEF Fault, Recovery, Hit
<1>6. CASE Kill \/ EndBuild
    BY <1>6 DEF Kill, EndBuild
<1>. QED BY <1>1, <1>2, <1>3, <1>4, <1>5, <1>6 DEF Elsewhere

\* No step loses a library.
LEMMA KeptKept ==
  ASSUME PublishTypes, Kept, Debt, Progress, RecordSet, Built, PublishNext
  PROVE  Kept'
<1>0. /\ dst \in [Slots -> 0..Build] /\ bak \in Numbered(Build - 1) /\ pid \in Pids
      /\ Here \in Slots /\ Build \in Nat \ {0} /\ backups \in Seq(Slots) /\ newly \subseteq Slots
    BY BuildKept DEF PublishTypes
<1>a. \A s \in Slots : before.dst[s] # None \/ before.bak[s][pid] # None => dst[s] # None \/ bak[s][pid] # None
    BY DEF Kept, Mine
<1> USE DEF At, publishing, target, builder, history, None
<1>b. ASSUME before' = before, pid' = pid,
             \A s \in Slots, p \in Pids : p # pid => bak'[s][p] = bak[s][p],
             \A s \in Slots : before.dst[s] # 0 \/ before.bak[s][pid] # 0 => dst'[s] # 0 \/ bak'[s][pid] # 0
      PROVE  Kept'
    BY <1>b DEF Kept, Mine
<1>1. CASE Elsewhere
    BY <1>1, <1>a, <1>b, ElsewhereFacts DEF FilesStay, Kept
<1>2. CASE StartBuild
  <2>1. /\ UNCHANGED <<dst, bak>>
        /\ before' = [dst |-> dst, bak |-> bak, place |-> place, torn |-> torn]
      BY <1>2 DEF StartBuild
  <2>. QED BY <2>1 DEF Kept, Mine
<1>3. CASE _verify_library_loadable \/ Note \/ CopyBeside \/ NewFile
    BY <1>3, <1>a, <1>b DEF _verify_library_loadable, Note, CopyBeside, NewFile, Leftover
<1>4. CASE BackUp
  <2>1. /\ bak' = [bak EXCEPT ![Here][pid] = dst[Here]] /\ dst' = [dst EXCEPT ![Here] = 0]
        /\ dst[Here] # 0 /\ before' = before /\ pid' = pid
      BY <1>4 DEF BackUp
  <2>2. /\ bak'[Here][pid] = dst[Here]
        /\ \A r \in Slots, q \in Pids : r # Here \/ q # pid => bak'[r][q] = bak[r][q]
      BY <1>0, <2>1 DEF Numbered
  <2>3. \A s \in Slots : s # Here => dst'[s] = dst[s]
      BY <1>0, <2>1
  <2>. QED BY <1>0, <1>a, <1>b, <2>1, <2>2, <2>3
<1>5. CASE _publish_single_file \/ MoveCopy
  <2>1. dst' = [dst EXCEPT ![Here] = Build] /\ bak' = bak /\ before' = before /\ pid' = pid
      BY <1>5 DEF _publish_single_file, MoveCopy
  <2>2. \A s \in Slots : dst[s] # 0 => dst'[s] # 0
      BY <1>0, <2>1
  <2>. QED BY <1>a, <1>b, <2>1, <2>2
<1>7. CASE _cleanup_backups
  <2>0. before' = before /\ pid' = pid /\ dst' = dst
      BY <1>7 DEF _cleanup_backups
  <2>1. CASE backups # <<>>
    <3>1. Head(backups) \in Recording /\ Head(backups) \in Slots
        BY <1>0, <2>1, TailFacts DEF Recording
    <3>2. Head(backups)[1] = Variants[var]
        BY <1>7, <3>1 DEF RecordSet, _cleanup_backups
    <3>3. Head(backups) = <<Variants[var], Head(backups)[2]>> /\ Head(backups)[2] \in Names
        BY <3>1, <3>2, SlotFacts
    <3>4. Whole(Variants[var])
        BY <1>7 DEF _cleanup_backups, Built
    <3>5. dst[Head(backups)] = Build
        BY <3>3, <3>4 DEF Whole
    <3>6. bak' = [bak EXCEPT ![Head(backups)][pid] = 0]
        BY <1>7, <2>1 DEF _cleanup_backups
    <3>7. \A r \in Slots, q \in Pids : r # Head(backups) \/ q # pid => bak'[r][q] = bak[r][q]
        BY <1>0, <3>1, <3>6 DEF Numbered
    <3>. QED BY <1>0, <1>a, <1>b, <2>0, <3>1, <3>5, <3>7
  <2>2. CASE backups = <<>>
      BY <1>7, <1>a, <1>b, <2>0, <2>2 DEF _cleanup_backups
  <2>. QED BY <2>1, <2>2
<1>8. CASE _rollback_published
  <2>1. /\ \A s \in newly : before.dst[s] = 0 /\ (before.bak[s][pid] # 0 => bak[s][pid] # 0)
        /\ \A s \in Range(backups) : before.dst[s] # 0 /\ bak[s][pid] = before.dst[s]
      BY <1>8 DEF _rollback_published, Debt, Mine
  <2>2. backups # <<>> => Last(backups) \in Range(backups) /\ Last(backups) \in Slots
      BY <1>0, FrontFacts
  <2>3. before' = before /\ pid' = pid
      BY <1>8 DEF _rollback_published
  <2>4. CASE \E s \in newly : dst' = [dst EXCEPT ![s] = 0] /\ bak' = bak
      BY <1>0, <1>a, <1>b, <2>1, <2>3, <2>4
  <2>5. CASE backups # <<>> /\ dst' = [dst EXCEPT ![Last(backups)] = bak[Last(backups)][pid]]
             /\ bak' = [bak EXCEPT ![Last(backups)][pid] = 0]
    <3> DEFINE s == Last(backups)
    <3>1. s \in Slots /\ bak[s][pid] # 0
        BY <2>1, <2>2, <2>5
    <3>2. \A r \in Slots, q \in Pids : r # s \/ q # pid => bak'[r][q] = bak[r][q]
        BY <1>0, <2>5, <3>1 DEF Numbered
    <3>3. dst'[s] = bak[s][pid] /\ \A r \in Slots : r # s => dst'[r] = dst[r]
        BY <1>0, <2>5, <3>1
    <3> HIDE DEF s
    <3>. QED BY <1>0, <1>a, <1>b, <2>3, <3>1, <3>2, <3>3
  <2>6. CASE UNCHANGED <<dst, bak>>
      BY <1>a, <1>b, <2>3, <2>6
  <2>. QED BY <1>8, <2>4, <2>5, <2>6 DEF _rollback_published, Mine
<1>9. CASE _clean_zerotts_build_workspace
  <2>1. before' = before /\ pid' = pid
      BY <1>9 DEF _clean_zerotts_build_workspace
  <2>2. PICK built \in SUBSET Slots :
          /\ dst' = [s \in Slots |-> IF s \in built THEN IF dst[s] = 0 THEN bak[s][pid] ELSE dst[s]
                                     ELSE dst[s]]
          /\ bak' = [s \in Slots |-> IF s \in built THEN [bak[s] EXCEPT ![pid] = 0] ELSE bak[s]]
      BY <1>9 DEF _clean_zerotts_build_workspace, _restore_or_remove_rollback, Mine
  <2>3. \A s \in Slots, p \in Pids : p # pid => bak'[s][p] = bak[s][p]
      BY <1>0, <2>2 DEF Numbered
  <2>4. \A s \in Slots : dst[s] # 0 \/ bak[s][pid] # 0 => dst'[s] # 0 \/ bak'[s][pid] # 0
      BY <2>2
  <2>. QED BY <1>a, <1>b, <2>1, <2>3, <2>4
<1>. QED BY <1>1, <1>2, <1>3, <1>4, <1>5, <1>7, <1>8, <1>9, NextCases

\* The cleanup of a server brings every library back.
LEMMA AbortKept ==
  ASSUME PublishTypes, Kept, Built, PublishNext
  PROVE  AbortRestores'
<1> USE DEF At, Go, publishing, target, builder, history, Onward
<1>1. CASE Elsewhere
    BY <1>1, ElsewherePhases DEF AbortRestores
<1>2. CASE StartBuild \/ _verify_library_loadable \/ Note \/ CopyBeside \/ NewFile \/ BackUp
    BY <1>2 DEF StartBuild, _verify_library_loadable, Note, CopyBeside, NewFile, BackUp, AbortRestores
<1>3. CASE _publish_single_file \/ MoveCopy \/ _cleanup_backups \/ _rollback_published
    BY <1>3 DEF _publish_single_file, MoveCopy, NextEntry, _cleanup_backups, _rollback_published,
         AbortRestores
<1>4. CASE _clean_zerotts_build_workspace
  <2>0. /\ pid \in Pids /\ pid # "there" /\ place \in Places /\ ~all /\ var \in DOMAIN Variants
        /\ bak \in Numbered(Build - 1)
      BY <1>4, SlotFacts DEF PublishTypes, _clean_zerotts_build_workspace
  <2> DEFINE built == {s \in Slots : s[1] = Variants[var]}
  <2>1. /\ dst' = [s \in Slots |-> IF s \in built THEN IF dst[s] = None THEN bak[s][pid] ELSE dst[s]
                                   ELSE dst[s]]
        /\ bak' = [s \in Slots |-> IF s \in built THEN [bak[s] EXCEPT ![pid] = None] ELSE bak[s]]
        /\ tmp' = tmp \ (built \X {pid})
        /\ place' = [u \in Unsupported |-> IF place[u] = pid THEN "there" ELSE place[u]]
        /\ before' = before /\ pid' = pid /\ var' = var
      BY <1>4 DEF _clean_zerotts_build_workspace, _restore_or_remove_rollback, Mine
  <2>2. \A s \in Slots : s[1] # Variants[var] => dst[s] = before.dst[s]
    <3>1. \A i \in DOMAIN Variants : i # var => Same(Variants[i])
        BY <2>0 DEF Built, Alone
    <3>. QED BY <3>1, SlotFacts DEF Same
  <2>3. \A s \in Slots : s[1] = Variants[var] => bak'[s][pid] = None /\ <<s, pid>> \notin tmp'
      BY <2>0, <2>1 DEF Numbered
  <2>4. \A u \in Unsupported : place'[u] # pid
      BY <2>0, <2>1
  <2>5. \A s \in Slots : s[1] = Variants[var] =>
          dst'[s] = IF dst[s] = None THEN bak[s][pid] ELSE dst[s]
      BY <2>1
  <2>6. \A s \in Slots : s[1] # Variants[var] => dst'[s] = dst[s]
      BY <2>1
  <2> HIDE DEF built
  <2>. QED BY <2>1, <2>2, <2>3, <2>4, <2>5, <2>6 DEF AbortRestores, Kept, Mine
<1>. QED BY <1>1, <1>2, <1>3, <1>4, NextCases

\* Nothing is recorded twice.
LEMMA RecordKept ==
  ASSUME PublishTypes, RecordSet, Progress, PublishNext
  PROVE  RecordSet'
<1>0. Here \in Slots /\ Here[1] = Variants[var] /\ backups \in Seq(Slots) /\ newly \subseteq Slots
    BY BuildKept DEF PublishTypes
<1> USE DEF At, Go, publishing, target, builder, Onward
<1>1. CASE Elsewhere
  <2> SUFFICES ASSUME bp' = "rollback" PROVE RecordSet'
      BY <1>1, ElsewherePhases DEF RecordSet
  <2>1. bp \in Publishing /\ UNCHANGED <<var, backups, newly>>
      BY <1>1, ElsewherePhases, ElsewhereFacts DEF FilesStay
  <2>. QED BY <2>1 DEF RecordSet, Recording
<1>2. CASE StartBuild
    BY <1>2 DEF StartBuild, RecordSet, Publishing
<1>3. CASE _verify_library_loadable
    BY <1>3, NothingRecorded DEF _verify_library_loadable, Fresh, RecordSet, Recording
<1>4. CASE BackUp \/ CopyBeside
    BY <1>4 DEF BackUp, CopyBeside, RecordSet, Recording, Publishing
<1>5. CASE Note
  <2>1. bp = "backed" /\ backups' = Append(backups, Here) /\ newly' = newly /\ var' = var
      BY <1>5 DEF Note
  <2>2. Here \notin Recording
      BY <2>1, HereUnrecorded
  <2>3. RecordSet!2
      BY <2>1 DEF RecordSet, Publishing
  <2>4. Range(backups') = Range(backups) \cup {Here} /\ IsInjective(backups')
      BY <1>0, <2>1, <2>2, <2>3, AppendFacts DEF Recording
  <2>. QED BY <1>0, <2>1, <2>2, <2>3, <2>4 DEF RecordSet, Recording
<1>6. CASE NewFile
  <2>1. bp = "backup" /\ newly' = newly \cup {Here} /\ backups' = backups /\ var' = var
      BY <1>6 DEF NewFile, Recorded
  <2>2. Here \notin Recording
      BY <2>1, HereUnrecorded
  <2>. QED BY <1>0, <2>1, <2>2 DEF RecordSet, Recording, Publishing
<1>7. CASE _publish_single_file \/ MoveCopy
    BY <1>7 DEF _publish_single_file, MoveCopy, NextEntry, RecordSet, Recording, Publishing
<1>8. CASE _cleanup_backups
  <2>1. CASE backups # <<>>
    <3>1. /\ backups' = Tail(backups) /\ newly' = newly /\ var' = var /\ bp = "clean" /\ bp' = bp
        BY <1>8, <2>1 DEF _cleanup_backups
    <3>2. /\ Range(Tail(backups)) \subseteq Range(backups)
          /\ IsInjective(backups) => IsInjective(Tail(backups))
        BY <1>0, <2>1, TailFacts
    <3>. QED BY <3>1, <3>2 DEF RecordSet, Recording
  <2>2. CASE backups = <<>>
      BY <1>8, <2>2 DEF _cleanup_backups, RecordSet, Publishing
  <2>. QED BY <2>1, <2>2
<1>9. CASE _rollback_published
  <2>1. /\ bp = "rollback" /\ var' = var
        /\ \/ backups' = backups /\ newly' \subseteq newly
           \/ backups # <<>> /\ backups' = Front(backups) /\ newly' = newly
      BY <1>9 DEF _rollback_published
  <2>2. RecordSet!2
      BY <2>1 DEF RecordSet
  <2>3. backups # <<>> => IsInjective(Front(backups)) /\ Range(Front(backups)) \subseteq Range(backups)
      BY <1>0, <2>2, FrontFacts
  <2>. QED BY <2>1, <2>2, <2>3 DEF RecordSet, Recording
<1>10. CASE _clean_zerotts_build_workspace
    BY <1>10 DEF _clean_zerotts_build_workspace, RecordSet, Publishing
<1>. QED BY <1>1, <1>2, <1>3, <1>4, <1>5, <1>6, <1>7, <1>8, <1>9, <1>10, NextCases

\* The rollback has all it needs, after every step.
LEMMA DebtKept ==
  ASSUME PublishTypes, Kept, RecordSet, Debt, Progress, Built, PublishNext
  PROVE  Debt'
<1>0. /\ dst \in [Slots -> 0..Build] /\ bak \in Numbered(Build - 1) /\ pid \in Pids
      /\ Here \in Slots /\ Here[1] = Variants[var] /\ backups \in Seq(Slots) /\ newly \subseteq Slots
    BY BuildKept DEF PublishTypes
<1> USE DEF At, Go, publishing, target, builder, history, Onward, Mine
<1>1. CASE Elsewhere
  <2> SUFFICES ASSUME bp' = "rollback" PROVE Debt'
      BY <1>1, ElsewherePhases DEF Debt
  <2>1. /\ bp \in Publishing /\ UNCHANGED <<var, entry, backups, newly, dst, bak, before, pid>>
        /\ bp = "backed" => "backed" \in hit'
      BY <1>1, ElsewherePhases, ElsewhereFacts DEF FilesStay
  <2>2. bp # "rollback"
      BY <2>1 DEF Publishing
  <2>. QED BY <2>1, <2>2 DEF Debt, Recording
<1>2. CASE StartBuild
    BY <1>2 DEF StartBuild, Debt, Publishing
<1>3. CASE _verify_library_loadable
  <2>1. /\ bp = "compile" /\ UNCHANGED <<var, dst, before>> /\ newly' = {} /\ backups' = <<>>
      BY <1>3 DEF _verify_library_loadable, Fresh
  <2>2. \A s \in Slots : s[1] = Variants[var] => dst[s] = before.dst[s]
      BY <2>1, SlotFacts DEF Built, Same
  <2>. QED BY <2>1, <2>2, NothingRecorded DEF Debt, Recording
<1>4. CASE BackUp
  <2>1. /\ bp = "backup" /\ bp' = "backed" /\ UNCHANGED <<var, entry, newly, backups, before, pid>>
        /\ dst' = [dst EXCEPT ![Here] = None] /\ bak' = [bak EXCEPT ![Here][pid] = dst[Here]]
      BY <1>4 DEF BackUp
  <2>2. Here \notin Recording /\ Here' = Here
      BY <2>1, HereUnrecorded DEF Here
  <2>3. Debt!2
      BY <2>1 DEF Debt, Publishing
  <2>4. \A r \in Slots : r # Here => bak'[r][pid] = bak[r][pid] /\ dst'[r] = dst[r]
      BY <1>0, <2>1 DEF Numbered
  <2>5. Range(backups) \subseteq Slots
      BY <1>0 DEF Range
  <2>. QED BY <1>0, <2>1, <2>2, <2>3, <2>4, <2>5 DEF Debt, Recording
<1>5. CASE Note
  <2>1. /\ bp = "backed" /\ bp' = "publish" /\ UNCHANGED <<var, newly, dst, bak, before, pid>>
        /\ backups' = Append(backups, Here)
      BY <1>5 DEF Note
  <2>2. Debt!2 /\ before.dst[Here] # None /\ bak[Here][pid] = before.dst[Here]
      BY <2>1 DEF Debt, Publishing, Progress
  <2>3. Range(backups') = Range(backups) \cup {Here}
      BY <1>0, <2>1, AppendFacts
  <2>. QED BY <2>1, <2>2, <2>3 DEF Debt, Recording
<1>6. CASE NewFile
  <2>1. /\ bp = "backup" /\ bp' = "publish" /\ UNCHANGED <<var, backups, dst, bak, before, pid>>
        /\ newly' = newly \cup {Here} /\ dst[Here] = None
      BY <1>6 DEF NewFile, Recorded, Leftover
  <2>2. Debt!2
      BY <2>1 DEF Debt, Publishing
  <2>3. Here \notin Recording
      BY <2>1, HereUnrecorded
  <2>4. before.dst[Here] = None
      BY <1>0, <2>1, <2>2, <2>3
  <2>5. before.bak[Here][pid] # None => bak[Here][pid] # None
      BY <1>0, <2>1 DEF Kept
  <2>. QED BY <1>0, <2>1, <2>2, <2>3, <2>4, <2>5 DEF Debt, Recording
<1>7. CASE _publish_single_file \/ MoveCopy
  <2>1. /\ bp \in {"publish", "copied"} /\ UNCHANGED <<var, backups, newly, bak, before, pid>>
        /\ bp' # "rollback"
        /\ dst' = [dst EXCEPT ![Here] = Build]
      BY <1>7 DEF _publish_single_file, MoveCopy, NextEntry
  <2>2. Debt!2 /\ Here \in Recording
      BY <2>1 DEF Debt, Publishing, Progress
  <2>3. \A s \in Slots \ Recording : dst'[s] = dst[s]
      BY <1>0, <2>1, <2>2
  <2>. QED BY <2>1, <2>2, <2>3 DEF Debt, Recording
<1>8. CASE CopyBeside
    BY <1>8 DEF CopyBeside, Debt, Recording, Publishing
<1>9. CASE _cleanup_backups
    BY <1>9 DEF _cleanup_backups, Debt, Publishing
<1>10. CASE _rollback_published
  <2>1. /\ bp = "rollback" /\ UNCHANGED <<var, before, pid, hit>>
      BY <1>10 DEF _rollback_published
  <2>2. Debt!2 /\ RecordSet!2
      BY <2>1 DEF Debt, RecordSet
  <2>3. CASE \E s \in newly : /\ dst' = [dst EXCEPT ![s] = None] /\ newly' = newly \ {s}
                              /\ UNCHANGED <<bak, backups, bp>>
    <3>1. PICK s \in newly : /\ dst' = [dst EXCEPT ![s] = None] /\ newly' = newly \ {s}
                             /\ UNCHANGED <<bak, backups, bp>>
        BY <2>3
    <3>2. dst'[s] = before.dst[s] /\ \A r \in Slots : r # s => dst'[r] = dst[r]
        BY <1>0, <2>2, <3>1
    <3>. QED BY <1>0, <2>1, <2>2, <3>1, <3>2 DEF Debt, Recording
  <2>4. CASE /\ newly = {} /\ backups # <<>> /\ UNCHANGED <<newly, bp>> /\ backups' = Front(backups)
             /\ LET s == Last(backups)
                IN  IF bak[s][pid] # None
                    THEN dst' = [dst EXCEPT ![s] = bak[s][pid]] /\ bak' = [bak EXCEPT ![s][pid] = None]
                    ELSE UNCHANGED <<dst, bak>>
    <3> DEFINE s == Last(backups)
    <3>1. s \in Range(backups) /\ s \in Slots /\ Range(backups') = Range(backups) \ {s}
        BY <1>0, <2>2, <2>4, FrontFacts
    <3>2. before.dst[s] # None /\ bak[s][pid] = before.dst[s]
        BY <2>2, <3>1
    <3>3. dst' = [dst EXCEPT ![s] = bak[s][pid]] /\ bak' = [bak EXCEPT ![s][pid] = None]
        BY <2>4, <3>2
    <3> HIDE DEF s
    <3>4. dst'[s] = before.dst[s] /\ \A r \in Slots : r # s => dst'[r] = dst[r] /\ bak'[r] = bak[r]
        BY <1>0, <3>1, <3>2, <3>3 DEF Numbered
    <3>5. \A r \in Range(backups') : r \in Slots /\ r # s /\ bak'[r] = bak[r]
      <4>1. Range(backups) \subseteq Slots
          BY <1>0 DEF Range
      <4>. QED BY <3>1, <3>4, <4>1
    <3>. QED BY <1>0, <2>1, <2>2, <2>4, <3>1, <3>4, <3>5 DEF Debt, Recording
  <2>5. CASE bp' = Onward
      BY <2>5 DEF Debt, Publishing
  <2>. QED BY <1>10, <2>3, <2>4, <2>5 DEF _rollback_published
<1>11. CASE _clean_zerotts_build_workspace
    BY <1>11 DEF _clean_zerotts_build_workspace, Debt, Publishing
<1>. QED BY <1>1, <1>2, <1>3, <1>4, <1>5, <1>6, <1>7, <1>8, <1>9, <1>10, <1>11, NextCases

\* Files are published one after another.
LEMMA ProgressKept ==
  ASSUME PublishTypes, RecordSet, Debt, Progress, PublishNext
  PROVE  Progress'
<1>0. /\ dst \in [Slots -> 0..Build] /\ bak \in Numbered(Build - 1) /\ pid \in Pids
      /\ Here \in Slots /\ backups \in Seq(Slots)
    BY BuildKept DEF PublishTypes
<1>a. bp # "off" => Build' = Build
    BY BuildKept
<1> USE DEF At, Go, publishing, target, builder, history, Onward, Mine
<1>1. CASE Elsewhere \/ StartBuild \/ _cleanup_backups \/ _rollback_published
           \/ _clean_zerotts_build_workspace
  <2>1. bp' \notin Publishing
      BY <1>1, ElsewherePhases DEF StartBuild, _cleanup_backups, _rollback_published,
           _clean_zerotts_build_workspace, Publishing
  <2>. QED BY <2>1 DEF Progress
<1>2. CASE _verify_library_loadable
  <2>1. bp' = "backup" /\ entry' = 1 /\ Recording' = {}
      BY <1>2, NothingRecorded DEF _verify_library_loadable, Fresh, Recording
  <2>2. \A i \in Indices : ~ (i < 1)
      BY MainComesLast DEF Indices
  <2>. QED BY <2>1, <2>2 DEF Progress
<1>3. CASE BackUp
  <2>1. /\ bp = "backup" /\ bp' = "backed" /\ UNCHANGED <<var, entry, newly, backups, before, pid>>
        /\ dst' = [dst EXCEPT ![Here] = None] /\ bak' = [bak EXCEPT ![Here][pid] = dst[Here]] /\ dst[Here] # None
      BY <1>3 DEF BackUp
  <2>2. Here \notin Recording /\ Here' = Here /\ Recording' = Recording /\ Build' = Build
      BY <1>a, <2>1, HereUnrecorded DEF Here, Recording
  <2>3. Debt!2 /\ Progress!2
      BY <2>1 DEF Debt, Publishing, Progress
  <2>4. before.dst[Here] = dst[Here]
      BY <1>0, <2>1, <2>2, <2>3, BuildKept
  <2>5. dst'[Here] = None /\ bak'[Here][pid] = dst[Here] /\ \A s \in Slots : s # Here => dst'[s] = dst[s]
      BY <1>0, <2>1 DEF Numbered
  <2>6. \A i \in Indices : i < entry => Slot(i) # Here /\ Slot(i) \in Slots
      BY PositionFacts
  <2>7. \A i \in Indices : i < entry => dst'[Slot(i)] = Build
      BY <2>3, <2>5, <2>6
  <2>. QED BY <2>1, <2>2, <2>3, <2>4, <2>5, <2>7 DEF Progress, Slot, Here
<1>4. CASE Note
  <2>1. /\ bp = "backed" /\ bp' = "publish" /\ UNCHANGED <<var, entry, newly, dst>>
        /\ backups' = Append(backups, Here)
      BY <1>4 DEF Note
  <2>2. Recording' = Recording \cup {Here} /\ Here' = Here /\ Build' = Build
    <3>1. Range(backups') = Range(backups) \cup {Here}
        BY <1>0, <2>1, AppendFacts
    <3>. QED BY <1>a, <2>1, <3>1 DEF Recording, Here
  <2>3. Progress!2
      BY <2>1 DEF Publishing, Progress
  <2>. QED BY <2>1, <2>2, <2>3, PositionFacts DEF Progress, Slot
<1>5. CASE NewFile
  <2>1. /\ bp = "backup" /\ bp' = "publish" /\ UNCHANGED <<var, entry, backups, dst>>
        /\ newly' = newly \cup {Here}
      BY <1>5 DEF NewFile, Recorded
  <2>2. Recording' = Recording \cup {Here} /\ Here' = Here /\ Build' = Build
      BY <1>a, <2>1 DEF Recording, Here
  <2>3. Progress!2
      BY <2>1 DEF Publishing, Progress
  <2>. QED BY <2>1, <2>2, <2>3, PositionFacts DEF Progress, Slot
<1>6. CASE _publish_single_file \/ MoveCopy
  <2>1. /\ bp \in {"publish", "copied"} /\ UNCHANGED <<var, backups, newly>>
        /\ \/ bp' = "backup" /\ entry' = entry + 1
           \/ bp' = "clean"
      BY <1>6 DEF _publish_single_file, MoveCopy, NextEntry
  <2>2. Progress!2
      BY <2>1 DEF Publishing, Progress
  <2>3. dst' = [dst EXCEPT ![Here] = Build]
      BY <1>6 DEF _publish_single_file, MoveCopy
  <2>4. Recording' = Recording /\ Build' = Build
      BY <1>a, <2>1 DEF Recording
  <2>5. \A i \in Indices : i < entry + 1 => i < entry \/ i = entry
      BY PositionFacts
  <2>6. \A i \in Indices : i < entry + 1 => dst'[Slot(i)] = Build
      BY <1>0, <2>2, <2>3, <2>5, PositionFacts
  <2>7. \A i \in Indices : i < entry \/ i = entry => i < entry + 1
      BY PositionFacts
  <2>. QED BY <2>1, <2>2, <2>4, <2>6, <2>7 DEF Progress, Slot, Publishing
<1>7. CASE CopyBeside
  <2>1. /\ bp = "publish" /\ bp' = "copied" /\ UNCHANGED <<var, entry, backups, newly, dst>>
      BY <1>7 DEF CopyBeside
  <2>2. Recording' = Recording /\ Here' = Here /\ Build' = Build
      BY <1>a, <2>1 DEF Recording, Here
  <2>3. Progress!2
      BY <2>1 DEF Publishing, Progress
  <2>. QED BY <2>1, <2>2, <2>3 DEF Progress, Slot
<1>. QED BY <1>1, <1>2, <1>3, <1>4, <1>5, <1>6, <1>7, NextCases

\* Whichever file of the variant that is published changes, the other variants stay as they are.
LEMMA OthersStay ==
  ASSUME PublishTypes, Build' = Build, UNCHANGED <<var, before>>,
         \A s \in Slots : s[1] # Variants[var] => dst'[s] = dst[s]
  PROVE  \A i \in DOMAIN Variants :
           i # var => /\ Same(Variants[i]) => Same(Variants[i])'
                      /\ Whole(Variants[i]) => Whole(Variants[i])'
<1>1. var \in DOMAIN Variants
    BY DEF PublishTypes
<1>2. \A i \in DOMAIN Variants, n \in Names :
        i # var => dst'[<<Variants[i], n>>] = dst[<<Variants[i], n>>]
    BY <1>1, SlotFacts
<1>. QED BY <1>2 DEF Same, Whole

\* Variants are built one after another.
LEMMA BuiltKept ==
  ASSUME PublishTypes, RecordSet, Debt, Progress, Built, Quarantined, PublishNext
  PROVE  Built'
<1>0. /\ dst \in [Slots -> 0..Build] /\ Here \in Slots /\ Here[1] = Variants[var]
      /\ backups \in Seq(Slots) /\ newly \subseteq Slots /\ var \in DOMAIN Variants
      /\ DOMAIN Variants = 1..Len(Variants) /\ Len(Variants) \in Nat
    BY BuildKept, SlotFacts DEF PublishTypes
<1>a. bp # "off" => Build' = Build
    BY BuildKept
<1>b. \A i \in DOMAIN Variants : (i < var \/ i = var \/ i > var) /\ ~ (i < i)
    BY <1>0
<1>c. bp \in {"checkout", "spawned", "compile"} => \A i \in DOMAIN Variants : Same(Variants[i]) \/ Whole(Variants[i])
    BY DEF Built, OtherLibraries
<1> USE DEF At, Go, publishing, target, builder, history, Onward
<1>1. CASE Elsewhere
  <2>1. /\ UNCHANGED <<var, dst, before, all>> /\ Build' = Build
      BY <1>1, <1>a, ElsewhereFacts DEF FilesStay
  <2>2. \A i \in DOMAIN Variants : /\ Same(Variants[i])' <=> Same(Variants[i])
                                   /\ Whole(Variants[i])' <=> Whole(Variants[i])
      BY <2>1 DEF Same, Whole
  <2>a. Alone' /\ (OtherLibraries => OtherLibraries')
      BY <2>1, <2>2 DEF Built, Alone, OtherLibraries
  <2>3. CASE _quarantine_stale_variants
      BY <2>1, <2>2, <2>a, <2>3 DEF _quarantine_stale_variants, Built, Publishing
  <2>4. CASE _checkout_repo
    <3>1. \A i \in DOMAIN Variants : ~ (i < 1)
        BY <1>0
    <3>2. bp = "quarantine" /\ bp' = "checkout"
        BY <2>4 DEF _checkout_repo
    <3>3. OtherLibraries
        BY <3>1, <3>2 DEF Built, OtherLibraries
    <3>. QED BY <1>0, <2>1, <2>2, <2>a, <3>2, <3>3 DEF Built, Publishing
  <2>5. CASE LinkCompat
      BY <2>1, <2>2, <2>a, <2>5 DEF LinkCompat, Built, Publishing
  <2>6. CASE _cleanup_quarantined_variants
      BY <2>1, <2>2, <2>a, <2>6 DEF _cleanup_quarantined_variants, Built, Publishing
  <2>7. CASE _restore_quarantined_variants
      BY <2>1, <2>2, <2>a, <2>7 DEF _restore_quarantined_variants, Built, Publishing
  <2>8. CASE _compile_libraries \/ _run_cmake_build
    <3>1. /\ bp \in {"checkout", "spawned", "compile"} /\ bp' \in {"spawned", "compile"}
        BY <2>8 DEF _compile_libraries, _run_cmake_build
    <3>2. OtherLibraries /\ Same(Variants[var])
        BY <3>1 DEF Built
    <3>. QED BY <1>0, <2>1, <2>2, <2>a, <3>1, <3>2 DEF Built, Publishing
  <2>9. CASE CompileStopped
    <3>1. bp = "compile" /\ bp' \in {"restore", "failed"}
        BY <2>9 DEF CompileStopped
    <3>. QED BY <1>c, <2>2, <2>a, <3>1 DEF Built, Publishing
  <2>10. CASE Fault
    <3>0. hit' = hit \cup {bp} /\ bp' = Recovery /\ bp \notin Ended
        BY <2>10 DEF Fault, Hit
    <3>1. CASE bp \in Publishing
      <4>1. bp' = "rollback" /\ OtherLibraries
          BY <3>0, <3>1 DEF Recovery, Publishing, Built
      <4>. QED BY <2>a, <4>1 DEF Built, Publishing
    <3>2. CASE bp = "quarantine"
        BY <2>2, <2>a, <3>0, <3>2 DEF Recovery, Built, Publishing
    <3>3. CASE bp = "rollback"
        BY <2>a, <3>0, <3>3 DEF Recovery, Built, Publishing
    <3>4. CASE bp \in {"restore"}
        BY <2>2, <2>a, <3>0, <3>4 DEF Recovery, Built, Publishing
    <3>5. CASE bp \in {"checkout", "spawned"}
      <4>1. bp' \in {"restore", "failed"}
          BY <3>0, <3>5 DEF Recovery, Publishing
      <4>. QED BY <1>c, <2>2, <2>a, <3>5, <4>1 DEF Built, Publishing
    <3>6. CASE bp \in {"compat", "purge"}
      <4>1. bp' \in {"restore", "failed"}
          BY <3>0, <3>6 DEF Recovery, Publishing
      <4>. QED BY <2>2, <2>a, <3>6, <4>1 DEF Built, Publishing
    <3>7. CASE bp = "clean"
      <4>1. bp' \in {"restore", "failed"}
          BY <3>0, <3>7 DEF Recovery, Publishing
      <4>2. \A i \in DOMAIN Variants : Same(Variants[i]) \/ Whole(Variants[i])
          BY <3>7 DEF Built, OtherLibraries
      <4>. QED BY <2>2, <2>a, <4>1, <4>2 DEF Built, Publishing
    <3>8. bp \in Phases /\ bp # "compile"
        BY <2>10 DEF PublishTypes, Fault
    <3>. QED BY <3>0, <3>1, <3>2, <3>3, <3>4, <3>5, <3>6, <3>7, <3>8 DEF Phases, Building
  <2>11. CASE Kill \/ EndBuild
      BY <2>a, <2>11 DEF Kill, EndBuild, Built, Publishing
  <2>. QED BY <1>1, <2>3, <2>4, <2>5, <2>6, <2>7, <2>8, <2>9, <2>10, <2>11 DEF Elsewhere
<1>2. CASE StartBuild
  <2>1. /\ bp' \in {"quarantine", "checkout"} /\ before'.dst = dst /\ dst' = dst
        /\ bp' = "quarantine" => var' = 1
      BY <1>2 DEF StartBuild
  <2>2. \A i \in DOMAIN Variants : Same(Variants[i])'
      BY <2>1 DEF Same
  <2>3. var' \in DOMAIN Variants
      BY <1>2, SlotFacts DEF StartBuild
  <2>4. bp' = "checkout" => ~all'
      BY <1>2 DEF StartBuild
  <2>. QED BY <1>2, <2>1, <2>2, <2>3, <2>4 DEF StartBuild, Built, Alone, OtherLibraries, Publishing
<1>3. CASE _verify_library_loadable \/ Note \/ NewFile \/ CopyBeside
  <2>1. /\ UNCHANGED <<var, dst, before, all>> /\ Build' = Build
        /\ bp \in {"compile", "backed", "backup", "publish"} /\ bp' \in Publishing
      BY <1>3, <1>a DEF _verify_library_loadable, Note, NewFile, CopyBeside, Publishing
  <2>2. \A i \in DOMAIN Variants : /\ Same(Variants[i])' <=> Same(Variants[i])
                                   /\ Whole(Variants[i])' <=> Whole(Variants[i])
      BY <2>1 DEF Same, Whole
  <2>3. Alone /\ OtherLibraries
      BY <2>1 DEF Built, Publishing
  <2>4. Alone' /\ OtherLibraries'
      BY <2>1, <2>2, <2>3 DEF Alone, OtherLibraries
  <2>. QED BY <2>1, <2>4 DEF Built, Publishing
<1>4. CASE BackUp \/ _publish_single_file \/ MoveCopy
  <2>1. /\ UNCHANGED <<var, before, all>> /\ Build' = Build
        /\ bp \in Publishing /\ bp' \in Publishing \cup {"clean"}
        /\ \E b \in {None, Build} : dst' = [dst EXCEPT ![Here] = b]
      BY <1>4, <1>a DEF BackUp, _publish_single_file, MoveCopy, NextEntry, Publishing
  <2>2. \A s \in Slots : s[1] # Variants[var] => dst'[s] = dst[s]
      BY <1>0, <2>1
  <2>3. \A i \in DOMAIN Variants :
           i # var => /\ Same(Variants[i]) => Same(Variants[i])'
                      /\ Whole(Variants[i]) => Whole(Variants[i])'
      BY <2>1, <2>2, OthersStay
  <2>4. Alone /\ OtherLibraries
      BY <2>1 DEF Built, Publishing
  <2>5. Alone' /\ OtherLibraries'
      BY <2>1, <2>3, <2>4 DEF Alone, OtherLibraries
  <2>6. ASSUME bp' = "clean" PROVE Whole(Variants[var])'
    <3>1. ~(entry < 3) /\ ~BackUp
        BY <1>4, <2>1, <2>6, PositionFacts DEF BackUp, _publish_single_file, MoveCopy, NextEntry, Publishing
    <3>2. entry = 3 /\ \A i \in Indices : i < entry \/ i = entry
        BY <3>1, PositionFacts
    <3>3. \A i \in Indices : i < entry => dst[Slot(i)] = Build
        BY <2>1 DEF Progress
    <3>4. dst' = [dst EXCEPT ![Here] = Build]
        BY <1>4, <3>1 DEF _publish_single_file, MoveCopy
    <3>5. \A i \in Indices : dst'[Slot(i)] = Build
        BY <1>0, <3>2, <3>3, <3>4, PositionFacts
    <3>6. \A n \in Names : dst'[<<Variants[var], n>>] = Build
        BY <3>5, PositionFacts
    <3>. QED BY <2>1, <3>6 DEF Whole
  <2>. QED BY <2>1, <2>5, <2>6 DEF Built, Publishing
<1>5. CASE _cleanup_backups
  <2>1. UNCHANGED <<dst, before, all>> /\ Build' = Build /\ bp = "clean"
      BY <1>5, <1>a DEF _cleanup_backups
  <2>2. \A i \in DOMAIN Variants : /\ Same(Variants[i])' <=> Same(Variants[i])
                                   /\ Whole(Variants[i])' <=> Whole(Variants[i])
      BY <2>1 DEF Same, Whole
  <2>3. Alone /\ OtherLibraries /\ Whole(Variants[var])
      BY <2>1 DEF Built
  <2>4. CASE var' = var /\ bp' = bp
    <3>1. Alone' /\ OtherLibraries' /\ Whole(Variants[var])'
        BY <1>0, <2>1, <2>2, <2>3, <2>4 DEF Alone, OtherLibraries
    <3>. QED BY <2>1, <2>4, <3>1 DEF Built, Publishing
  <2>5. CASE all /\ var < Len(Variants) /\ bp' = "checkout" /\ var' = var + 1
    <3>1. var + 1 \in DOMAIN Variants /\ var + 1 > var /\ ~ (var + 1 < var) /\ var + 1 # var
        BY <1>0, <2>5
    <3>2. \A i \in DOMAIN Variants : /\ i < var + 1 => i < var \/ i = var
                                     /\ i # var + 1 /\ ~ (i < var + 1) => i # var /\ ~ (i < var)
        BY <1>0
    <3>3. Same(Variants[var + 1])
        BY <2>3, <3>1 DEF OtherLibraries
    <3>4. OtherLibraries'
        BY <2>1, <2>2, <2>3, <2>5, <3>2 DEF OtherLibraries
    <3>. QED BY <2>1, <2>2, <2>5, <3>1, <3>3, <3>4 DEF Built, Alone, Publishing
  <2>6. CASE all /\ ~ (var < Len(Variants)) /\ bp' = "compat"
    <3>1. \A i \in DOMAIN Variants : i < var \/ i = var
        BY <1>0, <2>6
    <3>2. \A i \in DOMAIN Variants : Whole(Variants[i])'
        BY <1>b, <2>2, <2>3, <2>6, <3>1 DEF OtherLibraries
    <3>. QED BY <2>1, <2>6, <3>2 DEF Built, Alone, Publishing
  <2>7. CASE ~all /\ bp' = "done" /\ var' = var
      BY <2>1, <2>2, <2>3, <2>7 DEF Built, Alone, Publishing
  <2>. QED BY <1>5, <2>4, <2>5, <2>6, <2>7 DEF _cleanup_backups
<1>6. CASE _rollback_published
  <2>1. /\ UNCHANGED <<var, before, hit, all>> /\ Build' = Build /\ bp = "rollback"
        /\ bp' = "rollback" \/ (bp' \in {"restore", "failed"} /\ newly = {} /\ backups = <<>> /\ dst' = dst)
        /\ dst' = dst \/ (\E s \in Recording : \E b \in {None, Mine(s)} : dst' = [dst EXCEPT ![s] = b])
    <3>1. backups # <<>> => Last(backups) \in Range(backups)
        BY <1>0, FrontFacts
    <3>. QED BY <1>6, <1>a, <3>1 DEF _rollback_published, Recording
  <2>2. \A s \in Slots : s[1] # Variants[var] => dst'[s] = dst[s]
      BY <1>0, <2>1 DEF RecordSet
  <2>3. \A i \in DOMAIN Variants :
           i # var => /\ Same(Variants[i]) => Same(Variants[i])'
                      /\ Whole(Variants[i]) => Whole(Variants[i])'
      BY <2>1, <2>2, OthersStay
  <2>4. Alone /\ OtherLibraries
      BY <2>1 DEF Built
  <2>5. Alone' /\ OtherLibraries'
      BY <2>1, <2>3, <2>4 DEF Alone, OtherLibraries
  <2>6. ASSUME bp' \in {"restore", "failed"}, "backed" \notin hit PROVE Same(Variants[var])'
    <3>1. Recording = {} /\ dst' = dst
        BY <2>1, <2>6, NothingRecorded DEF Recording
    <3>2. \A n \in Names : <<Variants[var], n>> \in Slots
        BY <1>0, SlotFacts
    <3>3. \A n \in Names : dst[<<Variants[var], n>>] = before.dst[<<Variants[var], n>>]
        BY <2>1, <2>6, <3>1, <3>2 DEF Debt
    <3>. QED BY <2>1, <3>1, <3>3 DEF Same
  <2>7. CASE bp' = "rollback"
      BY <2>5, <2>7 DEF Built, Publishing
  <2>8. CASE bp' \in {"restore", "failed"}
    <3>1. ASSUME hit' \cap {"backed", "rollback"} = {}, NEW i \in DOMAIN Variants
          PROVE  Same(Variants[i])' \/ Whole(Variants[i])'
        BY <2>1, <2>5, <2>6, <2>8, <3>1 DEF OtherLibraries
    <3>. QED BY <2>5, <2>8, <3>1 DEF Built, Publishing
  <2>. QED BY <2>1, <2>7, <2>8
<1>7. CASE _clean_zerotts_build_workspace
  <2>1. bp' = "cleaned" /\ UNCHANGED <<var, before, all>> /\ ~all /\ bp # "off"
      BY <1>7 DEF _clean_zerotts_build_workspace, Ended
  <2>2. \A s \in Slots : s[1] # Variants[var] => dst'[s] = dst[s]
      BY <1>7 DEF _clean_zerotts_build_workspace
  <2>3. Alone'
      BY <1>a, <2>1, <2>2, OthersStay DEF Built, Alone
  <2>. QED BY <2>1, <2>3 DEF Built, Publishing
<1>. QED BY <1>1, <1>2, <1>3, <1>4, <1>5, <1>6, <1>7, NextCases

\* What was put aside stays aside until it is decided.
LEMMA QuarantinedKept ==
  ASSUME PublishTypes, Quarantined, PublishNext
  PROVE  Quarantined'
<1>0. /\ place \in Places /\ aside \subseteq Unsupported /\ torn \subseteq Unsupported /\ bp \in Phases
      /\ pid \in Pids /\ pid # "there" /\ pid # "gone" /\ all \in BOOLEAN
      /\ DOMAIN place = Unsupported /\ before.place \in Places
    BY SlotFacts DEF PublishTypes, Places
<1> USE DEF At, Go, publishing, target, variants, builder, history, Onward
<1>1. CASE StartBuild
  <2>1. /\ UNCHANGED <<place, torn>> /\ before'.place = place /\ before'.torn = torn /\ aside' = {}
        /\ bp' \in {"quarantine", "checkout"}
        /\ bp' = "quarantine" => all'
      BY <1>1 DEF StartBuild
  <2>. QED BY <2>1 DEF Quarantined, QuarantineUndone, Untouched
<1>2. CASE _quarantine_stale_variants
  <2>1. PICK u \in Unsupported :
          /\ place[u] = "there"
          /\ place' = [place EXCEPT ![u] = pid] /\ aside' = aside \cup {u}
      BY <1>2 DEF _quarantine_stale_variants
  <2>2. bp = "quarantine" /\ UNCHANGED <<bp, torn, before, pid, all>>
      BY <1>2 DEF _quarantine_stale_variants
  <2>3. /\ all /\ torn = before.torn
        /\ \A v \in Unsupported : Sidelined(v) \/ (v \notin aside /\ Untouched(v))
      BY <2>2 DEF Quarantined, Building
  <2>4. before.place[u] = "there"
      BY <1>0, <2>1, <2>3 DEF Sidelined, Untouched, Back
  <2>5. \A v \in Unsupported : Sidelined(v)' \/ (v \notin aside' /\ Untouched(v)')
      BY <1>0, <2>1, <2>2, <2>3, <2>4 DEF Sidelined, Untouched, Back
  <2>. QED BY <2>2, <2>3, <2>5 DEF Quarantined, QuarantineUndone
<1>3. ASSUME bp \in Building \ {"purge", "restore"}, UNCHANGED <<place, torn, aside, before, pid, all>>,
             bp' \in Building \ {"quarantine", "restore", "purge", "compat"}
      PROVE  Quarantined'
    BY <1>3 DEF Quarantined, QuarantineUndone, Sidelined, Untouched, Back, Building, Publishing
<1>4. ASSUME bp \in Building \ {"purge", "restore"}, UNCHANGED <<place, torn, aside, before, pid, all>>,
             bp' \in {"purge", "compat"}, all
      PROVE  Quarantined'
  <2>1. torn = before.torn /\ \A u \in Unsupported : Sidelined(u) \/ (u \notin aside /\ Untouched(u))
      BY <1>4 DEF Quarantined
  <2>2. \A u \in aside : place[u] \in {"gone", pid}
      BY <1>0, <2>1 DEF Sidelined
  <2>3. \A u \in Unsupported : Sidelined(u)' \/ (u \notin aside' /\ Untouched(u)')
      BY <1>4, <2>1 DEF Sidelined, Untouched, Back
  <2>. QED BY <1>4, <2>1, <2>2, <2>3 DEF Quarantined, QuarantineUndone, Building, Publishing
<1>5. ASSUME bp \in Building \ {"purge", "restore"}, UNCHANGED <<place, torn, aside, before, pid, all>>,
             bp' = Onward
      PROVE  Quarantined'
  <2>1. torn = before.torn /\ \A u \in Unsupported : Sidelined(u) \/ (u \notin aside /\ Untouched(u))
      BY <1>5 DEF Quarantined
  <2>2. CASE all
      BY <1>0, <1>5, <2>1, <2>2 DEF Quarantined, QuarantineUndone, Sidelined, Untouched, Back, Building, Publishing
  <2>3. CASE ~all
    <3>1. aside = {} /\ \A u \in Unsupported : place[u] = before.place[u]
        BY <2>1, <2>3 DEF Quarantined, Sidelined, Untouched, Back
    <3>2. place = before.place
        BY <1>0, <3>1 DEF Places
    <3>. QED BY <1>5, <2>1, <2>3, <3>1, <3>2 DEF Quarantined, QuarantineUndone, Building, Publishing
  <2>. QED BY <2>2, <2>3
<1>6. CASE _checkout_repo \/ _compile_libraries \/ _run_cmake_build \/ _verify_library_loadable
           \/ BackUp \/ Note \/ NewFile \/ _publish_single_file \/ CopyBeside \/ MoveCopy
  <2>1. /\ bp \in Building \ {"purge", "restore"} /\ UNCHANGED <<place, torn, aside, before, pid, all>>
        /\ bp' \in Building \ {"quarantine", "restore", "purge", "compat"}
      BY <1>6 DEF _checkout_repo, _compile_libraries, _run_cmake_build, _verify_library_loadable,
           BackUp, Note, NewFile, _publish_single_file, CopyBeside, MoveCopy, NextEntry, Building,
           Publishing
  <2>. QED BY <1>3, <2>1
<1>7. CASE LinkCompat
  <2>1. /\ bp = "compat" /\ UNCHANGED <<place, torn, aside, before, pid, all>> /\ bp' \in {"purge", "compat"}
      BY <1>7 DEF LinkCompat
  <2>2. bp \in Building \ {"purge", "restore"} /\ all
      BY <2>1 DEF Building, Quarantined
  <2>. QED BY <1>4, <2>1, <2>2
<1>8. CASE CompileStopped
  <2>1. /\ bp \in Building \ {"purge", "restore"} /\ UNCHANGED <<place, torn, aside, before, pid, all>>
        /\ bp' = Onward
      BY <1>8 DEF CompileStopped, Building
  <2>. QED BY <1>5, <2>1
<1>9. CASE _cleanup_backups
  <2>1. bp = "clean" /\ UNCHANGED <<place, torn, aside, before, pid, all>>
      BY <1>9 DEF _cleanup_backups
  <2>2. bp \in Building \ {"purge", "restore"}
      BY <2>1 DEF Building
  <2>3. CASE bp' \in {"clean", "checkout"}
      BY <1>3, <2>1, <2>2, <2>3 DEF Building, Publishing
  <2>4. CASE all /\ bp' = "compat"
      BY <1>4, <2>1, <2>2, <2>4
  <2>5. CASE ~all /\ bp' = "done"
      BY <2>1, <2>5 DEF Quarantined, QuarantineUndone, Building, Publishing
  <2>6. bp' \in {"clean", "checkout"} \/ (all /\ bp' = "compat") \/ (~all /\ bp' = "done")
      BY <1>9 DEF _cleanup_backups
  <2>. QED BY <2>3, <2>4, <2>5, <2>6
<1>10. CASE _rollback_published
  <2>1. bp = "rollback" /\ UNCHANGED <<place, torn, aside, before, pid, all>> /\ bp' \in {"rollback", Onward}
      BY <1>10 DEF _rollback_published
  <2>2. bp \in Building \ {"purge", "restore"}
      BY <2>1 DEF Building
  <2>3. CASE bp' = "rollback"
      BY <1>3, <2>1, <2>2, <2>3 DEF Building
  <2>4. CASE bp' = Onward
      BY <1>5, <2>1, <2>2, <2>4
  <2>. QED BY <2>1, <2>3, <2>4
<1>11. CASE _cleanup_quarantined_variants
  <2>1. bp = "purge" /\ UNCHANGED <<aside, before, pid, all>>
      BY <1>11 DEF _cleanup_quarantined_variants
  <2>2. all /\ \A u \in aside : place[u] \in {"gone", pid}
      BY <2>1 DEF Quarantined
  <2>3. CASE bp' = bp
    <3>1. place' = place \/ \E u \in Unsupported : place' = [place EXCEPT ![u] = "gone"]
        BY <1>0, <1>11, <2>1, <2>3 DEF _cleanup_quarantined_variants, Waiting
    <3>2. \A u \in aside : place'[u] \in {"gone", pid}
        BY <1>0, <2>2, <3>1
    <3>. QED BY <2>1, <2>2, <2>3, <3>2 DEF Quarantined, QuarantineUndone, Building, Publishing
  <2>4. CASE bp' = "done"
    <3>1. place' = place /\ (Waiting = {} \/ "purge" \in hit')
        BY <1>11, <2>1, <2>4 DEF _cleanup_quarantined_variants, Hit
    <3>2. "purge" \notin hit' => \A u \in aside : place[u] = "gone"
        BY <2>2, <3>1 DEF Waiting
    <3>. QED BY <2>1, <2>2, <2>4, <3>1, <3>2 DEF Quarantined, QuarantineUndone, Building, Publishing
  <2>. QED BY <1>11, <2>1, <2>3, <2>4 DEF _cleanup_quarantined_variants
<1>12. CASE _restore_quarantined_variants
  <2>1. bp = "restore" /\ UNCHANGED <<torn, aside, before, hit, pid, all>>
      BY <1>12 DEF _restore_quarantined_variants
  <2>2. /\ all /\ \A u \in aside : place[u] \in {"there", "gone", pid}
        /\ "purge" \notin hit =>
             torn = before.torn /\ \A u \in Unsupported : Sidelined(u) \/ Back(u)
      BY <2>1 DEF Quarantined
  <2>3. CASE \E u \in Waiting : place' = [place EXCEPT ![u] = "there"] /\ bp' = bp
    <3>1. PICK u \in Waiting : place' = [place EXCEPT ![u] = "there"] /\ bp' = bp
        BY <2>3
    <3>2. u \in aside /\ u \in Unsupported /\ place[u] = pid
        BY <1>0, <3>1 DEF Waiting
    <3>3. place'[u] = "there" /\ \A v \in Unsupported : v # u => place'[v] = place[v]
        BY <1>0, <3>1, <3>2
    <3>4. \A v \in aside : place'[v] \in {"there", "gone", pid}
        BY <1>0, <2>2, <3>3
    <3>5. ASSUME "purge" \notin hit, NEW v \in Unsupported PROVE Sidelined(v)' \/ Back(v)'
      <4>1. CASE v = u
        <5>1. before.place[u] \in {"there", pid}
            BY <2>2, <3>2, <3>5 DEF Sidelined, Untouched, Back
        <5>2. CASE before.place[u] = "there"
            BY <2>1, <3>3, <4>1, <5>2 DEF Untouched, Back
        <5>. QED BY <2>2, <3>2, <3>5, <5>1, <5>2 DEF Sidelined, Untouched, Back
      <4>2. CASE v # u
          BY <2>1, <2>2, <3>3, <3>5, <4>2 DEF Sidelined, Untouched, Back
      <4>. QED BY <4>1, <4>2
    <3>. QED BY <2>1, <2>2, <3>1, <3>4, <3>5 DEF Quarantined, QuarantineUndone, Building, Publishing
  <2>4. CASE Waiting = {} /\ place' = place /\ bp' = "failed"
    <3>1. \A u \in aside : place[u] \in {"there", "gone"}
        BY <2>2, <2>4 DEF Waiting
    <3>2. ASSUME "purge" \notin hit PROVE place = before.place /\ torn = before.torn
      <4>1. \A u \in Unsupported : place[u] = before.place[u]
          BY <2>2, <2>4, <3>2 DEF Sidelined, Untouched, Back, Waiting
      <4>. QED BY <1>0, <2>2, <3>2, <4>1 DEF Places
    <3>. QED BY <2>1, <2>2, <2>4, <3>1, <3>2 DEF Quarantined, QuarantineUndone, Building, Publishing
  <2>. QED BY <1>12, <2>3, <2>4 DEF _restore_quarantined_variants, Restores
<1>13. CASE Fault
  <2>1. /\ UNCHANGED <<place, torn, aside, before, pid, all>> /\ bp \notin Ended /\ bp # "compile"
        /\ bp' = Recovery /\ hit' = hit \cup {bp}
      BY <1>13 DEF Fault, Hit
  <2>2. CASE bp \in {"quarantine", "restore"}
      BY <2>1, <2>2 DEF Recovery, Quarantined, QuarantineUndone, Building, Publishing
  <2>3. CASE bp \in Publishing
    <3>1. bp' = "rollback" /\ bp \in Building \ {"purge", "restore"}
        BY <2>1, <2>3 DEF Recovery, Publishing, Building
    <3>. QED BY <1>3, <2>1, <3>1 DEF Building
  <2>4. CASE bp = "purge"
    <3>1. all /\ bp' = "restore" /\ \A u \in aside : place[u] \in {"gone", pid}
        BY <2>1, <2>4 DEF Recovery, Publishing, Quarantined
    <3>. QED BY <2>1, <2>4, <3>1 DEF Quarantined, QuarantineUndone, Building, Publishing
  <2>5. CASE bp \in {"checkout", "spawned", "clean", "rollback", "compat"}
    <3>1. bp' = Onward /\ bp \in Building \ {"purge", "restore"}
        BY <2>1, <2>5 DEF Recovery, Publishing, Building
    <3>. QED BY <1>5, <2>1, <3>1
  <2>. QED BY <1>0, <2>1, <2>2, <2>3, <2>4, <2>5 DEF Phases, Building
<1>14. CASE Kill \/ EndBuild
  <2>1. bp' \in {"killed", "off"} /\ aside' = aside /\ all' = all
      BY <1>14 DEF Kill, EndBuild
  <2>. QED BY <2>1 DEF Quarantined, QuarantineUndone, Building, Publishing
<1>15. CASE _clean_zerotts_build_workspace
  <2>1. bp' = "cleaned" /\ aside' = aside /\ all' = all
      BY <1>15 DEF _clean_zerotts_build_workspace
  <2>. QED BY <2>1 DEF Quarantined, QuarantineUndone, Building, Publishing
<1>. QED BY <1>1, <1>2, <1>6, <1>7, <1>8, <1>9, <1>10, <1>11, <1>12, <1>13, <1>14, <1>15 DEF PublishNext

\* The process tree ends with the compilation.
LEMMA TreeEndsKept ==
  ASSUME PublishTypes, TreeEnds, PublishNext
  PROVE  TreeEnds'
<1> USE DEF TreeEnds, At, Go, publishing, target, builder, history, Onward, Hit
<1>1. CASE StartBuild \/ _quarantine_stale_variants \/ _checkout_repo \/ LinkCompat
           \/ _cleanup_quarantined_variants \/ _restore_quarantined_variants
    BY <1>1 DEF StartBuild, _quarantine_stale_variants, _checkout_repo, LinkCompat,
         _cleanup_quarantined_variants, _restore_quarantined_variants
<1>2. CASE _compile_libraries \/ _run_cmake_build \/ _verify_library_loadable \/ CompileStopped
    BY <1>2 DEF _compile_libraries, _run_cmake_build, _verify_library_loadable, CompileStopped,
         _terminate_cmake_process_tree
<1>3. CASE Fault
    BY <1>3 DEF Fault, Recovery, Publishing, Ended
<1>4. CASE Kill \/ EndBuild \/ _clean_zerotts_build_workspace
    BY <1>4 DEF Kill, EndBuild, _clean_zerotts_build_workspace
<1>5. CASE BackUp \/ Note \/ NewFile \/ _publish_single_file \/ CopyBeside \/ MoveCopy
    BY <1>5 DEF BackUp, Note, NewFile, _publish_single_file, CopyBeside, MoveCopy
<1>6. CASE _cleanup_backups \/ _rollback_published
    BY <1>6 DEF _cleanup_backups, _rollback_published
<1>. QED BY <1>1, <1>2, <1>3, <1>4, <1>5, <1>6 DEF PublishNext

-------------------------------------------------------------------------------
(* LibraryPublish: what follows.                                           *)

\* The invariant holds at first.
LEMMA PublishInitially == PublishInit => PublishInv
<1> SUFFICES ASSUME PublishInit PROVE PublishInv
    OBVIOUS
<1> USE DEF PublishInit
<1>1. PublishTypes
  <2>1. more \in [builds : 0..MaxBuilds, faults : 0..MaxFaults] /\ Build = 1
      BY SlotFacts DEF Build
  <2>2. dst \in [Slots -> 0..1] /\ tmp = {} /\ bak \in Numbered(0)
      BY DEF None, Numbered
  <2>3. bp = "off" /\ bp \in Phases /\ var = 1 /\ 1 \in DOMAIN Variants /\ entry = 1 /\ 1 \in Indices
      BY SlotFacts, MainComesLast DEF Phases, Ended, Indices
  <2>4. backups \in Seq(Slots) /\ newly \subseteq Slots /\ aside \subseteq Unsupported
      OBVIOUS
  <2>5. place \in Places /\ torn \subseteq Unsupported
    <3>1. place \in [Unsupported -> {"there", "gone"}] /\ torn = {}
        OBVIOUS
    <3>. QED BY <3>1 DEF Places
  <2>6. compat \in BOOLEAN /\ tree \in {"none", "runs", "stubborn"} /\ pid \in Pids /\ all \in BOOLEAN
      OBVIOUS
  <2>7. before = [dst |-> dst, bak |-> bak, place |-> place, torn |-> torn]
      OBVIOUS
  <2> HIDE DEF PublishInit
  <2>8. before \in [dst : [Slots -> 0..Build], bak : Numbered(Build - 1), place : Places,
                    torn : SUBSET Unsupported]
      BY <2>1, <2>2, <2>5, <2>7
  <2>. QED BY <2>1, <2>2, <2>3, <2>4, <2>5, <2>6, <2>8 DEF PublishTypes
<1>2. Kept /\ AbortRestores /\ RecordSet /\ Debt /\ Progress
  <2>1. bp = "off" /\ before = [dst |-> dst, bak |-> bak, place |-> place, torn |-> torn]
      OBVIOUS
  <2>. QED BY <2>1 DEF Kept, Mine, AbortRestores, RecordSet, Debt, Progress, Publishing, At
<1>3. Built /\ Quarantined /\ TreeEnds
    BY DEF Built, Alone, Quarantined, QuarantineUndone, TreeEnds, At, Publishing, Building
<1>. QED BY <1>1, <1>2, <1>3 DEF PublishInv

\* Every step keeps the invariant.
LEMMA PublishStep == PublishInv /\ [PublishNext]_publish_vars => PublishInv'
<1> SUFFICES ASSUME PublishInv, [PublishNext]_publish_vars PROVE PublishInv'
    OBVIOUS
<1>1. CASE PublishNext
    BY <1>1, TypesKept, KeptKept, AbortKept, RecordKept, DebtKept, ProgressKept, BuiltKept,
       QuarantinedKept, TreeEndsKept, Zenon DEF PublishInv
<1>2. CASE UNCHANGED publish_vars
  <2> USE <1>2 DEF publish_vars, target, variants, builder, publishing, history
  <2>1. PublishTypes'
      BY DEF PublishInv, PublishTypes, Build, Phases, Building, Publishing, Ended, Indices, Numbered, Places
  <2>2. Kept' /\ AbortRestores' /\ RecordSet' /\ Debt' /\ Progress'
      BY DEF PublishInv, Kept, Mine, AbortRestores, At, RecordSet, Debt, Progress, Slot, Here,
         Recording, Build, Indices
  <2>3. Built' /\ Quarantined' /\ TreeEnds'
      BY DEF PublishInv, Built, Alone, OtherLibraries, Same, Whole, Build, Quarantined, Sidelined, Untouched, Back,
         QuarantineUndone, At, TreeEnds
  <2>. QED BY <2>1, <2>2, <2>3 DEF PublishInv
<1>. QED BY <1>1, <1>2

\* The invariant always holds.
LEMMA PublishInvariant == PublishSpec => []PublishInv
BY PublishInitially, PublishStep, PTL DEF PublishSpec

\* What is promised of states follows from it.
LEMMA InvariantTells ==
  ASSUME PublishInv
  PROVE  /\ PublishTypeOK /\ LibrariesThere /\ AbortRestores
         /\ RolledBack /\ NoOrphans /\ QuarantineUndone
<1>0. /\ dst \in [Slots -> 0..Build] /\ bak \in Numbered(Build - 1) /\ tmp \subseteq Slots \X Pids
      /\ backups \in Seq(Slots) /\ Build \in Nat \ {0} /\ Build <= MaxBuilds + 1 /\ MaxBuilds \in Nat
    BY BuildKept, SlotFacts DEF PublishInv, PublishTypes
<1>1. PublishTypeOK
  <2>0. \A s \in Slots : bak[s] \in [Pids -> 0..Build - 1]
      BY <1>0 DEF Numbered
  <2>1. /\ \A s \in Slots : dst[s] \in None..MaxBuilds + 1
        /\ \A s \in Slots, p \in Pids : bak[s][p] \in None..MaxBuilds + 1
      BY <1>0, <2>0 DEF None
  <2>2. DOMAIN dst = Slots /\ DOMAIN bak = Slots /\ \A s \in Slots : DOMAIN bak[s] = Pids
      BY <1>0, <2>0 DEF Numbered
  <2>3. Range(backups) \subseteq Slots
      BY <1>0 DEF Range
  <2>4. bp \in Publishing \cup {"clean", "rollback"} =>
          \A s \in Range(backups) \cup newly : s[1] = Variants[var]
      BY DEF PublishInv, RecordSet, Recording
  <2>5. /\ place \in [Unsupported -> {"there", "gone"} \cup Pids] /\ compat \in BOOLEAN
        /\ tree \in {"none", "runs", "stubborn"} /\ pid \in Pids /\ all \in BOOLEAN
        /\ newly \subseteq Slots /\ aside \subseteq Unsupported /\ torn \subseteq Unsupported
      BY DEF PublishInv, PublishTypes, Places
  <2>6. {dst[s] : s \in Slots} \subseteq None..MaxBuilds + 1
      BY <2>1, Zenon
  <2>7. UNION {{bak[s][p] : p \in Pids} : s \in Slots} \subseteq None..MaxBuilds + 1
    <3>1. SUFFICES ASSUME NEW r \in {{bak[s][p] : p \in Pids} : s \in Slots}, NEW x \in r
                   PROVE  x \in None..MaxBuilds + 1
        OBVIOUS
    <3>2. PICK s \in Slots : r = {bak[s][p] : p \in Pids}
        OBVIOUS
    <3>. QED BY <2>1, <3>2
  <2>8. {dst[s] : s \in Slots} \cup UNION {{bak[s][p] : p \in Pids} : s \in Slots} \subseteq None..MaxBuilds + 1
      BY <2>6, <2>7, Zenon
  <2>9. Range(backups) \cup newly \subseteq Slots /\ aside \cup torn \subseteq Unsupported
      BY <2>3, <2>5
  <2>. QED BY <1>0, <2>2, <2>4, <2>5, <2>8, <2>9, Zenon DEF PublishTypeOK
<1>4. LibrariesThere
  <2>1. pid \in Pids /\ Kept
      BY DEF PublishInv, PublishTypes
  <2>. QED BY <2>1 DEF LibrariesThere, Kept, Mine
<1>2. RolledBack
    BY SlotFacts DEF PublishInv, Built, Same, Whole, RolledBack, At
<1>3. NoOrphans
    BY DEF PublishInv, TreeEnds, NoOrphans, Publishing
<1>. QED BY <1>1, <1>2, <1>3, <1>4 DEF PublishInv, Quarantined

\* So does what is promised of steps: the main library is new only with all the others.
LEMMA MainLastStep ==
  ASSUME PublishInv, [PublishNext]_publish_vars,
         NEW v \in Range(Variants), dst[<<v, Main>>] # Build, dst'[<<v, Main>>] = Build
  PROVE  \A n \in Names : dst'[<<v, n>>] = Build
<1>0. /\ dst \in [Slots -> 0..Build] /\ bak \in Numbered(Build - 1) /\ pid \in Pids /\ Build \in Nat \ {0}
      /\ Here \in Slots /\ <<v, Main>> \in Slots /\ Main \in Names /\ backups \in Seq(Slots)
  <2>1. Main \in Names
      BY DEF Names, Staged
  <2>. QED BY <2>1, BuildKept, SlotFacts DEF PublishInv, PublishTypes
<1>1. dst' # dst
    OBVIOUS
<1>2. CASE _publish_single_file \/ MoveCopy
  <2>1. bp \in {"publish", "copied"}
      BY <1>2 DEF _publish_single_file, MoveCopy, At
  <2>2. dst' = [dst EXCEPT ![Here] = Build]
      BY <1>2 DEF _publish_single_file, MoveCopy
  <2>3. Here = <<v, Main>>
      BY <1>0, <2>2
  <2>4. v = Variants[var] /\ entry = 3
      BY <2>3, MainComesLast, PositionFacts DEF PublishInv, Here
  <2>5. \A i \in Indices : i < entry => dst[Slot(i)] = Build
      BY <2>1 DEF PublishInv, Progress, Publishing
  <2>6. \A i \in Indices : i < entry \/ i = entry
      BY <2>4, PositionFacts DEF PublishInv
  <2>7. \A i \in Indices : dst'[Slot(i)] = Build
      BY <1>0, <2>2, <2>5, <2>6, PositionFacts DEF PublishInv
  <2>. QED BY <2>4, <2>7, PositionFacts DEF PublishInv
<1>3. CASE BackUp \/ _rollback_published \/ _clean_zerotts_build_workspace
  <2>1. \A s \in Slots : dst'[s] = Build => dst[s] = Build
    <3>1. 0 # Build /\ \A s \in Slots : Mine(s) # Build
        BY <1>0 DEF Numbered, Mine
    <3>2. CASE BackUp
        BY <1>0, <3>1, <3>2 DEF BackUp, None
    <3>3. CASE _rollback_published
      <4>1. dst' = dst \/ \E s \in Slots : \E b \in {None, Mine(s)} : dst' = [dst EXCEPT ![s] = b]
        <5>1. backups # <<>> => Last(backups) \in Slots
            BY <1>0, FrontFacts
        <5>2. newly \subseteq Slots
            BY DEF PublishInv, PublishTypes
        <5>. QED BY <3>3, <5>1, <5>2 DEF _rollback_published
      <4>. QED BY <1>0, <3>1, <4>1 DEF None
    <3>4. CASE _clean_zerotts_build_workspace
        BY <1>0, <3>1, <3>4 DEF _clean_zerotts_build_workspace, _restore_or_remove_rollback
    <3>. QED BY <1>3, <3>2, <3>3, <3>4
  <2>. QED BY <1>0, <2>1
<1>4. CASE UNCHANGED publish_vars \/ Elsewhere
    BY <1>1, <1>4, ElsewhereFacts DEF publish_vars, target, FilesStay
<1>5. CASE StartBuild \/ _verify_library_loadable \/ Note \/ NewFile \/ CopyBeside \/ _cleanup_backups
    BY <1>1, <1>5 DEF StartBuild, _verify_library_loadable, Note, NewFile, CopyBeside,
         _cleanup_backups, target
<1>. QED BY <1>2, <1>3, <1>4, <1>5, NextCases

\* A build replaces the libraries of a variant together or gives back those it found, through
\* failures, signals, kills and rebuilds (build_all_zerotts_variants, _publish_libraries,
\* _rollback_published, _clean_zerotts_build_workspace).
THEOREM LibrariesAreKept == PublishSpec => LibrariesKept
<1>1. PublishInv => /\ PublishTypeOK /\ LibrariesThere /\ AbortRestores
                    /\ RolledBack /\ NoOrphans /\ QuarantineUndone
    BY InvariantTells
<1>2. PublishInv /\ [PublishNext]_publish_vars =>
        [\A v \in Range(Variants) :
           dst[<<v, Main>>] # Build /\ dst'[<<v, Main>>] = Build
             => \A n \in Names : dst'[<<v, n>>] = Build]_publish_vars
    BY MainLastStep
<1>. QED BY PublishInvariant, <1>1, <1>2, PTL DEF LibrariesKept, MainLast, PublishSpec

-------------------------------------------------------------------------------
(* PinUpdate: the inductive invariant.                                     *)

Both == DOMAIN FileOf
Comparing == {"voices", "revision", "tree", "zrevision", "ztree", "bundled", "plan", "refused"}
Writing == {"write", "replace", "undo"}

PinTypes ==
  /\ published \in [SttPins \cup ZeroPins \cup NghiPins -> Digests]
  /\ \A c \in NghiPins : published[c] \in 1..4
  /\ head \in [{"stt", "zero", "nghi"} -> {1, 2}]
  /\ \A f \in Both : pins[f] \in [FileOf[f] -> 1..4] /\ orig[f] \in [FileOf[f] -> 1..4]
  /\ pins = [f \in Both |-> pins[f]] /\ orig = [f \in Both |-> orig[f]]
  /\ meta \in [Both -> {"kept", "fresh", "unknown"}] /\ tempf \in [Both -> BOOLEAN]
  /\ hash \in BOOLEAN /\ failures \subseteq Both
  /\ up \in Comparing \cup Writing \cup {"done", "failed", "interrupted"}

\* What was seen by now, and of which revision.
SeenBy(step) ==
  CASE step = "revision"  -> NghiPins
    [] step = "tree"      -> NghiPins \cup {"srev"}
    [] step = "zrevision" -> NghiPins \cup {"srev"} \cup SttPins
    [] step = "ztree"     -> NghiPins \cup {"srev", "zrev"} \cup SttPins
    [] step = "bundled"   -> NghiPins \cup {"srev", "zrev"} \cup SttPins \cup ZeroPins
    [] OTHER               -> NghiPins \cup {"srev", "zrev", "codec"} \cup SttPins \cup ZeroPins
Seen ==
  /\ up = "voices" => DOMAIN seen \subseteq NghiPins
  /\ up \notin {"voices", "refused"} => DOMAIN seen = SeenBy(up)
  /\ \A c \in DOMAIN seen :
       /\ c \in NghiPins => seen[c] \in 0..4
       /\ c \in {"srev", "zrev"} => seen[c] \in {1, 2}
       /\ c \in SttPins => seen[c] \in {Unknown, DigestAt(c, seen["srev"])}
       /\ c \in ZeroPins => seen[c] \in {Unknown, DigestAt(c, seen["zrev"])}
       /\ c = "codec" => seen[c] \in {Unknown, orig.tts.codec}

\* The pins of a revision go with it.
OfTheirRevision(p) ==
  /\ \A c \in SttPins : p.stt[c] = DigestAt(c, p.stt.srev)
  /\ \A c \in ZeroPins : p.tts[c] = DigestAt(c, p.tts.zrev)
Coherent == OfTheirRevision(orig) /\ RevisionCoherent /\ pins.tts.codec = orig.tts.codec

\* The update is refused.
Unplannable == \/ Blocked("stt", "stt") \/ Blocked("tts", "zero")
               \/ _update_nghitts_voices_in_content.failed

\* What is written by now: the files are written in their order, and undone from the last.
Written == IF up = "replace" THEN Range(Front(saved)) ELSE Range(saved)
AsWritten ==
  /\ saved \in Seq(Both)
  /\ up \notin Comparing =>
       Len(saved) <= Len(ToWrite) /\ \A i \in DOMAIN saved : saved[i] = ToWrite[i]
  /\ up \in Comparing => saved = <<>> /\ pins = orig /\ failures = {} /\ \A f \in Both : meta[f] # "fresh"
  /\ up \in Writing \cup {"done"} => ~Unplannable
  /\ up \in {"write", "replace", "done"} =>
       /\ failures = {}
       /\ \A f \in Written : pins[f] = NewPins[f]
       /\ \A f \in Both \ Written : pins[f] = orig[f] /\ meta[f] # "fresh"
  /\ up = "replace" => saved # <<>> /\ tempf[Last(saved)]
  /\ up = "done" => Len(saved) = Len(ToWrite)
  /\ up \in {"undo", "failed"} =>
       \A f \in Both \ (failures \cup Range(saved)) : pins[f] = orig[f] /\ meta[f] # "fresh"
  /\ up = "failed" => saved = <<>>

PinInv == PinTypes /\ Seen /\ Coherent /\ AsWritten

-------------------------------------------------------------------------------
(* PinUpdate: its operators and its plan.                                  *)

\* The constants of the configurations.
LEMMA ConstantFacts ==
  /\ Configs = {"configA", "configS", "configB", "configT"} /\ Constants = {"common", "south"}
  /\ \A c \in Configs : ConstantOf[c] \in Constants
BY DEF Configs, ConstantOf, Constants

\* The two files and their pins.
LEMMA FileFacts ==
  /\ Both = {"stt", "tts"} /\ Range(Files) = Both
  /\ FileOf["stt"] = {"encoder", "srev"}
  /\ FileOf["tts"] = {"gguf", "config", "zvoice", "zrev", "codec", "modelA", "common", "south"}
  /\ RevOf["stt"] = "srev" /\ RevOf["zero"] = "zrev"
  /\ RepoPins["stt"] = SttPins /\ RepoPins["zero"] = ZeroPins
<1>1. Both = {"stt", "tts"}
    BY DEF Both, FileOf
<1>2. /\ FileOf["stt"] = SttPins \cup {"srev"}
      /\ FileOf["tts"] = ZeroPins \cup {"zrev", "codec", "modelA"} \cup Constants
      /\ RevOf["stt"] = "srev" /\ RevOf["zero"] = "zrev"
      /\ RepoPins["stt"] = SttPins /\ RepoPins["zero"] = ZeroPins
    BY DEF FileOf, RevOf, RepoPins
<1>3. Range(Files) = Both
  <2>1. Range(Files) = {Files[1], Files[2]}
    <3>1. DOMAIN Files = {1, 2}
        BY DEF Files
    <3>. QED BY <3>1 DEF Range
  <2>. QED BY <1>1, <2>1 DEF Files
<1>. QED BY <1>1, <1>2, <1>3, ConstantFacts DEF SttPins, ZeroPins

\* The files are written in their order, each of those that change once.
LEMMA ToWriteFacts ==
  ToWrite \in Seq(Both) /\ IsInjective(ToWrite) /\ Range(ToWrite) = Stale /\ Stale \subseteq Both
<1> DEFINE choices == {<<>>, <<Files[1]>>, <<Files[2]>>, Files}
<1>1. Files[1] = "stt" /\ Files[2] = "tts" /\ Files = <<"stt", "tts">>
    BY DEF Files
<1>2. /\ Range(<<>>) = {} /\ Range(<<"stt">>) = {"stt"} /\ Range(<<"tts">>) = {"tts"}
      /\ Range(Files) = {"stt", "tts"}
  <2>1. Range(<<>>) = {} /\ Range(<<"stt">>) = {"stt"} /\ Range(<<"tts">>) = {"tts"}
      BY DEF Range
  <2>. QED BY <2>1, FileFacts
<1>3. Stale \subseteq {"stt", "tts"} /\ Stale \subseteq Both
    BY FileFacts DEF Stale
<1>4. Stale = {} \/ Stale = {"stt"} \/ Stale = {"tts"} \/ Stale = {"stt", "tts"}
    BY <1>3
<1>5. \E files \in choices : Range(files) = Stale
    BY <1>1, <1>2, <1>4
<1>6. \A files \in choices : files \in Seq(Both) /\ IsInjective(files)
  <2>1. <<>> \in Seq(Both) /\ <<"stt">> \in Seq(Both) /\ <<"tts">> \in Seq(Both) /\ Files \in Seq(Both)
      BY <1>1, FileFacts
  <2>2. IsInjective(<<>>) /\ IsInjective(<<"stt">>) /\ IsInjective(<<"tts">>)
      BY DEF IsInjective
  <2>3. IsInjective(Files)
      BY <1>1 DEF IsInjective
  <2>. QED BY <1>1, <2>1, <2>2, <2>3
<1>7. ToWrite \in choices /\ Range(ToWrite) = Stale
  <2>1. ToWrite = CHOOSE files \in choices : Range(files) = Stale
      BY DEF ToWrite
  <2> HIDE DEF choices
  <2>. QED BY <1>5, <2>1
<1>. QED BY <1>3, <1>6, <1>7

-------------------------------------------------------------------------------
(* PinUpdate: the constants that the voices share.                         *)

\* A voice's configuration has changed.
Wants(c) == Changed("tts", ConstantOf[c], seen[c])

\* A voice got its digest, or the other constant stands for it.
Met(u, c) ==
  \/ u.held[ConstantOf[c]] = seen[c]
  \/ \E other \in Constants \ {ConstantOf[c]} :
       \/ seen[c] \in {orig.tts[other], u.held[other]}
       \/ other \in u.updated /\ u.held[other] = orig.tts[ConstantOf[c]]

\* The text, when the voices of some configurations were gone through.
Pinned(u, gone) ==
  \/ u.failed
  \/ /\ u.held \in [Constants -> 1..4] /\ u.updated \subseteq Constants
     /\ u.updated # {} => orig.tts["common"] # orig.tts["south"]
     /\ \A k \in Constants \ u.updated : u.held[k] = orig.tts[k]
     /\ \A k \in u.updated : \E c \in gone : ConstantOf[c] = k /\ Wants(c) /\ u.held[k] = seen[c]
     /\ \A c \in gone : Wants(c) => ConstantOf[c] \in u.updated /\ Met(u, c)

\* One voice more.
LEMMA PinnedOn ==
  ASSUME NEW u, NEW gone \in SUBSET Configs, NEW c \in Configs, Pinned(u, gone),
         seen[c] \in 0..4, \A k \in Constants : orig.tts[k] \in 1..4
  PROVE  Pinned(_update_nghitts_config_pin(u, c), gone \cup {c})
<1> DEFINE k     == ConstantOf[c]
           v     == _update_nghitts_config_pin(u, c)
           found == Holders(u, orig.tts[k])
           given == [held    |-> [x \in Constants |-> IF x \in found THEN seen[c] ELSE u.held[x]],
                     updated |-> u.updated \cup found,
                     failed  |-> u.failed \/ found \in {{}, Constants}]
           settled == \/ ~Wants(c)
                      \/ found = {} /\ AlreadyUpdated(u, seen[c])
                      \/ found \notin {{}, Constants} /\ found \subseteq u.updated
<1>1. Wants(c) <=> seen[c] \notin {Gone, Unknown} /\ seen[c] # orig.tts[k]
    BY DEF Wants, Changed, Local
<1>2. v = IF settled THEN u ELSE given
    BY DEF _update_nghitts_config_pin, Wants, Local
<1>3. k \in Constants /\ Constants = {"common", "south"} /\ \A d \in Configs : ConstantOf[d] \in Constants
    BY ConstantFacts
<1>4. found = {x \in Constants : u.held[x] = orig.tts[k]}
    BY DEF Holders
<1>5. /\ given.held = [y \in Constants |-> IF y \in found THEN seen[c] ELSE u.held[y]]
      /\ given.updated = u.updated \cup found
      /\ given.failed = (u.failed \/ found \in {{}, Constants})
    OBVIOUS
<1> HIDE DEF k, found, v, given
<1>6. CASE u.failed \/ (~settled /\ found \in {{}, Constants})
  <2>1. v.failed
      BY <1>2, <1>5, <1>6, Zenon
  <2>. QED BY <2>1 DEF Pinned, v
<1>7. CASE ~u.failed /\ (settled \/ found \notin {{}, Constants})
  <2>1. /\ u.held \in [Constants -> 1..4] /\ u.updated \subseteq Constants
        /\ u.updated # {} => orig.tts["common"] # orig.tts["south"]
        /\ \A x \in Constants \ u.updated : u.held[x] = orig.tts[x]
        /\ \A x \in u.updated : \E d \in gone : ConstantOf[d] = x /\ Wants(d) /\ u.held[x] = seen[d]
        /\ \A d \in gone : Wants(d) => ConstantOf[d] \in u.updated /\ Met(u, d)
      BY <1>7 DEF Pinned
  <2>2. \A x \in u.updated : u.held[x] # orig.tts[x]
      BY <2>1 DEF Wants, Changed, Local
  <2>3. CASE settled
    <3>0. v = u
        BY <1>2, <2>3
    <3>1. Wants(c) => k \in u.updated /\ Met(u, c)
      <4> SUFFICES ASSUME Wants(c) PROVE k \in u.updated /\ Met(u, c)
          OBVIOUS
      <4>1. CASE found = {} /\ AlreadyUpdated(u, seen[c])
        <5>1. k \in u.updated
            BY <1>3, <1>4, <2>1, <4>1
        <5>2. PICK x \in Constants : u.held[x] = seen[c]
            BY <4>1 DEF AlreadyUpdated, Holders
        <5>. QED BY <5>1, <5>2 DEF Met, k
      <4>2. CASE found \notin {{}, Constants} /\ found \subseteq u.updated
        <5>1. k \notin found
            BY <1>3, <1>4, <2>2, <4>2
        <5>2. PICK x \in found : x \in u.updated /\ x \in Constants \ {k} /\ u.held[x] = orig.tts[k]
            BY <1>3, <1>4, <4>2, <5>1
        <5>3. k \in u.updated
            BY <1>3, <1>4, <2>1, <5>1
        <5>. QED BY <5>2, <5>3 DEF Met, k
      <4>. QED BY <2>3, <4>1, <4>2
    <3>2. /\ \A x \in u.updated : \E d \in gone \cup {c} :
               ConstantOf[d] = x /\ Wants(d) /\ u.held[x] = seen[d]
          /\ \A d \in gone \cup {c} : Wants(d) => ConstantOf[d] \in u.updated /\ Met(u, d)
        BY <2>1, <3>1 DEF k
    <3>. QED BY <2>1, <3>0, <3>2 DEF Pinned, v
  <2>4. CASE ~settled
    <3>1. /\ v = given /\ Wants(c) /\ found \notin {{}, Constants} /\ ~(found \subseteq u.updated)
        BY <1>2, <1>7, <2>4
    <3>2. PICK x \in found : x \notin u.updated
        BY <3>1
    <3>3. x = k /\ found = {k} /\ k \notin u.updated
      <4>1. x \in Constants /\ u.held[x] = orig.tts[x] /\ orig.tts[x] = orig.tts[k]
          BY <1>4, <2>1, <3>2
      <4>2. found # Constants /\ found \subseteq Constants
          BY <1>4, <3>1
      <4>3. x = k
        <5> SUFFICES ASSUME x # k PROVE FALSE
            OBVIOUS
        <5>1. orig.tts["common"] = orig.tts["south"] /\ Constants = {x, k}
            BY <1>3, <4>1
        <5>2. k \notin u.updated
            BY <2>1, <5>1
        <5>3. u.held[k] = orig.tts[k]
            BY <1>3, <2>1, <5>2
        <5>. QED BY <1>3, <1>4, <3>2, <4>2, <5>1, <5>3
      <4>4. found = {k}
          BY <1>3, <1>4, <3>2, <4>2, <4>3
      <4>. QED BY <3>2, <4>3, <4>4
    <3>4. /\ v.held = [y \in Constants |-> IF y \in found THEN seen[c] ELSE u.held[y]]
          /\ v.updated = u.updated \cup {k}
        BY <1>5, <3>1, <3>3
    <3>5. /\ v.held[k] = seen[c] /\ \A y \in Constants \ {k} : v.held[y] = u.held[y]
          /\ v.held \in [Constants -> 1..4]
      <4>1. seen[c] \in 1..4
          BY <1>1, <3>1 DEF Unknown
      <4>. QED BY <1>3, <2>1, <3>3, <3>4, <4>1
    <3>6. orig.tts["common"] # orig.tts["south"]
      <4> SUFFICES ASSUME u.updated = {} PROVE orig.tts["common"] # orig.tts["south"]
          BY <2>1
      <4>1. \A y \in Constants : u.held[y] = orig.tts[y]
          BY <2>1
      <4>. QED BY <1>3, <1>4, <3>1, <4>1
    <3>7. \A y \in v.updated : \E d \in gone \cup {c} :
            ConstantOf[d] = y /\ Wants(d) /\ v.held[y] = seen[d]
      <4>1. \A y \in u.updated : y \in Constants \ {k}
          BY <2>1, <3>3
      <4>2. \A y \in u.updated : \E d \in gone : ConstantOf[d] = y /\ Wants(d) /\ v.held[y] = seen[d]
          BY <2>1, <3>5, <4>1
      <4>. QED BY <3>1, <3>4, <3>5, <4>2 DEF k
    <3>8. ASSUME NEW d \in gone, Wants(d) PROVE ConstantOf[d] \in v.updated /\ Met(v, d)
      <4> DEFINE own == ConstantOf[d]
      <4>1. own \in u.updated /\ own \in Constants \ {k} /\ Met(u, d)
          BY <1>3, <2>1, <3>3, <3>8
      <4>2. CASE u.held[own] = seen[d]
          BY <3>4, <3>5, <4>1, <4>2 DEF Met
      <4>3. ASSUME NEW other \in Constants \ {own},
                   \/ seen[d] \in {orig.tts[other], u.held[other]}
                   \/ other \in u.updated /\ u.held[other] = orig.tts[own]
            PROVE  Met(v, d)
        <5>1. other = k /\ other \notin u.updated /\ u.held[other] = orig.tts[other]
            BY <1>3, <2>1, <3>3, <4>1, <4>3
        <5>. QED BY <4>3, <5>1 DEF Met
      <4>. QED BY <3>4, <4>1, <4>2, <4>3 DEF Met
    <3>9. ConstantOf[c] \in v.updated /\ Met(v, c)
        BY <3>4, <3>5 DEF Met, k
    <3>10. /\ \A y \in Constants \ v.updated : v.held[y] = orig.tts[y]
           /\ v.updated \subseteq Constants
        BY <1>3, <2>1, <3>4, <3>5
    <3>. QED BY <3>5, <3>6, <3>7, <3>8, <3>9, <3>10 DEF Pinned, v
  <2>. QED BY <2>3, <2>4
<1>. QED BY <1>6, <1>7

\* All of them.
LEMMA AllPinned ==
  ASSUME \A c \in Configs : seen[c] \in 0..4, \A k \in Constants : orig.tts[k] \in 1..4
  PROVE  Pinned(_update_nghitts_voices_in_content, Configs)
<1> DEFINE u == [held |-> [k \in Constants |-> Local("tts", k)], updated |-> {}, failed |-> FALSE]
           a == _update_nghitts_config_pin(u, "configA")
           s == _update_nghitts_config_pin(a, "configS")
           b == _update_nghitts_config_pin(s, "configB")
           t == _update_nghitts_config_pin(b, "configT")
<1>1. Pinned(u, {})
  <2>1. /\ u.held = [k \in Constants |-> orig.tts[k]] /\ u.updated = {}
      BY DEF Local
  <2> HIDE DEF u
  <2>2. \A k \in Constants : u.held[k] = orig.tts[k]
      BY <2>1
  <2>3. u.held \in [Constants -> 1..4]
      BY <2>1
  <2>. QED BY <2>1, <2>2, <2>3 DEF Pinned
<1>2. _update_nghitts_voices_in_content = t
    BY DEF _update_nghitts_voices_in_content
<1> HIDE DEF u
<1>3. Pinned(a, {"configA"})
  <2>1. Pinned(a, {} \cup {"configA"})
      BY <1>1, PinnedOn, ConstantFacts
  <2>2. {} \cup {"configA"} = {"configA"}
      OBVIOUS
  <2>. QED BY <2>1, <2>2
<1> HIDE DEF a
<1>4. Pinned(s, {"configA", "configS"})
  <2>1. Pinned(s, {"configA"} \cup {"configS"})
      BY <1>3, PinnedOn, ConstantFacts
  <2>2. {"configA"} \cup {"configS"} = {"configA", "configS"}
      OBVIOUS
  <2>. QED BY <2>1, <2>2
<1> HIDE DEF s
<1>5. Pinned(b, {"configA", "configS", "configB"})
  <2>1. Pinned(b, {"configA", "configS"} \cup {"configB"})
      BY <1>4, PinnedOn, ConstantFacts
  <2>2. {"configA", "configS"} \cup {"configB"} = {"configA", "configS", "configB"}
      OBVIOUS
  <2>. QED BY <2>1, <2>2
<1> HIDE DEF b
<1>6. Pinned(t, Configs)
  <2>1. Pinned(t, {"configA", "configS", "configB"} \cup {"configT"})
      BY <1>5, PinnedOn, ConstantFacts
  <2>2. {"configA", "configS", "configB"} \cup {"configT"} = Configs
      BY ConstantFacts
  <2>. QED BY <2>1, <2>2
<1>. QED BY <1>2, <1>6

-------------------------------------------------------------------------------
(* PinUpdate: the plan.                                                    *)

\* What an update that is not refused writes.
LEMMA PlanFacts ==
  ASSUME PinTypes, Seen, OfTheirRevision(orig), DOMAIN seen = SeenBy("plan"),
         ~Unplannable
  PROVE  /\ \A f \in Both : NewPins[f] \in [FileOf[f] -> 1..4]
         /\ OfTheirRevision(NewPins) /\ NewPins.tts.codec = orig.tts.codec
         /\ \A f \in Both : \A c \in FileOf[f] \ Constants :
              seen[c] \notin {Gone, Unknown} => NewPins[f][c] = seen[c]
         /\ NewPins.tts["common"] = _update_nghitts_voices_in_content.held["common"]
         /\ NewPins.tts["south"] = _update_nghitts_voices_in_content.held["south"]
         /\ Pinned(_update_nghitts_voices_in_content, Configs)
<1>0. DOMAIN seen = {"modelA", "configA", "configS", "configB", "configT", "srev", "zrev", "codec", "encoder",
                     "gguf", "config", "zvoice"}
    BY ConstantFacts DEF SeenBy, NghiPins, SttPins, ZeroPins
<1>1. /\ \A f \in Both : orig[f] \in [FileOf[f] -> 1..4]
      /\ \A f \in Both : \A c \in FileOf[f] : orig[f][c] \in 1..4
    BY DEF PinTypes
<1>2. /\ \A f \in Both : NewPins[f] = [c \in FileOf[f] |-> Updated(f, c)]
      /\ \A f \in Both : \A c \in FileOf[f] : NewPins[f][c] = Updated(f, c)
    BY DEF NewPins, Both
<1>3. /\ seen["modelA"] \in 0..4 /\ \A c \in Configs : seen[c] \in 0..4
      /\ seen["srev"] \in {1, 2} /\ seen["zrev"] \in {1, 2}
      /\ seen["encoder"] \in {0, DigestAt("encoder", seen["srev"])}
      /\ \A c \in ZeroPins : seen[c] \in {0, DigestAt(c, seen["zrev"])}
      /\ seen["codec"] \in {0, orig.tts.codec}
    BY <1>0, ConstantFacts DEF Seen, NghiPins, SttPins, ZeroPins, Unknown
<1>4. \A c \in SttPins \cup ZeroPins, r \in {1, 2} : DigestAt(c, r) \in -1..4
    BY DEF DigestAt, First, Digests, PinTypes, Gone, Unknown
<1>5. \A c \in FileOf["stt"] : c = "encoder" \/ c = "srev"
    BY FileFacts
<1>6. \A c \in FileOf["tts"] : c \in ZeroPins \/ c \in {"zrev", "codec", "modelA", "common", "south"}
    BY FileFacts DEF ZeroPins
<1>7. /\ Updated("stt", "srev") = seen["srev"] /\ Updated("tts", "zrev") = seen["zrev"]
      /\ \A k \in Constants : Updated("tts", k) = _update_nghitts_voices_in_content.held[k]
      /\ \A f \in Both : \A c \in (FileOf[f] \ ({"srev", "zrev"} \cup Constants)) :
           Updated(f, c) = IF Changed(f, c, seen[c]) THEN seen[c] ELSE orig[f][c]
    BY ConstantFacts DEF Updated, Local
<1>8. \A f, c, d : Changed(f, c, d) <=> d # -1 /\ d # 0 /\ d # orig[f][c]
    BY DEF Changed, Local, Gone, Unknown
<1>9. "stt" \in Both /\ "tts" \in Both /\ \A f \in Both : f = "stt" \/ f = "tts"
    BY FileFacts
<1>10. /\ seen["srev"] # orig.stt.srev => \A c \in SttPins : seen[c] # -1 /\ seen[c] # 0
       /\ seen["zrev"] # orig.tts.zrev => \A c \in ZeroPins : seen[c] # -1 /\ seen[c] # 0
    BY FileFacts DEF Unplannable, Blocked, Unresolved, Local, Gone, Unknown
<1>11. /\ Pinned(_update_nghitts_voices_in_content, Configs)
       /\ \A k \in Constants : _update_nghitts_voices_in_content.held[k] \in 1..4
  <2>1. \A k \in Constants : orig.tts[k] \in 1..4
      BY <1>1, <1>9, FileFacts, ConstantFacts
  <2>2. Pinned(_update_nghitts_voices_in_content, Configs)
      BY <1>3, <2>1, AllPinned
  <2>. QED BY <2>2 DEF Pinned, Unplannable
<1>12. \A f \in Both : \A c \in FileOf[f] : Updated(f, c) \in 1..4
  <2>1. \A c \in ZeroPins \cup {"codec", "modelA"} :
          c \in FileOf["tts"] \ ({"srev", "zrev"} \cup Constants) /\ seen[c] \in -1..4
    <3>1. orig.tts.codec \in 1..4
        BY <1>1, <1>9, FileFacts
    <3>. QED BY <1>3, <1>4, <3>1, FileFacts, ConstantFacts DEF ZeroPins
  <2>2. "encoder" \in FileOf["stt"] \ ({"srev", "zrev"} \cup Constants) /\ seen["encoder"] \in -1..4
      BY <1>3, <1>4, FileFacts, ConstantFacts DEF SttPins
  <2>3. \A c \in FileOf["tts"] : Updated("tts", c) \in 1..4
    <3>1. \A c \in ZeroPins \cup {"codec", "modelA"} : Updated("tts", c) \in 1..4
        BY <1>1, <1>7, <1>8, <1>9, <2>1
    <3>. QED BY <1>3, <1>6, <1>7, <1>11, <3>1, ConstantFacts
  <2>4. Updated("stt", "encoder") \in 1..4 /\ Updated("stt", "srev") \in 1..4
      BY <1>1, <1>3, <1>7, <1>8, <1>9, <2>2
  <2>. QED BY <1>5, <1>9, <2>3, <2>4
<1>13. OfTheirRevision(NewPins)
  <2>1. NewPins.stt.encoder = DigestAt("encoder", seen["srev"])
    <3>1. /\ NewPins.stt.encoder = Updated("stt", "encoder")
          /\ Updated("stt", "encoder") =
               IF Changed("stt", "encoder", seen["encoder"]) THEN seen["encoder"] ELSE orig.stt.encoder
        BY <1>2, <1>7, <1>9, FileFacts, ConstantFacts
    <3>2. orig.stt.encoder = DigestAt("encoder", orig.stt.srev) /\ "encoder" \in SttPins
        BY DEF OfTheirRevision, SttPins
    <3>3. orig.stt.encoder \in 1..4
        BY <1>1, <1>9, FileFacts
    <3>. QED BY <1>3, <1>8, <1>10, <3>1, <3>2, <3>3
  <2>2. ASSUME NEW c \in ZeroPins PROVE NewPins.tts[c] = DigestAt(c, seen["zrev"])
    <3>1. c \in FileOf["tts"] \ ({"srev", "zrev"} \cup Constants)
        BY FileFacts, ConstantFacts DEF ZeroPins
    <3>2. NewPins.tts[c] = IF Changed("tts", c, seen[c]) THEN seen[c] ELSE orig.tts[c]
        BY <1>2, <1>7, <1>9, <3>1
    <3>3. orig.tts[c] = DigestAt(c, orig.tts.zrev) /\ orig.tts[c] \in 1..4
        BY <1>1, <1>9, <3>1 DEF OfTheirRevision
    <3>. QED BY <1>3, <1>8, <1>10, <3>2, <3>3
  <2>3. NewPins.stt.srev = seen["srev"] /\ NewPins.tts.zrev = seen["zrev"]
      BY <1>2, <1>7, <1>9, FileFacts
  <2>. QED BY <2>1, <2>2, <2>3 DEF OfTheirRevision, SttPins
<1>14. NewPins.tts.codec = orig.tts.codec
  <2>1. "codec" \in FileOf["tts"] \ ({"srev", "zrev"} \cup Constants)
      BY FileFacts, ConstantFacts
  <2>. QED BY <1>2, <1>3, <1>7, <1>8, <1>9, <2>1
<1>15. \A f \in Both : \A c \in FileOf[f] \ Constants :
         seen[c] \notin {Gone, Unknown} => NewPins[f][c] = seen[c]
  <2> SUFFICES ASSUME NEW f \in Both, NEW c \in FileOf[f] \ Constants, seen[c] \notin {Gone, Unknown}
               PROVE  Updated(f, c) = seen[c]
      BY <1>2
  <2>1. CASE c \in {"srev", "zrev"}
      BY <2>1 DEF Updated
  <2>2. CASE c \notin {"srev", "zrev"}
      BY <1>7, <1>8, <2>2 DEF Gone, Unknown
  <2>. QED BY <2>1, <2>2
<1>16. /\ NewPins.tts["common"] = _update_nghitts_voices_in_content.held["common"]
       /\ NewPins.tts["south"] = _update_nghitts_voices_in_content.held["south"]
    BY <1>2, <1>7, <1>9, FileFacts, ConstantFacts
<1>. QED BY <1>2, <1>11, <1>12, <1>13, <1>14, <1>15, <1>16

-------------------------------------------------------------------------------
(* PinUpdate: every step keeps the invariant.                              *)

\* While what was seen and imported stays, so does what the update writes.
LEMMA PlanStays ==
  ASSUME UNCHANGED <<seen, orig>>
  PROVE  /\ NewPins' = NewPins /\ ToWrite' = ToWrite /\ Stale' = Stale
         /\ Unplannable' = Unplannable
<1>1. _update_nghitts_voices_in_content' = _update_nghitts_voices_in_content
  <2>1. \A u, c : _update_nghitts_config_pin(u, c)' = _update_nghitts_config_pin(u, c)
      BY DEF _update_nghitts_config_pin, Holders, AlreadyUpdated, Changed, Local
  <2>. QED BY <2>1 DEF _update_nghitts_voices_in_content, Local
<1>2. NewPins' = NewPins
    BY <1>1 DEF NewPins, Updated, Changed, Local
<1>3. Stale' = Stale
    BY <1>2 DEF Stale
<1>4. ToWrite' = ToWrite
    BY <1>3 DEF ToWrite
<1>5. Unplannable' = Unplannable
    BY <1>1 DEF Unplannable, Blocked, Local, Unresolved
<1>. QED BY <1>2, <1>3, <1>4, <1>5

Compare == HeadMoves \/ _remote_voice_artifacts \/ _remote_hf_revision \/ _remote_hf_tree_entries
           \/ _build_zerotts_artifact_comparison

\* The comparison changes no pin.
LEMMA CompareFacts ==
  Compare => /\ UNCHANGED <<published, asset, pin_disk, hash, saved, failures, orig, rerun, faults>>
             /\ up \in Comparing /\ up' \in Comparing
<1> USE DEF Comparing, UpTo, remote
<1>1. HeadMoves => /\ UNCHANGED <<published, asset, pin_disk, hash, saved, failures, orig, rerun, faults>>
                   /\ up \in Comparing /\ up' \in Comparing
    BY DEF HeadMoves
<1>2. _remote_voice_artifacts \/ _remote_hf_revision =>
        /\ UNCHANGED <<published, asset, pin_disk, hash, saved, failures, orig, rerun, faults>>
        /\ up \in Comparing /\ up' \in Comparing
    BY DEF _remote_voice_artifacts, _remote_hf_revision
<1>3. _remote_hf_tree_entries \/ _build_zerotts_artifact_comparison =>
        /\ UNCHANGED <<published, asset, pin_disk, hash, saved, failures, orig, rerun, faults>>
        /\ up \in Comparing /\ up' \in Comparing
    BY DEF _remote_hf_tree_entries, _build_zerotts_artifact_comparison
<1>. QED BY <1>1, <1>2, <1>3 DEF Compare

\* The steps, grouped.
LEMMA PinNextCases ==
  PinNext => \/ Compare \/ update_model_pins \/ _snapshot_file \/ _atomic_write_text \/ WriteFault
             \/ Interrupted \/ _rollback_single_file \/ UpdateEnds \/ RunAgain
BY DEF PinNext, Compare

\* A plan was made, of pins that can be had.
LEMMA Planned ==
  ASSUME PinInv, up \in Writing \cup {"done"}
  PROVE  /\ \A f \in Both : NewPins[f] \in [FileOf[f] -> 1..4]
         /\ OfTheirRevision(NewPins) /\ NewPins.tts.codec = orig.tts.codec
<1>1. DOMAIN seen = SeenBy("plan")
    BY DEF PinInv, Seen, SeenBy, Writing
<1>2. ~Unplannable
    BY DEF PinInv, AsWritten
<1>. QED BY <1>1, <1>2, PlanFacts DEF PinInv, Coherent

\* There is a file to write next.
LEMMA NextFile ==
  ASSUME PinInv, _snapshot_file
  PROVE  ToWrite[Len(saved) + 1] \in Both
<1>1. saved \in Seq(Both) /\ ToWrite \in Seq(Both) /\ Len(saved) < Len(ToWrite)
    BY ToWriteFacts DEF PinInv, AsWritten, _snapshot_file
<1>. QED BY <1>1

\* What was written last is one of the files.
LEMMA LastFile ==
  ASSUME PinInv, saved # <<>>
  PROVE  Last(saved) \in Both
BY FrontElements DEF PinInv, AsWritten

\* Every step keeps the types.
LEMMA PinTypesKept ==
  ASSUME PinInv, PinNext
  PROVE  PinTypes'
<1>0. PinTypes
    BY DEF PinInv
<1>a. DOMAIN pins = Both /\ DOMAIN orig = Both
    BY <1>0 DEF PinTypes
<1> USE DEF UpTo, remote, pin_disk
<1>1. CASE Compare
  <2>1. head' \in [{"stt", "zero", "nghi"} -> {1, 2}]
    <3>1. head' = head \/ \E repo \in DOMAIN head : head' = [head EXCEPT ![repo] = 2]
        BY <1>1 DEF Compare, HeadMoves, _remote_voice_artifacts, _remote_hf_revision,
             _remote_hf_tree_entries, _build_zerotts_artifact_comparison
    <3>. QED BY <1>0, <3>1 DEF PinTypes
  <2>. QED BY <1>0, <1>1, <2>1, CompareFacts DEF PinTypes
<1>2. CASE update_model_pins \/ UpdateEnds \/ Interrupted
    BY <1>0, <1>2 DEF PinTypes, update_model_pins, UpdateEnds, Interrupted, Comparing, Writing
<1>3. CASE _snapshot_file
  <2>1. ToWrite[Len(saved) + 1] \in Both
      BY <1>3, NextFile
  <2>. QED BY <1>0, <1>3, <2>1 DEF PinTypes, _snapshot_file, Writing
<1>4. CASE _atomic_write_text
  <2>1. Last(saved) \in Both /\ NewPins[Last(saved)] \in [FileOf[Last(saved)] -> 1..4]
    <3>1. up = "replace" /\ saved # <<>>
        BY <1>4 DEF PinInv, AsWritten, _atomic_write_text
    <3>. QED BY <3>1, LastFile, Planned DEF Writing
  <2>2. pins' = [pins EXCEPT ![Last(saved)] = NewPins[Last(saved)]]
      BY <1>4 DEF _atomic_write_text
  <2>3. /\ \A f \in Both : pins'[f] \in [FileOf[f] -> 1..4]
        /\ pins' = [f \in Both |-> pins'[f]]
      BY <1>0, <1>a, <2>1, <2>2 DEF PinTypes
  <2>4. meta' \in [Both -> {"kept", "fresh", "unknown"}] /\ tempf' \in [Both -> BOOLEAN]
      BY <1>0, <1>4, <2>1 DEF PinTypes, _atomic_write_text, Rewritten
  <2>. QED BY <1>0, <1>4, <2>3, <2>4 DEF PinTypes, _atomic_write_text, Writing
<1>5. CASE WriteFault
  <2>1. Last(saved) \in Both
      BY <1>5, LastFile DEF PinInv, AsWritten, WriteFault
  <2>. QED BY <1>0, <1>5, <2>1 DEF PinTypes, WriteFault, Writing
<1>6. CASE _rollback_single_file
  <2>1. Last(saved) \in Both
      BY <1>6, LastFile DEF _rollback_single_file
  <2>2. pins' = pins \/ pins' = [pins EXCEPT ![Last(saved)] = orig[Last(saved)]]
      BY <1>6 DEF _rollback_single_file
  <2>3. /\ \A f \in Both : pins'[f] \in [FileOf[f] -> 1..4]
        /\ pins' = [f \in Both |-> pins'[f]]
      BY <1>0, <1>a, <2>1, <2>2 DEF PinTypes
  <2>4. meta' \in [Both -> {"kept", "fresh", "unknown"}] /\ failures' \subseteq Both
      BY <1>0, <1>6, <2>1 DEF PinTypes, _rollback_single_file, _restore_file_metadata
  <2>. QED BY <1>0, <1>6, <2>3, <2>4 DEF PinTypes, _rollback_single_file
<1>7. CASE RunAgain
    BY <1>0, <1>7 DEF PinTypes, RunAgain, Both, Comparing
<1>. QED BY <1>1, <1>2, <1>3, <1>4, <1>5, <1>6, <1>7, PinNextCases

\* What was seen before stays seen.
LEMMA SeeFacts ==
  ASSUME NEW news, See(news)
  PROVE  /\ DOMAIN seen' = DOMAIN news \cup DOMAIN seen
         /\ \A c \in DOMAIN news : seen'[c] = news[c]
         /\ \A c \in DOMAIN seen \ DOMAIN news : seen'[c] = seen[c]
BY DEF See

\* Digests are seen of the revision that is seen with them.
LEMMA SeenKept ==
  ASSUME PinInv, PinNext
  PROVE  Seen'
<1>0. Seen /\ PinTypes
    BY DEF PinInv
<1>a. /\ NghiPins = {"modelA", "configA", "configS", "configB", "configT"} /\ SttPins = {"encoder"}
      /\ ZeroPins = {"gguf", "config", "zvoice"}
    BY ConstantFacts DEF NghiPins, SttPins, ZeroPins
<1>b. ASSUME published' = published
      PROVE  \A c, r : DigestAt(c, r)' = DigestAt(c, r)
    BY <1>b DEF DigestAt
<1>c. /\ \A c \in NghiPins, r \in {1, 2} : DigestAt(c, r) \in 1..4
      /\ \A repo \in {"stt", "zero", "nghi"} : head[repo] \in {1, 2}
    BY <1>0 DEF DigestAt, First, PinTypes
<1> USE DEF UpTo, remote, pin_disk
<1>1. CASE HeadMoves
    BY <1>0, <1>1, <1>b DEF HeadMoves, Seen
<1>2. CASE _remote_voice_artifacts
  <2>1. up = "voices" /\ DOMAIN seen \subseteq NghiPins /\ UNCHANGED <<published, orig>>
      BY <1>0, <1>2 DEF Seen, _remote_voice_artifacts
  <2>2. CASE NghiPins \subseteq DOMAIN seen
    <3>1. up' = "revision" /\ seen' = seen /\ DOMAIN seen = SeenBy("revision")
        BY <1>2, <2>1, <2>2 DEF _remote_voice_artifacts, SeenBy
    <3>. QED BY <1>0, <1>b, <2>1, <3>1 DEF Seen
  <2>3. CASE ~(NghiPins \subseteq DOMAIN seen)
    <3>1. PICK c \in NghiPins \ DOMAIN seen :
            See([x \in {c} |-> IF hash THEN DigestAt(c, head.nghi) ELSE Unknown])
        BY <1>2, <2>3 DEF _remote_voice_artifacts
    <3>2. up' = "voices"
        BY <1>2, <2>1, <2>3 DEF _remote_voice_artifacts
    <3>3. /\ DOMAIN seen' = {c} \cup DOMAIN seen /\ seen'[c] \in 0..4
          /\ \A d \in DOMAIN seen : seen'[d] = seen[d]
      <4> DEFINE news == [x \in {c} |-> IF hash THEN DigestAt(c, head.nghi) ELSE Unknown]
      <4>1. DOMAIN news = {c} /\ news[c] \in 0..4
          BY <1>c DEF Unknown
      <4>2. See(news)
          BY <3>1
      <4> HIDE DEF news
      <4>. QED BY <3>1, <4>1, <4>2, SeeFacts
    <3>4. \A d \in DOMAIN seen' : d \in NghiPins /\ seen'[d] \in 0..4
        BY <1>0, <2>1, <3>3 DEF Seen
    <3>. QED BY <1>a, <3>2, <3>4 DEF Seen
  <2>. QED BY <2>2, <2>3
<1>3. CASE _remote_hf_revision
  <2> DEFINE rev == RevOf[Repo]
             news == [x \in {rev} |-> head[Repo]]
  <2>1. \/ up = "revision" /\ Repo = "stt" /\ rev = "srev" /\ up' = "tree"
        \/ up = "zrevision" /\ Repo = "zero" /\ rev = "zrev" /\ up' = "ztree"
      BY <1>3, FileFacts DEF _remote_hf_revision, Repo
  <2>2. See(news) /\ UNCHANGED <<published, orig>>
      BY <1>3 DEF _remote_hf_revision
  <2>3. DOMAIN news = {rev} /\ news[rev] \in {1, 2}
      BY <1>c, <2>1
  <2> HIDE DEF news
  <2>4. /\ DOMAIN seen' = {rev} \cup DOMAIN seen /\ seen'[rev] \in {1, 2}
        /\ \A c \in DOMAIN seen : c # rev => seen'[c] = seen[c]
      BY <2>2, <2>3, SeeFacts
  <2> HIDE DEF rev
  <2>5. DOMAIN seen = SeenBy(up) /\ DOMAIN seen' = SeenBy(up')
      BY <1>0, <2>1, <2>4 DEF Seen, SeenBy
  <2>6. \/ /\ up = "revision" /\ rev = "srev"
           /\ DOMAIN seen = {"modelA", "configA", "configS", "configB", "configT"}
        \/ /\ up = "zrevision" /\ rev = "zrev"
           /\ DOMAIN seen = {"modelA", "configA", "configS", "configB", "configT", "srev", "encoder"}
      BY <1>a, <2>1, <2>5 DEF SeenBy
  <2>7. up' \notin {"voices", "refused"}
      BY <2>1
  <2>. QED BY <1>0, <1>a, <1>b, <2>2, <2>4, <2>5, <2>6, <2>7 DEF Seen
<1>4. CASE _remote_hf_tree_entries
  <2> DEFINE of == RepoPins[Repo]
             news == [c \in of |-> IF c = "config" /\ ~hash THEN Unknown
                                                            ELSE DigestAt(c, OfRevision(Repo))]
  <2>1. \/ up = "tree" /\ Repo = "stt" /\ of = SttPins /\ up' = "zrevision"
        \/ up = "ztree" /\ Repo = "zero" /\ of = ZeroPins /\ up' = "bundled"
      BY <1>4, FileFacts DEF _remote_hf_tree_entries, Repo
  <2>2. See(news) /\ UNCHANGED <<published, orig>>
      BY <1>4 DEF _remote_hf_tree_entries
  <2>3. DOMAIN news = of /\ \A c \in of : news[c] \in {Unknown, DigestAt(c, seen[RevOf[Repo]])}
      BY DEF OfRevision
  <2> HIDE DEF news
  <2>4. /\ DOMAIN seen' = of \cup DOMAIN seen
        /\ \A c \in of : seen'[c] \in {Unknown, DigestAt(c, seen[RevOf[Repo]])}
        /\ \A c \in DOMAIN seen : c \notin of => seen'[c] = seen[c]
      BY <2>2, <2>3, SeeFacts
  <2> HIDE DEF of
  <2>5. DOMAIN seen = SeenBy(up) /\ DOMAIN seen' = SeenBy(up')
      BY <1>0, <2>1, <2>4 DEF Seen, SeenBy
  <2>6. up' \notin {"voices", "refused"}
      BY <2>1
  <2>7. CASE up = "tree"
    <3>1. of = {"encoder"} /\ RevOf[Repo] = "srev"
          /\ DOMAIN seen = {"modelA", "configA", "configS", "configB", "configT", "srev"}
        BY <1>a, <2>1, <2>5, <2>7, FileFacts DEF SeenBy
    <3>. QED BY <1>0, <1>a, <1>b, <2>2, <2>4, <2>5, <2>6, <3>1 DEF Seen
  <2>8. CASE up = "ztree"
    <3>1. of = {"gguf", "config", "zvoice"} /\ RevOf[Repo] = "zrev"
          /\ DOMAIN seen = {"modelA", "configA", "configS", "configB", "configT", "srev", "encoder", "zrev"}
        BY <1>a, <2>1, <2>5, <2>8, FileFacts DEF SeenBy
    <3>. QED BY <1>0, <1>a, <1>b, <2>2, <2>4, <2>5, <2>6, <3>1 DEF Seen
  <2>. QED BY <2>1, <2>7, <2>8
<1>5. CASE _build_zerotts_artifact_comparison
  <2>1. up = "bundled" /\ UNCHANGED <<published, orig>>
      BY <1>5 DEF _build_zerotts_artifact_comparison
  <2>2. DOMAIN seen = SeenBy("bundled")
      BY <1>0, <2>1 DEF Seen
  <2>3. CASE Refused
    <3>1. up' = "refused" /\ seen' = seen
        BY <1>5, <2>3 DEF _build_zerotts_artifact_comparison
    <3>. QED BY <1>0, <1>b, <2>1, <3>1 DEF Seen
  <2>4. CASE ~Refused
    <3> DEFINE news == [x \in {"codec"} |-> IF hash THEN asset ELSE Unknown]
    <3>1. See(news) /\ up' = "plan"
        BY <1>5, <2>4 DEF _build_zerotts_artifact_comparison
    <3>2. DOMAIN news = {"codec"} /\ news["codec"] \in {Unknown, orig.tts.codec}
        BY <2>4 DEF Refused, Local
    <3> HIDE DEF news
    <3>3. /\ DOMAIN seen' = {"codec"} \cup DOMAIN seen /\ seen'["codec"] \in {Unknown, orig.tts.codec}
          /\ \A c \in DOMAIN seen : c # "codec" => seen'[c] = seen[c]
        BY <3>1, <3>2, SeeFacts
    <3>4. DOMAIN seen' = SeenBy("plan") /\ "codec" \notin DOMAIN seen
        BY <1>a, <2>2, <3>3 DEF SeenBy
    <3>5. DOMAIN seen = {"modelA", "configA", "configS", "configB", "configT", "srev", "encoder", "zrev", "gguf",
                         "config", "zvoice"}
        BY <1>a, <2>2 DEF SeenBy
    <3>. QED BY <1>0, <1>a, <1>b, <2>1, <3>1, <3>3, <3>4, <3>5 DEF Seen
  <2>. QED BY <2>3, <2>4
<1>6. CASE update_model_pins \/ _snapshot_file \/ _atomic_write_text \/ WriteFault
           \/ Interrupted \/ _rollback_single_file \/ UpdateEnds
  <2>1. /\ UNCHANGED <<published, orig, seen>>
        /\ up \in {"plan", "write", "replace", "undo"}
        /\ up' \in {"refused", "write", "replace", "undo", "done", "failed", "interrupted"}
      BY <1>6 DEF update_model_pins, _snapshot_file, _atomic_write_text, WriteFault,
           Interrupted, _rollback_single_file, UpdateEnds
  <2>2. DOMAIN seen = SeenBy("plan") /\ (up' # "refused" => SeenBy("plan") = SeenBy(up'))
      BY <1>0, <2>1 DEF Seen, SeenBy
  <2>. QED BY <1>0, <1>b, <2>1, <2>2 DEF Seen
<1>7. CASE RunAgain
  <2>1. up' = "voices" /\ seen' = [c \in {} |-> 0]
      BY <1>7 DEF RunAgain
  <2>. QED BY <2>1 DEF Seen
<1>. QED BY <1>1, <1>2, <1>3, <1>4, <1>5, <1>6, <1>7, PinNextCases DEF Compare

\* No step takes digests and revision apart.
LEMMA CoherentKept ==
  ASSUME PinInv, PinNext
  PROVE  Coherent'
<1>0. PinTypes /\ OfTheirRevision(orig) /\ RevisionCoherent /\ pins.tts.codec = orig.tts.codec
    BY DEF PinInv, Coherent
<1>1. published' = published
    BY CompareFacts, PinNextCases DEF update_model_pins, _snapshot_file, _atomic_write_text, WriteFault,
         Interrupted, _rollback_single_file, UpdateEnds, RunAgain, remote
<1>2. OfTheirRevision(pins)
    BY <1>0 DEF RevisionCoherent, OfTheirRevision
<1>3. "stt" \in Both /\ "tts" \in Both
    BY FileFacts
<1>4. ASSUME orig' = orig,
             \A f \in Both : \/ pins'[f] = pins[f] \/ pins'[f] = orig[f]
                             \/ /\ pins'[f] = NewPins[f] /\ OfTheirRevision(NewPins)
                                /\ NewPins.tts.codec = orig.tts.codec
      PROVE  Coherent'
  <2>1. OfTheirRevision(pins')
      BY <1>0, <1>2, <1>3, <1>4 DEF OfTheirRevision
  <2>2. pins'.tts.codec = orig.tts.codec
      BY <1>0, <1>3, <1>4
  <2>. QED BY <1>0, <1>1, <1>4, <2>1, <2>2 DEF Coherent, OfTheirRevision, RevisionCoherent, DigestAt
<1>5. CASE pins' = pins /\ orig' = orig
    BY <1>4, <1>5
<1>6. CASE _atomic_write_text
  <2>1. up = "replace" /\ saved # <<>>
      BY <1>6 DEF PinInv, AsWritten, _atomic_write_text
  <2>2. Last(saved) \in Both /\ pins' = [pins EXCEPT ![Last(saved)] = NewPins[Last(saved)]] /\ orig' = orig
      BY <1>6, <2>1, LastFile DEF _atomic_write_text
  <2>3. OfTheirRevision(NewPins) /\ NewPins.tts.codec = orig.tts.codec
      BY <2>1, Planned DEF Writing
  <2>4. pins = [f \in Both |-> pins[f]]
      BY <1>0 DEF PinTypes
  <2>. QED BY <1>4, <2>2, <2>3, <2>4
<1>7. CASE _rollback_single_file
  <2>1. Last(saved) \in Both /\ orig' = orig
      BY <1>7, LastFile DEF _rollback_single_file
  <2>2. pins' = pins \/ pins' = [pins EXCEPT ![Last(saved)] = orig[Last(saved)]]
      BY <1>7 DEF _rollback_single_file
  <2>3. pins = [f \in Both |-> pins[f]]
      BY <1>0 DEF PinTypes
  <2>. QED BY <1>4, <2>1, <2>2, <2>3
<1>8. CASE RunAgain
  <2>1. orig' = pins /\ pins' = pins
      BY <1>8 DEF RunAgain, pin_disk
  <2>. QED BY <1>1, <1>2, <2>1 DEF Coherent, OfTheirRevision, RevisionCoherent, DigestAt
<1>9. CASE Compare
    BY <1>5, <1>9, CompareFacts DEF pin_disk
<1>10. CASE update_model_pins \/ _snapshot_file \/ WriteFault \/ Interrupted \/ UpdateEnds
    BY <1>5, <1>10 DEF update_model_pins, _snapshot_file, WriteFault, Interrupted, UpdateEnds, pin_disk
<1>. QED BY <1>6, <1>7, <1>8, <1>9, <1>10, PinNextCases

\* Files are written in their order and undone from the last.
LEMMA AsWrittenKept ==
  ASSUME PinInv, PinNext
  PROVE  AsWritten'
<1>0. AsWritten /\ PinTypes /\ ToWrite \in Seq(Both) /\ saved \in Seq(Both)
    BY ToWriteFacts DEF PinInv, AsWritten
<1>a. pins = [f \in Both |-> pins[f]] /\ meta \in [Both -> {"kept", "fresh", "unknown"}]
      /\ tempf \in [Both -> BOOLEAN]
    BY <1>0 DEF PinTypes
<1> USE DEF UpTo, remote, pin_disk
<1>1. CASE Compare
  <2>1. /\ up \in Comparing /\ up' \in Comparing /\ UNCHANGED <<saved, pins, orig, failures, meta>>
      BY <1>1, CompareFacts
  <2>2. up' \notin Writing \cup {"done", "failed", "interrupted"}
      BY <2>1 DEF Comparing, Writing
  <2>. QED BY <1>0, <2>1, <2>2 DEF AsWritten, Writing
<1>2. CASE update_model_pins
  <2>1. /\ up = "plan" /\ UNCHANGED <<seen, saved, pins, orig, failures, meta>>
        /\ \/ up' = "refused"
           \/ up' = "write" /\ ~Unplannable
      BY <1>2 DEF update_model_pins, Unplannable
  <2>2. saved = <<>> /\ pins = orig /\ failures = {} /\ \A f \in Both : meta[f] # "fresh"
      BY <1>0, <2>1 DEF AsWritten, Comparing
  <2>3. CASE up' = "refused"
      BY <1>0, <2>1, <2>2, <2>3 DEF AsWritten, Comparing, Writing
  <2>4. CASE up' = "write"
    <3>1. Written' = {} /\ Len(saved) = 0 /\ Len(ToWrite) \in Nat /\ DOMAIN saved = {}
        BY <1>0, <2>1, <2>2, <2>4 DEF Written, Range
    <3>. QED BY <1>0, <2>1, <2>2, <2>4, <3>1, PlanStays DEF AsWritten, Comparing
  <2>. QED BY <2>1, <2>3, <2>4
<1>3. CASE _snapshot_file
  <2> DEFINE f == ToWrite[Len(saved) + 1]
  <2>1. /\ up = "write" /\ up' = "replace" /\ UNCHANGED <<seen, pins, orig, failures>>
        /\ saved' = Append(saved, f) /\ tempf' = [tempf EXCEPT ![f] = TRUE]
        /\ meta' = meta \/ meta' = [meta EXCEPT ![f] = "unknown"]
        /\ Len(saved) < Len(ToWrite) /\ f \in Both
      BY <1>3, NextFile DEF _snapshot_file
  <2>2. f = ToWrite[Len(saved) + 1]
      OBVIOUS
  <2> HIDE DEF f
  <2>3. /\ saved' \in Seq(Both) /\ saved' # <<>> /\ Last(saved') = f /\ Front(saved') = saved
        /\ Len(saved') = Len(saved) + 1
        /\ \A i \in DOMAIN saved' : \/ i \in DOMAIN saved /\ saved'[i] = saved[i]
                                    \/ i = Len(saved) + 1 /\ saved'[i] = f
      BY <1>0, <2>1, AppendElements
  <2>4. Written' = Written
      BY <2>1, <2>3 DEF Written
  <2>5. Len(saved') <= Len(ToWrite) /\ \A i \in DOMAIN saved' : saved'[i] = ToWrite[i]
      BY <1>0, <2>1, <2>2, <2>3 DEF AsWritten, Comparing
  <2>6. tempf'[Last(saved')] /\ \A g \in Both : meta[g] # "fresh" => meta'[g] # "fresh"
      BY <1>a, <2>1, <2>3
  <2>. QED BY <1>0, <2>1, <2>3, <2>4, <2>5, <2>6, PlanStays DEF AsWritten, Writing, Comparing
<1>4. CASE _atomic_write_text
  <2> DEFINE f == Last(saved)
  <2>1. /\ up = "replace" /\ up' = "write" /\ UNCHANGED <<seen, saved, orig, failures>>
        /\ pins' = [pins EXCEPT ![f] = NewPins[f]]
        /\ meta' = [meta EXCEPT ![f] = IF @ = "kept" THEN "fresh" ELSE @]
      BY <1>4 DEF _atomic_write_text, Rewritten
  <2>2. saved # <<>>
      BY <1>0, <2>1 DEF AsWritten
  <2>3. f \in Both /\ Range(saved) = Range(Front(saved)) \cup {f}
      BY <1>0, <2>2, FrontElements
  <2> HIDE DEF f
  <2>4. Written' = Written \cup {f}
      BY <2>1, <2>3 DEF Written
  <2>5. /\ pins'[f] = NewPins[f]
        /\ \A g \in Both : g # f => pins'[g] = pins[g] /\ meta'[g] = meta[g]
      BY <1>a, <2>1, <2>3
  <2>6. /\ \A g \in Written : pins[g] = NewPins[g] /\ g \in Both
        /\ \A g \in Both \ Written : pins[g] = orig[g] /\ meta[g] # "fresh"
    <3>1. Written \subseteq Range(saved) /\ Range(saved) \subseteq Both
      <4>1. Range(saved) \subseteq Both
          BY <1>0 DEF Range
      <4>2. Written = Range(Front(saved))
          BY <2>1 DEF Written
      <4>. QED BY <2>3, <4>1, <4>2
    <3>. QED BY <1>0, <2>1, <3>1 DEF AsWritten
  <2>7. /\ \A g \in Written' : pins'[g] = NewPins[g]
        /\ \A g \in Both \ Written' : pins'[g] = orig[g] /\ meta'[g] # "fresh"
      BY <2>4, <2>5, <2>6
  <2>. QED BY <1>0, <2>1, <2>7, PlanStays DEF AsWritten, Writing, Comparing
<1>5. CASE WriteFault
  <2>1. /\ up = "replace" /\ up' = "undo" /\ UNCHANGED <<seen, saved, orig, pins, meta, failures>>
      BY <1>5 DEF WriteFault
  <2>2. saved # <<>>
      BY <1>0, <2>1 DEF AsWritten
  <2>3. Written \subseteq Range(saved)
      BY <1>0, <2>1, <2>2, FrontElements DEF Written
  <2>. QED BY <1>0, <2>1, <2>3, PlanStays DEF AsWritten, Writing, Comparing
<1>6. CASE Interrupted
  <2>1. /\ up \in {"write", "replace", "undo"} /\ up' = "interrupted" /\ UNCHANGED <<seen, saved, orig>>
      BY <1>6 DEF Interrupted
  <2>. QED BY <1>0, <2>1, PlanStays DEF AsWritten, Writing, Comparing
<1>7. CASE _rollback_single_file
  <2> DEFINE f == Last(saved)
  <2>1. /\ up = "undo" /\ up' = "undo" /\ saved # <<>> /\ saved' = Front(saved) /\ UNCHANGED <<seen, orig>>
        /\ \/ /\ pins' = [pins EXCEPT ![f] = orig[f]] /\ failures' = failures
              /\ meta' = [meta EXCEPT ![f] = IF @ = "fresh" THEN "kept" ELSE @]
           \/ /\ failures' = failures \cup {f} /\ meta' = meta
              /\ pins' = pins \/ pins' = [pins EXCEPT ![f] = orig[f]]
      BY <1>7 DEF _rollback_single_file, _restore_file_metadata
  <2>2. /\ Front(saved) \in Seq(Both) /\ f \in Both /\ Range(saved) = Range(Front(saved)) \cup {f}
        /\ Len(Front(saved)) <= Len(saved)
        /\ \A i \in DOMAIN Front(saved) : i \in DOMAIN saved /\ Front(saved)[i] = saved[i]
      BY <1>0, <2>1, FrontElements
  <2> HIDE DEF f
  <2>3. /\ \A g \in Both : g # f => pins'[g] = pins[g] /\ meta'[g] = meta[g]
        /\ f \in failures' \/ (pins'[f] = orig[f] /\ meta'[f] # "fresh")
        /\ failures \subseteq failures'
      BY <1>a, <2>1, <2>2
  <2>4. \A g \in Both \ (failures \cup Range(saved)) : pins[g] = orig[g] /\ meta[g] # "fresh"
      BY <1>0, <2>1 DEF AsWritten
  <2>5. \A g \in Both \ (failures' \cup Range(saved')) : pins'[g] = orig[g] /\ meta'[g] # "fresh"
      BY <2>1, <2>2, <2>3, <2>4
  <2>6. Len(saved') <= Len(ToWrite) /\ \A i \in DOMAIN saved' : saved'[i] = ToWrite[i]
    <3>1. Len(saved) \in Nat /\ Len(Front(saved)) \in Nat /\ Len(ToWrite) \in Nat
        BY <1>0, <2>2
    <3>2. Len(saved) <= Len(ToWrite) /\ \A i \in DOMAIN saved : saved[i] = ToWrite[i]
        BY <1>0, <2>1 DEF AsWritten, Comparing
    <3>. QED BY <2>1, <2>2, <3>1, <3>2
  <2>. QED BY <1>0, <2>1, <2>2, <2>5, <2>6, PlanStays DEF AsWritten, Writing, Comparing
<1>8. CASE UpdateEnds
  <2>1. /\ UNCHANGED <<seen, saved, orig, pins, meta, failures>>
        /\ \/ up = "write" /\ Len(saved) = Len(ToWrite) /\ up' = "done"
           \/ up = "undo" /\ saved = <<>> /\ up' = "failed"
      BY <1>8 DEF UpdateEnds
  <2>2. up' = "done" => Written' = Written
      BY <2>1 DEF Written
  <2>. QED BY <1>0, <2>1, <2>2, PlanStays DEF AsWritten, Writing, Comparing
<1>9. CASE RunAgain
  <2>1. /\ up' = "voices" /\ orig' = pins /\ pins' = pins /\ saved' = <<>> /\ failures' = {}
        /\ meta' = [f \in Both |-> "kept"]
      BY <1>9 DEF RunAgain, Both
  <2>. QED BY <2>1 DEF AsWritten, Writing, Comparing
<1>. QED BY <1>1, <1>2, <1>3, <1>4, <1>5, <1>6, <1>7, <1>8, <1>9, PinNextCases

-------------------------------------------------------------------------------
(* PinUpdate: what follows.                                                *)

\* The invariant holds at first.
LEMMA PinInitially == PinInit => PinInv
<1> SUFFICES ASSUME PinInit PROVE PinInv
    OBVIOUS
<1>1. /\ published \in [SttPins \cup ZeroPins \cup NghiPins -> Digests]
      /\ \A c \in NghiPins : published[c] \in 1..4
    BY ConstantFacts DEF PinInit, Publications, NghiPins
<1>2. /\ pins = [f \in Both |-> [c \in FileOf[f] |-> First(c)]] /\ orig = pins
      /\ \A f \in Both : pins[f] = [c \in FileOf[f] |-> First(c)]
    BY DEF PinInit, Both
<1>3. \A f \in Both : pins[f] \in [FileOf[f] -> 1..4]
    BY <1>2 DEF First
<1>4. head \in [{"stt", "zero", "nghi"} -> {1, 2}]
  <2>1. head = [stt |-> 1, zero |-> 1, nghi |-> 1]
      BY DEF PinInit
  <2>. QED BY <2>1
<1>5. /\ meta = [f \in Both |-> "kept"] /\ tempf = [f \in Both |-> FALSE] /\ hash \in BOOLEAN
      /\ failures = {} /\ up = "voices" /\ saved = <<>> /\ seen = [c \in {} |-> 0]
    BY DEF PinInit, Both
<1>6. PinTypes
    BY <1>1, <1>2, <1>3, <1>4, <1>5 DEF PinTypes, Comparing
<1>7. Seen
    BY <1>5 DEF Seen
<1>8. Coherent
  <2>1. /\ \A c \in SttPins : pins.stt[c] = First(c)
        /\ \A c \in ZeroPins : pins.tts[c] = First(c)
        /\ pins.stt.srev = 1 /\ pins.tts.zrev = 1
      BY <1>2, FileFacts DEF SttPins, ZeroPins, First
  <2>. QED BY <1>2, <2>1 DEF Coherent, OfTheirRevision, RevisionCoherent, DigestAt
<1>9. AsWritten
    BY <1>2, <1>5 DEF AsWritten, Comparing, Writing
<1>. QED BY <1>6, <1>7, <1>8, <1>9 DEF PinInv

\* Every step keeps the invariant.
LEMMA PinStep == PinInv /\ [PinNext]_pin_vars => PinInv'
<1> SUFFICES ASSUME PinInv, [PinNext]_pin_vars PROVE PinInv'
    OBVIOUS
<1>1. CASE PinNext
    BY <1>1, PinTypesKept, SeenKept, CoherentKept, AsWrittenKept DEF PinInv
<1>2. CASE UNCHANGED pin_vars
  <2> USE <1>2 DEF pin_vars, remote, pin_disk
  <2>1. PinTypes' /\ Coherent'
      BY DEF PinInv, PinTypes, Coherent, OfTheirRevision, RevisionCoherent, DigestAt
  <2>2. Seen'
      BY DEF PinInv, Seen, DigestAt
  <2>3. AsWritten'
      BY PlanStays DEF PinInv, AsWritten, Written
  <2>. QED BY <2>1, <2>2, <2>3 DEF PinInv
<1>. QED BY <1>1, <1>2

\* The invariant always holds.
LEMMA PinInvariant == PinSpec => []PinInv
BY PinInitially, PinStep, PTL DEF PinSpec

\* What is promised of states follows from it.
LEMMA PinInvariantTells ==
  ASSUME PinInv
  PROVE  PinTypeOK /\ BothOrNeither /\ RevisionCoherent /\ PinsFollow
<1>1. PinTypeOK
  <2>1. \A i \in DOMAIN saved : saved[i] = ToWrite[i]
    <3>1. CASE up \in Comparing
        BY <3>1 DEF PinInv, AsWritten
    <3>2. CASE up \notin Comparing
        BY <3>2 DEF PinInv, AsWritten
    <3>. QED BY <3>1, <3>2
  <2>. QED BY <2>1 DEF PinInv, PinTypes, AsWritten, PinTypeOK, Both
<1>2. BothOrNeither
    BY DEF PinInv, AsWritten, BothOrNeither, Both, Range
<1>3. ASSUME up = "done" PROVE PinsFollow
  <2>1. DOMAIN seen = SeenBy("plan")
      BY <1>3 DEF PinInv, Seen, SeenBy
  <2>2. ~Unplannable
      BY <1>3 DEF PinInv, AsWritten
  <2>3. \A f \in Both : pins[f] = NewPins[f]
    <3>1. /\ saved \in Seq(Both) /\ ToWrite \in Seq(Both) /\ Len(saved) = Len(ToWrite)
          /\ \A i \in DOMAIN saved : saved[i] = ToWrite[i]
        BY <1>3, ToWriteFacts DEF PinInv, AsWritten, Comparing
    <3>2. DOMAIN saved = DOMAIN ToWrite
        BY <3>1
    <3>3. Range(saved) = Stale
        BY <3>1, <3>2, ToWriteFacts DEF Range
    <3>4. Written = Stale
        BY <1>3, <3>3 DEF Written
    <3>5. /\ \A f \in Written : pins[f] = NewPins[f]
          /\ \A f \in Both \ Written : pins[f] = orig[f]
        BY <1>3 DEF PinInv, AsWritten
    <3>. QED BY <3>4, <3>5, FileFacts DEF Stale
  <2>4. "tts" \in Both
      BY FileFacts
  <2> DEFINE u == _update_nghitts_voices_in_content
  <2>5. /\ \A f \in Both : \A c \in FileOf[f] \ Constants :
             seen[c] \notin {Gone, Unknown} => NewPins[f][c] = seen[c]
        /\ pins.tts["common"] = u.held["common"] /\ pins.tts["south"] = u.held["south"]
        /\ Pinned(u, Configs) /\ ~u.failed
      BY <2>1, <2>2, <2>3, <2>4, PlanFacts DEF PinInv, Coherent, Unplannable
  <2>6. \A c \in Configs : seen[c] \in 0..4
      BY <2>1, ConstantFacts DEF PinInv, Seen, SeenBy, NghiPins
  <2> HIDE DEF u
  <2>7. ASSUME NEW k \in Constants
        PROVE  /\ pins.tts[k] \in IF Wanted(k) = {} THEN {orig.tts[k]} ELSE Wanted(k)
               /\ \A d \in Wanted(k) \ {pins.tts[k]} :
                    \E other \in Constants \ {k} : \/ d \in {orig.tts[other], pins.tts[other]}
                                                  \/ pins.tts[other] = orig.tts[k]
    <3>1. \A x \in Constants : pins.tts[x] = u.held[x]
        BY <2>5, ConstantFacts
    <3>2. \A d : d \in Wanted(k) <=> \E c \in Configs : ConstantOf[c] = k /\ Wants(c) /\ d = seen[c]
        BY <2>6 DEF Wanted, Wants, Changed, Local, Gone, Unknown
    <3>3. /\ k \notin u.updated => u.held[k] = orig.tts[k]
          /\ k \in u.updated => \E c \in Configs : ConstantOf[c] = k /\ Wants(c) /\ u.held[k] = seen[c]
          /\ \A c \in Configs : Wants(c) => ConstantOf[c] \in u.updated /\ Met(u, c)
        BY <2>5 DEF Pinned
    <3>4. pins.tts[k] \in IF Wanted(k) = {} THEN {orig.tts[k]} ELSE Wanted(k)
        BY <3>1, <3>2, <3>3
    <3>5. ASSUME NEW d \in Wanted(k) \ {pins.tts[k]}
          PROVE  \E other \in Constants \ {k} : \/ d \in {orig.tts[other], pins.tts[other]}
                                               \/ pins.tts[other] = orig.tts[k]
      <4>1. PICK c \in Configs : ConstantOf[c] = k /\ Wants(c) /\ d = seen[c]
          BY <3>2
      <4>2. Met(u, c) /\ u.held[k] # seen[c]
          BY <3>1, <3>3, <4>1
      <4>. QED BY <3>1, <4>1, <4>2 DEF Met
    <3>. QED BY <3>4, <3>5
  <2>. QED BY <2>3, <2>5, <2>7 DEF PinsFollow, Both
<1>. QED BY <1>1, <1>2, <1>3 DEF PinInv, Coherent, PinsFollow

\* Both files of pins are written or neither, and at every moment, however the remote sites
\* move, digests are pinned of the revision that is pinned with them (update_model_pins,
\* _apply_transactional_writes).
THEOREM PinsAreCoherent == PinSpec => PinsCoherent
<1>1. PinInv => PinTypeOK /\ BothOrNeither /\ RevisionCoherent /\ PinsFollow
    BY PinInvariantTells
<1>2. PinInv /\ PinInv' /\ [PinNext]_pin_vars => [pins'.tts.codec = pins.tts.codec]_pin_vars
  <2> SUFFICES ASSUME PinInv, PinInv', PinNext PROVE pins'.tts.codec = pins.tts.codec
      BY DEF pin_vars
  <2>1. pins.tts.codec = orig.tts.codec /\ pins'.tts.codec = orig'.tts.codec
      BY DEF PinInv, Coherent
  <2>2. orig' = orig \/ pins' = pins
      BY CompareFacts, PinNextCases DEF update_model_pins, _snapshot_file, _atomic_write_text, WriteFault,
         Interrupted, _rollback_single_file, UpdateEnds, RunAgain, pin_disk
  <2>. QED BY <2>1, <2>2
<1>. QED BY PinInvariant, <1>1, <1>2, PTL DEF PinsCoherent, NeverSelfCertified, PinSpec
-------------------------------------------------------------------------------
(* Subsequences: places in ascending order.                                  *)

Until(I, i) == {j \in I : j <= i}

\* How many of the first places are in I.
LEMMA UntilFacts ==
  ASSUME NEW N \in Nat, NEW I \in SUBSET (1..N)
  PROVE  /\ IsFiniteSet(I) /\ Cardinality(I) \in Nat
         /\ \A i \in I : IsFiniteSet(Until(I, i)) /\ Cardinality(Until(I, i)) \in 1..Cardinality(I)
         /\ \A i, j \in I : i < j => Cardinality(Until(I, i)) < Cardinality(Until(I, j))
<1>1. IsFiniteSet(1..N)
  BY FS_Interval
<1>2. IsFiniteSet(I) /\ Cardinality(I) \in Nat
  BY <1>1, FS_Subset, FS_CardinalityType
<1>3. ASSUME NEW i \in I
      PROVE  IsFiniteSet(Until(I, i)) /\ Cardinality(Until(I, i)) \in 1..Cardinality(I)
  <2>1. Until(I, i) \subseteq I /\ i \in Until(I, i) /\ Until(I, i) # {}
    BY DEF Until
  <2>2. IsFiniteSet(Until(I, i)) /\ Cardinality(Until(I, i)) <= Cardinality(I)
    BY <1>2, <2>1, FS_Subset
  <2>3. Cardinality(Until(I, i)) \in Nat /\ Cardinality(Until(I, i)) # 0
    BY <2>1, <2>2, FS_CardinalityType, FS_EmptySet
  <2> QED BY <1>2, <2>2, <2>3
<1>4. ASSUME NEW i \in I, NEW j \in I, i < j
      PROVE  Cardinality(Until(I, i)) < Cardinality(Until(I, j))
  <2>0. \A k \in I : k \in Nat
    OBVIOUS
  <2>1. Until(I, i) \subseteq Until(I, j) /\ j \in Until(I, j) /\ j \notin Until(I, i)
    <3>1. i \in Nat /\ j \in Nat /\ ~(j <= i) /\ j <= j
      BY <1>4, <2>0
    <3>2. \A k \in I : k <= i => k <= j
      BY <1>4, <2>0
    <3> QED BY <3>1, <3>2 DEF Until
  <2>2. Until(I, i) # Until(I, j) /\ IsFiniteSet(Until(I, j))
    BY <1>3, <2>1
  <2>3. /\ Cardinality(Until(I, i)) <= Cardinality(Until(I, j))
        /\ Cardinality(Until(I, i)) # Cardinality(Until(I, j))
    BY <2>1, <2>2, FS_Subset
  <2>4. Cardinality(Until(I, i)) \in Int /\ Cardinality(Until(I, j)) \in Int
    BY <1>3
  <2> QED BY <2>3, <2>4
<1> QED BY <1>2, <1>3, <1>4

\* Every number of places is reached.
LEMMA EveryRank ==
  ASSUME NEW N \in Nat, NEW I \in SUBSET (1..N), NEW n \in 1..Cardinality(I)
  PROVE  \E i \in I : Cardinality(Until(I, i)) = n
<1> DEFINE T == {m \in Nat : \A J \in SUBSET (1..m) : \A c \in 1..Cardinality(J) :
                               \E i \in J : Cardinality(Until(J, i)) = c}
<1>1. 0 \in T
  <2> SUFFICES ASSUME NEW J \in SUBSET (1..0), NEW c \in 1..Cardinality(J) PROVE FALSE
    OBVIOUS
  <2>1. J = {}
    OBVIOUS
  <2> QED BY <2>1, FS_EmptySet
<1>2. ASSUME NEW m \in Nat, m \in T PROVE m + 1 \in T
  <2> SUFFICES ASSUME NEW J \in SUBSET (1..m + 1), NEW c \in 1..Cardinality(J)
               PROVE  \E i \in J : Cardinality(Until(J, i)) = c
    OBVIOUS
  <2>0. \A K \in SUBSET (1..m) : \A d \in 1..Cardinality(K) :
          \E i \in K : Cardinality(Until(K, i)) = d
    BY <1>2
  <2> DEFINE K == J \ {m + 1}
  <2>1. K \in SUBSET (1..m)
    OBVIOUS
  <2>2. CASE m + 1 \notin J
    <3>1. K = J
      BY <2>2
    <3> QED BY <2>0, <2>1, <3>1
  <2>3. CASE m + 1 \in J
    <3>1. IsFiniteSet(J) /\ Cardinality(J) \in Nat
      <4>1. m + 1 \in Nat
        OBVIOUS
      <4> QED BY <4>1, UntilFacts
    <3>2. Cardinality(K) = Cardinality(J) - 1
      BY <2>3, <3>1, FS_RemoveElement
    <3>3. CASE c = Cardinality(J)
      <4>1. Until(J, m + 1) = J
        <5>1. \A j \in J : j <= m + 1
          OBVIOUS
        <5> QED BY <5>1 DEF Until
      <4> QED BY <2>3, <3>3, <4>1
    <3>4. CASE c # Cardinality(J)
      <4>1. c \in 1..Cardinality(K)
        BY <3>1, <3>2, <3>4
      <4>2. PICK i \in K : Cardinality(Until(K, i)) = c
        BY <2>0, <2>1, <4>1
      <4>3. Until(K, i) = Until(J, i) /\ i \in J
        BY <2>1, <4>2 DEF Until
      <4> QED BY <4>2, <4>3
    <3> QED BY <3>3, <3>4
  <2> QED BY <2>2, <2>3
<1> HIDE DEF T
<1>3. N \in T
  BY <1>1, <1>2, SetInduction
<1> QED BY <1>3 DEF T

\* The places of a set are enumerated in ascending order.
LEMMA NthFacts ==
  ASSUME NEW N \in Nat, NEW I \in SUBSET (1..N)
  PROVE  /\ Cardinality(I) \in Nat
         /\ \A n \in 1..Cardinality(I) : Nth(I, n) \in I /\ Nth(I, n) \in 1..N
         /\ \A m, n \in 1..Cardinality(I) : m < n => Nth(I, m) < Nth(I, n)
         /\ \A i \in I : /\ Cardinality(Until(I, i)) \in 1..Cardinality(I)
                         /\ Nth(I, Cardinality(Until(I, i))) = i
<1>1. /\ Cardinality(I) \in Nat
      /\ \A i \in I : Cardinality(Until(I, i)) \in 1..Cardinality(I)
      /\ \A i, j \in I : i < j => Cardinality(Until(I, i)) < Cardinality(Until(I, j))
      /\ \A i \in I : i \in 1..N /\ i \in Nat
  <2>1. \A i \in I : i \in 1..N /\ i \in Nat
    OBVIOUS
  <2> QED BY <2>1, UntilFacts
<1>2. \A n : Nth(I, n) = CHOOSE i \in I : Cardinality(Until(I, i)) = n
  BY DEF Nth, Until
<1>3. \A n \in 1..Cardinality(I) : \E i \in I : Cardinality(Until(I, i)) = n
  BY EveryRank
<1>4. \A n \in 1..Cardinality(I) : Nth(I, n) \in I /\ Cardinality(Until(I, Nth(I, n))) = n
  BY <1>2, <1>3
<1>5. ASSUME NEW m \in 1..Cardinality(I), NEW n \in 1..Cardinality(I), m < n
      PROVE  Nth(I, m) < Nth(I, n)
  <2> DEFINE a == Nth(I, m)
             b == Nth(I, n)
  <2>1. a \in I /\ b \in I /\ Cardinality(Until(I, a)) = m /\ Cardinality(Until(I, b)) = n
    BY <1>4
  <2> HIDE DEF a, b
  <2>2. a \in Nat /\ b \in Nat /\ m \in Nat /\ n \in Nat /\ a # b /\ ~(b < a)
    BY <1>1, <1>5, <2>1
  <2>3. a < b
    BY <2>2
  <2> QED BY <2>3 DEF a, b
<1>6. ASSUME NEW i \in I PROVE Nth(I, Cardinality(Until(I, i))) = i
  <2> DEFINE n == Cardinality(Until(I, i))
             a == Nth(I, n)
  <2>1. n \in 1..Cardinality(I) /\ a \in I /\ Cardinality(Until(I, a)) = n
    BY <1>1, <1>4
  <2> HIDE DEF a, n
  <2>2. a \in Nat /\ i \in Nat
    BY <1>1, <2>1
  <2>3. ~(a < i) /\ ~(i < a)
    <3>1. Cardinality(Until(I, a)) = Cardinality(Until(I, i)) /\ Cardinality(Until(I, i)) \in Nat
      BY <1>1, <2>1 DEF n
    <3>2. ~(Cardinality(Until(I, a)) < Cardinality(Until(I, i))) /\ ~(Cardinality(Until(I, i)) < Cardinality(Until(I, a)))
      BY <3>1
    <3> QED BY <1>1, <2>1, <3>2
  <2>4. a = i
    BY <2>2, <2>3
  <2> QED BY <2>4 DEF a, n
<1> QED BY <1>1, <1>4, <1>5, <1>6

\* What is picked from a sequence is a sequence.
LEMMA PickedFacts ==
  ASSUME NEW S, NEW s \in Seq(S), NEW I \in SUBSET (1..Len(s))
  PROVE  /\ Picked(s, I) \in Seq(S) /\ Len(Picked(s, I)) = Cardinality(I) /\ Cardinality(I) \in Nat
         /\ \A n \in 1..Cardinality(I) : /\ Picked(s, I)[n] = s[Nth(I, n)]
                                         /\ Nth(I, n) \in I /\ Nth(I, n) \in 1..Len(s)
         /\ \A m, n \in 1..Cardinality(I) : m < n => Nth(I, m) < Nth(I, n)
<1>1. Len(s) \in Nat /\ \A i \in 1..Len(s) : s[i] \in S
  OBVIOUS
<1>2. /\ Cardinality(I) \in Nat
      /\ \A n \in 1..Cardinality(I) : Nth(I, n) \in I /\ Nth(I, n) \in 1..Len(s)
      /\ \A m, n \in 1..Cardinality(I) : m < n => Nth(I, m) < Nth(I, n)
  BY <1>1, NthFacts
<1>3. \A n \in 1..Cardinality(I) : s[Nth(I, n)] \in S
  BY <1>1, <1>2
<1>4. Picked(s, I) = [n \in 1..Cardinality(I) |-> s[Nth(I, n)]]
  BY DEF Picked
<1>5. Picked(s, I) \in Seq(S) /\ Len(Picked(s, I)) = Cardinality(I)
  BY <1>2, <1>3, <1>4
<1> QED BY <1>2, <1>4, <1>5

-------------------------------------------------------------------------------
(* AudioCache: sizes.                                                        *)

\* What an item holds.
LEMMA ItemFacts ==
  \A i \in Items : i.key \in Keys /\ i.size \in Nat \ {0} /\ i.idle \in BOOLEAN /\ i.size \in Int
<1>1. \A n \in Nat \ {0} : n \in Int
  OBVIOUS
<1> QED BY <1>1 DEF Items

\* So does each of a sequence.
LEMMA SeqItems ==
  ASSUME NEW s \in Seq(Items)
  PROVE  /\ Len(s) \in Nat /\ DOMAIN s = 1..Len(s)
         /\ \A n \in 1..Len(s) : /\ s[n] \in Items /\ s[n].key \in Keys /\ s[n].size \in Nat \ {0}
                                /\ s[n].idle \in BOOLEAN /\ s[n].size \in Int
<1>1. Len(s) \in Nat /\ DOMAIN s = 1..Len(s) /\ \A n \in 1..Len(s) : s[n] \in Items
  OBVIOUS
<1> QED BY <1>1, ItemFacts

IsSizes(F, s) == F = [n \in 0..Len(s) |-> IF n = 0 THEN 0 ELSE F[n - 1] + s[n].size]
Sizes(s)      == CHOOSE F : IsSizes(F, s)

\* The sizes of a sequence are added up from its front.
LEMMA SizesFacts ==
  ASSUME NEW s \in Seq(Items)
  PROVE  /\ SizeSum(s) = Sizes(s)[Len(s)] /\ SizeSum(s) \in Nat
         /\ Sizes(s)[0] = 0
         /\ \A n \in 1..Len(s) : Sizes(s)[n] = Sizes(s)[n - 1] + s[n].size
<1> DEFINE C == [n \in 1..Len(s) |-> s[n].size]
<1>0. Len(s) \in Nat /\ \A n \in 1..Len(s) : s[n].size \in Nat \ {0}
  BY SeqItems
<1>1. PICK F : IsPrefixSum(F, C, Len(s))
  <2> HIDE DEF C
  <2> QED BY <1>0, PrefixSum
<1>2. IsSizes(F, s)
  <2>1. F = [i \in 0..Len(s) |-> IF i = 0 THEN 0 ELSE F[i - 1] + C[i]]
    BY <1>1 DEF IsPrefixSum
  <2>2. \A i \in 0..Len(s) : i = 0 \/ C[i] = s[i].size
    BY <1>0
  <2> HIDE DEF C
  <2> QED BY <2>1, <2>2 DEF IsSizes
<1>3. IsSizes(Sizes(s), s)
  BY <1>2 DEF Sizes
<1>4. SizeSum(s) = Sizes(s)[Len(s)]
  BY DEF SizeSum, Sizes, IsSizes
<1> DEFINE G == Sizes(s)
<1> HIDE DEF G
<1>5. G[0] = 0 /\ \A n \in 1..Len(s) : G[n] = G[n - 1] + s[n].size
  BY <1>0, <1>3 DEF IsSizes, G
<1> DEFINE T == {n \in Nat : n <= Len(s) => G[n] \in Nat}
<1>6. 0 \in T
  BY <1>5
<1>7. ASSUME NEW n \in Nat, n \in T PROVE n + 1 \in T
  <2> SUFFICES ASSUME n + 1 <= Len(s) PROVE G[n + 1] \in Nat
    OBVIOUS
  <2>1. n + 1 \in 1..Len(s) /\ (n + 1) - 1 = n /\ G[n] \in Nat
    BY <1>0, <1>7
  <2> QED BY <1>0, <1>5, <2>1
<1>8. Len(s) \in T
  <2> HIDE DEF T
  <2> QED BY <1>0, <1>6, <1>7, SetInduction
<1> QED BY <1>0, <1>4, <1>5, <1>8 DEF G

\* The size of a concatenation.
LEMMA SizeOfConcat ==
  ASSUME NEW s \in Seq(Items), NEW t \in Seq(Items)
  PROVE  /\ s \o t \in Seq(Items) /\ SizeSum(s \o t) = SizeSum(s) + SizeSum(t)
         /\ SizeSum(s) \in Nat /\ SizeSum(t) \in Nat
<1> DEFINE r == s \o t
<1>1. /\ r \in Seq(Items) /\ Len(r) = Len(s) + Len(t) /\ Len(s) \in Nat /\ Len(t) \in Nat
      /\ \A n \in 1..Len(s) : r[n] = s[n]
      /\ \A n \in 1..Len(t) : r[Len(s) + n] = t[n]
  OBVIOUS
<1> HIDE DEF r
<1>2. \A n \in 1..Len(r) : r[n].size \in Int
  BY <1>1, SeqItems
<1>0. \A n \in 1..Len(r) : Sizes(r)[n] = Sizes(r)[n - 1] + r[n].size
  BY <1>1, SizesFacts
<1>3. GrowAlike(Sizes(r), Sizes(s), 0, Len(s))
  <2> SUFFICES ASSUME NEW n \in 1..Len(s)
               PROVE  \E c \in Int : /\ Sizes(s)[n] = Sizes(s)[n - 1] + c
                                     /\ Sizes(r)[0 + n] = Sizes(r)[0 + n - 1] + c
    BY DEF GrowAlike
  <2>1. n \in 1..Len(r) /\ 0 + n = n
    BY <1>1
  <2>2. /\ r[n].size \in Int /\ Sizes(s)[n] = Sizes(s)[n - 1] + r[n].size
        /\ Sizes(r)[0 + n] = Sizes(r)[0 + n - 1] + r[n].size
    BY <1>0, <1>1, <1>2, <2>1, SizesFacts
  <2> QED BY <2>2
<1>4. Sizes(r)[Len(s)] = SizeSum(s) /\ SizeSum(s) \in Int
  <2>1. Sizes(s)[0] \in Int /\ Sizes(r)[0] = Sizes(s)[0] + 0 /\ 0 \in Nat /\ 0 \in Int
    BY <1>1, SizesFacts
  <2>2. Sizes(s)[Len(s)] \in Int /\ Sizes(r)[0 + Len(s)] = Sizes(s)[Len(s)] + 0
    BY <1>1, <1>3, <2>1, SameGrowth
  <2>3. SizeSum(s) = Sizes(s)[Len(s)] /\ 0 + Len(s) = Len(s)
    BY <1>1, SizesFacts
  <2> QED BY <2>2, <2>3
<1>5. GrowAlike(Sizes(r), Sizes(t), Len(s), Len(t))
  <2> SUFFICES ASSUME NEW n \in 1..Len(t)
               PROVE  \E c \in Int : /\ Sizes(t)[n] = Sizes(t)[n - 1] + c
                                     /\ Sizes(r)[Len(s) + n] = Sizes(r)[Len(s) + n - 1] + c
    BY DEF GrowAlike
  <2>1. Len(s) + n \in 1..Len(r)
    BY <1>1
  <2>2. r[Len(s) + n].size \in Int /\ t[n] = r[Len(s) + n]
    BY <1>1, <1>2, <2>1
  <2>3. Sizes(t)[n] = Sizes(t)[n - 1] + t[n].size
    BY SizesFacts
  <2>4. Sizes(r)[Len(s) + n] = Sizes(r)[Len(s) + n - 1] + r[Len(s) + n].size
    BY <1>0, <2>1
  <2> QED BY <2>2, <2>3, <2>4
<1>6. Sizes(r)[Len(s) + Len(t)] = Sizes(t)[Len(t)] + SizeSum(s)
  <2>1. Sizes(t)[0] = 0
    BY SizesFacts
  <2>2. Sizes(t)[0] \in Int /\ Sizes(r)[Len(s)] = Sizes(t)[0] + SizeSum(s)
    BY <1>4, <2>1
  <2>3. Len(s) \in Nat /\ Len(t) \in Nat
    BY <1>1
  <2> DEFINE k == Len(s) N == Len(t) d == SizeSum(s) F == Sizes(r) G == Sizes(t)
  <2>4. k \in Nat /\ N \in Nat /\ d \in Int /\ GrowAlike(F, G, k, N) /\ G[0] \in Int /\ F[k] = G[0] + d
    BY <1>4, <1>5, <2>2, <2>3
  <2> HIDE DEF k, N, d, F, G
  <2>5. F[k + N] = G[N] + d
    BY <2>4, SameGrowth
  <2> QED BY <2>5 DEF k, N, d, F, G
<1>7. /\ SizeSum(r) = Sizes(r)[Len(r)] /\ SizeSum(t) = Sizes(t)[Len(t)]
      /\ SizeSum(s) \in Nat /\ SizeSum(t) \in Nat
  BY <1>1, SizesFacts
<1> QED BY <1>1, <1>6, <1>7 DEF r

\* Nothing has no size, and an item has its own.
LEMMA SizeOfOne ==
  /\ <<>> \in Seq(Items) /\ SizeSum(<<>>) = 0
  /\ \A i \in Items : <<i>> \in Seq(Items) /\ SizeSum(<<i>>) = i.size
<1>1. <<>> \in Seq(Items) /\ Len(<<>>) = 0
  OBVIOUS
<1>2. SizeSum(<<>>) = 0
  BY <1>1, SizesFacts
<1>3. ASSUME NEW i \in Items PROVE <<i>> \in Seq(Items) /\ SizeSum(<<i>>) = i.size
  <2>1. <<i>> \in Seq(Items) /\ Len(<<i>>) = 1 /\ <<i>>[1] = i /\ i.size \in Nat
    BY ItemFacts
  <2> DEFINE s == <<i>>
  <2> HIDE DEF s
  <2>2. s \in Seq(Items) /\ Len(s) = 1 /\ s[1] = i
    BY <2>1 DEF s
  <2>3. SizeSum(s) = Sizes(s)[1] /\ Sizes(s)[0] = 0 /\ Sizes(s)[1] = Sizes(s)[1 - 1] + s[1].size
    BY <2>2, SizesFacts
  <2>4. SizeSum(s) = i.size
    BY <2>1, <2>2, <2>3
  <2> QED BY <2>1, <2>4 DEF s
<1> QED BY <1>1, <1>2, <1>3

\* Sequences of the same sizes have the same sum.
LEMMA SameSizes ==
  ASSUME NEW s \in Seq(Items), NEW t \in Seq(Items), Len(s) = Len(t),
         \A n \in 1..Len(s) : s[n].size = t[n].size
  PROVE  SizeSum(s) = SizeSum(t)
<1>1. Len(s) \in Nat /\ \A n \in 1..Len(s) : s[n].size \in Int
  BY SeqItems
<1>2. GrowAlike(Sizes(t), Sizes(s), 0, Len(s))
  <2> SUFFICES ASSUME NEW n \in 1..Len(s)
               PROVE  \E c \in Int : /\ Sizes(s)[n] = Sizes(s)[n - 1] + c
                                     /\ Sizes(t)[0 + n] = Sizes(t)[0 + n - 1] + c
    BY DEF GrowAlike
  <2>1. 0 + n = n
    BY <1>1
  <2>2. Sizes(s)[n] = Sizes(s)[n - 1] + s[n].size
    BY SizesFacts
  <2>3. Sizes(t)[n] = Sizes(t)[n - 1] + s[n].size
    BY SizesFacts
  <2> QED BY <1>1, <2>1, <2>2, <2>3
<1>3. Sizes(s)[Len(s)] \in Int /\ Sizes(t)[0 + Len(s)] = Sizes(s)[Len(s)] + 0
  <2>1. Sizes(s)[0] \in Int /\ Sizes(t)[0] = Sizes(s)[0] + 0 /\ 0 \in Nat /\ 0 \in Int
    BY <1>1, SizesFacts
  <2> QED BY <1>1, <1>2, <2>1, SameGrowth
<1>4. 0 + Len(s) = Len(s) /\ SizeSum(s) = Sizes(s)[Len(s)] /\ SizeSum(t) = Sizes(t)[Len(t)]
  BY <1>1, SizesFacts
<1> QED BY <1>3, <1>4

-------------------------------------------------------------------------------
(* AudioCache: queues.                                                       *)

\* What a sequence of items holds, and in which order.
Held(s)         == {<<s[i].key, s[i].size>> : i \in DOMAIN s}
Before(s, x, y) == \E i, j \in DOMAIN s : i < j /\ s[i].key = x /\ s[j].key = y

\* A queue holds a key once.
LEMMA QueueFacts ==
  ASSUME NEW q \in Queues
  PROVE  /\ q \in Seq(Items) /\ Len(q) \in Nat /\ DOMAIN q = 1..Len(q) /\ SizeSum(q) \in Nat
         /\ \A i \in 1..Len(q) : /\ q[i] \in Items /\ q[i].key \in Keys /\ q[i].size \in Nat \ {0}
                                 /\ q[i].idle \in BOOLEAN /\ q[i].size \in Int
         /\ \A i, j \in 1..Len(q) : q[i].key = q[j].key => i = j
         /\ \A i, j \in 1..Len(q) : i < j /\ q[j].idle => q[i].idle
<1>1. q \in Seq(Items) /\ LruOrder(q)
  BY DEF Queues
<1>2. /\ Len(q) \in Nat /\ DOMAIN q = 1..Len(q)
      /\ \A i \in 1..Len(q) : /\ q[i] \in Items /\ q[i].key \in Keys /\ q[i].size \in Nat \ {0}
                              /\ q[i].idle \in BOOLEAN /\ q[i].size \in Int
  BY <1>1, SeqItems
<1>3. SizeSum(q) \in Nat
  BY <1>1, SizesFacts
<1>4. \A i, j \in 1..Len(q) : i < j => q[i].key # q[j].key /\ (q[j].idle => q[i].idle)
  BY <1>1, <1>2 DEF LruOrder
<1>5. \A i, j \in 1..Len(q) : q[i].key = q[j].key => i = j
  <2> SUFFICES ASSUME NEW i \in 1..Len(q), NEW j \in 1..Len(q), q[i].key = q[j].key, i # j
               PROVE  FALSE
    OBVIOUS
  <2>1. i < j \/ j < i
    BY <1>2
  <2> QED BY <1>4, <2>1
<1> QED BY <1>1, <1>2, <1>3, <1>4, <1>5

\* To be a queue.
LEMMA IsQueue ==
  ASSUME NEW q \in Seq(Items),
         \A i, j \in 1..Len(q) : i < j => q[i].key # q[j].key /\ (q[j].idle => q[i].idle)
  PROVE  q \in Queues
<1>1. DOMAIN q = 1..Len(q)
  OBVIOUS
<1> QED BY <1>1 DEF Queues, LruOrder

\* The two ways to say that a key is there.
LEMMA HasFacts ==
  ASSUME NEW q \in Queues, NEW x
  PROVE  /\ Has(q, x) <=> \E i \in 1..Len(q) : q[i].key = x
         /\ Has(q, x) <=> \E n : <<x, n>> \in Held(q)
         /\ Has(q, x) => /\ Place(q, x) \in 1..Len(q) /\ q[Place(q, x)].key = x
                         /\ Find(q, x) \in Items /\ Find(q, x).key = x
                         /\ SizeIn(q, x) = Find(q, x).size /\ SizeIn(q, x) \in Nat \ {0}
                         /\ \A n : <<x, n>> \in Held(q) <=> n = SizeIn(q, x)
         /\ ~Has(q, x) => SizeIn(q, x) = 0
<1>1. /\ DOMAIN q = 1..Len(q)
      /\ \A i \in 1..Len(q) : q[i] \in Items /\ q[i].size \in Nat \ {0}
      /\ \A i, j \in 1..Len(q) : q[i].key = q[j].key => i = j
  BY QueueFacts
<1>2. Has(q, x) <=> \E i \in 1..Len(q) : q[i].key = x
  BY <1>1 DEF Has
<1>3. Has(q, x) <=> \E n : <<x, n>> \in Held(q)
  <2>1. \A n : <<x, n>> \in Held(q) <=> \E i \in 1..Len(q) : q[i].key = x /\ q[i].size = n
    BY <1>1 DEF Held
  <2> QED BY <1>2, <2>1
<1>4. ASSUME Has(q, x)
      PROVE  /\ Place(q, x) \in 1..Len(q) /\ q[Place(q, x)].key = x
             /\ Find(q, x) \in Items /\ Find(q, x).key = x
             /\ SizeIn(q, x) = Find(q, x).size /\ SizeIn(q, x) \in Nat \ {0}
             /\ \A n : <<x, n>> \in Held(q) <=> n = SizeIn(q, x)
  <2>1. Place(q, x) \in 1..Len(q) /\ q[Place(q, x)].key = x
    BY <1>1, <1>2, <1>4 DEF Place
  <2>2. /\ Find(q, x) = q[Place(q, x)] /\ SizeIn(q, x) = Find(q, x).size
    BY <1>4 DEF Find, SizeIn
  <2>3. Find(q, x) \in Items /\ SizeIn(q, x) \in Nat \ {0} /\ Find(q, x).key = x
    BY <1>1, <2>1, <2>2
  <2>4. ASSUME NEW n PROVE <<x, n>> \in Held(q) <=> n = SizeIn(q, x)
    <3>1. <<x, n>> \in Held(q) <=> \E i \in 1..Len(q) : q[i].key = x /\ q[i].size = n
      BY <1>1 DEF Held
    <3> QED BY <1>1, <2>1, <2>2, <3>1
  <2> QED BY <2>1, <2>2, <2>3, <2>4
<1>5. ~Has(q, x) => SizeIn(q, x) = 0
  BY DEF SizeIn
<1> QED BY <1>2, <1>3, <1>4, <1>5

\* What is behind the first n elements.
LEMMA SuffixFacts ==
  ASSUME NEW S, NEW q \in Seq(S), NEW n \in 0..Len(q)
  PROVE  /\ SubSeq(q, n + 1, Len(q)) \in Seq(S) /\ Len(SubSeq(q, n + 1, Len(q))) = Len(q) - n
         /\ \A i \in 1..Len(q) - n : SubSeq(q, n + 1, Len(q))[i] = q[n + i]
<1> DEFINE N == Len(q)
           m == n + 1
<1>1. N \in Nat /\ \A i \in 1..N : q[i] \in S
  OBVIOUS
<1>2. m \in 1..N + 1 /\ n = m - 1 /\ m..N \subseteq 1..N
  BY <1>1
<1>3. m \in Int /\ N \in Int
  BY <1>1, <1>2
<1>4. \A i \in m..N : q[i] \in S
  BY <1>1, <1>2
<1> HIDE DEF N, m
<1>5. /\ SubSeq(q, m, N) \in Seq(S)
      /\ Len(SubSeq(q, m, N)) = IF m <= N THEN N - m + 1 ELSE 0
      /\ \A i \in 1..N - m + 1 : SubSeq(q, m, N)[i] = q[m + i - 1]
  BY <1>3, <1>4, SubSeqProperties
<1>6. N - m + 1 = N - n /\ (~(m <= N) => N - n = 0)
  BY <1>1, <1>2, <1>3
<1>7. \A i \in 1..N - n : m + i - 1 = n + i
  BY <1>1, <1>2, <1>3
<1>8. SubSeq(q, m, N) \in Seq(S) /\ Len(SubSeq(q, m, N)) = N - n
  BY <1>5, <1>6
<1>9. \A i \in 1..N - n : SubSeq(q, m, N)[i] = q[n + i]
  BY <1>5, <1>6, <1>7
<1> QED BY <1>8, <1>9 DEF N, m

\* The oldest items leave.
LEMMA CutFacts ==
  ASSUME NEW q \in Queues, NEW n \in 0..Len(q)
  PROVE  /\ Newest(q, n) \in Queues /\ Len(Newest(q, n)) = Len(q) - n
         /\ \A i \in 1..Len(q) - n : Newest(q, n)[i] = q[n + i]
         /\ SizeSum(Newest(q, n)) \in Nat /\ SizeSum(Oldest(q, n)) \in Nat
         /\ SizeSum(q) = SizeSum(Oldest(q, n)) + SizeSum(Newest(q, n))
<1> DEFINE t == Newest(q, n)
           o == Oldest(q, n)
<1>0. q \in Seq(Items) /\ Len(q) \in Nat /\ DOMAIN q = 1..Len(q)
  BY QueueFacts
<1>1. /\ t \in Seq(Items) /\ Len(t) = Len(q) - n /\ \A i \in 1..Len(q) - n : t[i] = q[n + i]
      /\ o \in Seq(Items) /\ o \o t = q
  <2>1. t \in Seq(Items) /\ Len(t) = Len(q) - n /\ \A i \in 1..Len(q) - n : t[i] = q[n + i]
    BY <1>0, SuffixFacts DEF Newest
  <2>2. o \in Seq(Items)
    BY <1>0 DEF Oldest
  <2>3. o \o t = SubSeq(q, 1, Len(q))
    <3>1. 1 \in 1..Len(q) + 1 /\ n \in 1 - 1..Len(q) /\ Len(q) \in n..Len(q)
      BY <1>0
    <3> QED BY <1>0, <3>1, ConcatAdjacentSubSeq, Zenon DEF Newest, Oldest
  <2>4. SubSeq(q, 1, Len(q)) = q
    BY <1>0, SubSeqFull
  <2> QED BY <2>1, <2>2, <2>3, <2>4
<1>2. t \in Queues
  <2> HIDE DEF t
  <2> SUFFICES ASSUME NEW i \in 1..Len(t), NEW j \in 1..Len(t), i < j
               PROVE  t[i].key # t[j].key /\ (t[j].idle => t[i].idle)
    BY <1>1, IsQueue
  <2>1. i \in 1..Len(q) - n /\ j \in 1..Len(q) - n
    BY <1>0, <1>1
  <2>2. n + i \in 1..Len(q) /\ n + j \in 1..Len(q) /\ n + i < n + j /\ n + i # n + j
    BY <1>0, <2>1
  <2>3. t[i] = q[n + i] /\ t[j] = q[n + j]
    BY <1>1, <2>1
  <2> QED BY <2>2, <2>3, QueueFacts
<1>3. SizeSum(o \o t) = SizeSum(o) + SizeSum(t) /\ SizeSum(o) \in Nat /\ SizeSum(t) \in Nat
  <2> HIDE DEF o, t
  <2> QED BY <1>1, SizeOfConcat
<1> QED BY <1>1, <1>2, <1>3

\* The others stay in their order.
LEMMA CutOrder ==
  ASSUME NEW q \in Queues, NEW n \in 0..Len(q)
  PROVE  /\ Held(Newest(q, n)) \subseteq Held(q)
         /\ \A x, y : Before(Newest(q, n), x, y) <=> /\ Before(q, x, y)
                                                    /\ Has(Newest(q, n), x) /\ Has(Newest(q, n), y)
<1> DEFINE t == Newest(q, n)
<1>1. /\ t \in Queues /\ Len(t) = Len(q) - n /\ \A i \in 1..Len(t) : t[i] = q[n + i]
  BY CutFacts
<1> HIDE DEF t
<1>2. /\ DOMAIN t = 1..Len(t) /\ DOMAIN q = 1..Len(q) /\ Len(q) \in Nat
      /\ \A i, j \in 1..Len(q) : q[i].key = q[j].key => i = j
  BY <1>1, QueueFacts
<1>3. \A i \in 1..Len(t) : n + i \in 1..Len(q)
  BY <1>1, <1>2
<1>4. Held(t) \subseteq Held(q)
  <2> SUFFICES ASSUME NEW i \in 1..Len(t) PROVE <<t[i].key, t[i].size>> \in Held(q)
    BY <1>2 DEF Held
  <2>1. t[i] = q[n + i] /\ n + i \in DOMAIN q
    BY <1>1, <1>2, <1>3
  <2> QED BY <2>1 DEF Held
<1>5. ASSUME NEW x, NEW y, Before(t, x, y) PROVE Before(q, x, y) /\ Has(t, x) /\ Has(t, y)
  <2>1. PICK i, j \in 1..Len(t) : i < j /\ t[i].key = x /\ t[j].key = y
    BY <1>2, <1>5 DEF Before
  <2>2. n + i < n + j /\ q[n + i].key = x /\ q[n + j].key = y
    BY <1>1, <2>1
  <2> QED BY <1>2, <1>3, <2>1, <2>2 DEF Before, Has
<1>6. ASSUME NEW x, NEW y, Before(q, x, y), Has(t, x), Has(t, y) PROVE Before(t, x, y)
  <2>1. PICK a, b \in 1..Len(q) : a < b /\ q[a].key = x /\ q[b].key = y
    BY <1>2, <1>6 DEF Before
  <2>2. PICK i, j \in 1..Len(t) : t[i].key = x /\ t[j].key = y
    BY <1>2, <1>6 DEF Has
  <2>3. n + i = a /\ n + j = b
    BY <1>1, <1>2, <1>3, <2>1, <2>2
  <2>4. i < j
    BY <1>1, <1>2, <2>1, <2>3
  <2> QED BY <1>2, <2>2, <2>4 DEF Before
<1> QED BY <1>4, <1>5, <1>6 DEF t

\* How many of the oldest items go.
LEMMA SurplusFacts ==
  ASSUME NEW q \in Queues, NEW total, NEW entries, NEW bytes, NEW stuck
  PROVE  LET n == Surplus(q, total, entries, bytes, stuck)
             Enough(m) == \/ m = Len(q)
                          \/ q[m + 1].key \in stuck
                          \/ Len(q) - m <= entries /\ total - SizeSum(Oldest(q, m)) <= bytes
         IN  n \in 0..Len(q) /\ Enough(n) /\ \A m \in 0..Len(q) : Enough(m) => n <= m
<1> DEFINE N == {n \in 0..Len(q) : \/ n = Len(q)
                                   \/ q[n + 1].key \in stuck
                                   \/ /\ Len(q) - n <= entries
                                      /\ total - SizeSum(Oldest(q, n)) <= bytes}
<1>1. Len(q) \in Nat
  BY QueueFacts
<1>2. N \subseteq Nat /\ Len(q) \in N
  BY <1>1
<1>3. \E n \in N : \A m \in N : n <= m
  <2> HIDE DEF N
  <2> QED BY <1>2, Least
<1>4. Surplus(q, total, entries, bytes, stuck) = CHOOSE n \in N : \A m \in N : n <= m
  BY DEF Surplus, Min
<1> DEFINE g == Surplus(q, total, entries, bytes, stuck)
<1>5. g \in N /\ \A m \in N : g <= m
  <2> HIDE DEF N
  <2> QED BY <1>3, <1>4
<1> HIDE DEF g
<1>6. /\ g \in 0..Len(q)
      /\ \/ g = Len(q)
         \/ q[g + 1].key \in stuck
         \/ Len(q) - g <= entries /\ total - SizeSum(Oldest(q, g)) <= bytes
  BY <1>5
<1>7. \A m \in 0..Len(q) : \/ m = Len(q)
                           \/ q[m + 1].key \in stuck
                           \/ Len(q) - m <= entries /\ total - SizeSum(Oldest(q, m)) <= bytes
                           => g <= m
  BY <1>5
<1> QED BY <1>6, <1>7 DEF g

\* The idle items are the oldest.
LEMMA ExpiredFacts ==
  ASSUME NEW q \in Queues
  PROVE  Expired(q) \in 0..Len(q) /\ \A i \in 1..Len(q) : q[i].idle <=> i <= Expired(q)
<1> DEFINE N == {n \in 0..Len(q) : n = Len(q) \/ ~q[n + 1].idle}
           e == Expired(q)
<1>1. /\ Len(q) \in Nat
      /\ \A i, j \in 1..Len(q) : i < j /\ q[j].idle => q[i].idle
  BY QueueFacts
<1>2. N \subseteq Nat /\ Len(q) \in N
  BY <1>1
<1>3. \E n \in N : \A m \in N : n <= m
  <2> HIDE DEF N
  <2> QED BY <1>2, Least
<1>4. Expired(q) = CHOOSE n \in N : \A m \in N : n <= m
  BY DEF Expired, Min
<1>5. e \in N /\ \A m \in N : e <= m
  <2> HIDE DEF N
  <2> QED BY <1>3, <1>4
<1> HIDE DEF e
<1>6. ASSUME NEW i \in 1..Len(q), i <= e PROVE q[i].idle
  <2>1. i - 1 \in 0..Len(q) /\ i - 1 # Len(q) /\ (i - 1) + 1 = i /\ ~(e <= i - 1)
    BY <1>1, <1>5, <1>6
  <2>2. i - 1 \notin N
    BY <1>5, <2>1
  <2> QED BY <2>1, <2>2
<1>7. ASSUME NEW i \in 1..Len(q), ~(i <= e) PROVE ~q[i].idle
  <2>1. e + 1 \in 1..Len(q) /\ (e + 1 = i \/ e + 1 < i) /\ e # Len(q)
    BY <1>1, <1>5, <1>7
  <2>2. ~q[e + 1].idle
    BY <1>5, <2>1
  <2> QED BY <1>1, <2>1, <2>2
<1> QED BY <1>5, <1>6, <1>7 DEF e

\* What is not idle.
LEMMA LiveFacts ==
  ASSUME NEW q \in Queues
  PROVE  /\ Live(q) \in Queues /\ Live(q) = Newest(q, Expired(q)) /\ Expired(q) \in 0..Len(q)
         /\ \A i \in 1..Len(Live(q)) : ~Live(q)[i].idle
         /\ SizeSum(q) - SizeSum(Idle(q)) = SizeSum(Live(q))
         /\ Len(Live(q)) <= Len(q) /\ SizeSum(Live(q)) <= SizeSum(q)
         /\ \A x : Has(Live(q), x) <=> Has(q, x) /\ ~Find(q, x).idle
         /\ \A x : Has(Live(q), x) => Find(Live(q), x) = Find(q, x)
<1> DEFINE e == Expired(q)
           t == Live(q)
<1>1. e \in 0..Len(q) /\ \A i \in 1..Len(q) : q[i].idle <=> i <= e
  BY ExpiredFacts
<1>2. /\ t \in Queues /\ t = Newest(q, e) /\ Len(t) = Len(q) - e
      /\ \A i \in 1..Len(q) - e : t[i] = q[e + i]
      /\ SizeSum(q) = SizeSum(Idle(q)) + SizeSum(t)
      /\ SizeSum(Idle(q)) \in Nat /\ SizeSum(t) \in Nat
  BY <1>1, CutFacts DEF Live, Idle
<1> HIDE DEF e, t
<1>3. Len(q) \in Nat
  BY QueueFacts
<1>4. \A i \in 1..Len(t) : e + i \in 1..Len(q) /\ t[i] = q[e + i] /\ ~(e + i <= e)
  BY <1>1, <1>2, <1>3
<1>5. \A i \in 1..Len(t) : ~t[i].idle
  BY <1>1, <1>4
<1>6. ASSUME NEW x, Has(t, x) PROVE Has(q, x) /\ ~Find(q, x).idle /\ Find(t, x) = Find(q, x)
  <2>1. /\ Place(t, x) \in 1..Len(t) /\ t[Place(t, x)].key = x /\ Find(t, x) = t[Place(t, x)]
    BY <1>2, <1>6, HasFacts DEF Find
  <2>2. e + Place(t, x) \in 1..Len(q) /\ t[Place(t, x)] = q[e + Place(t, x)]
    BY <1>4, <2>1
  <2>3. Has(q, x)
    BY <2>1, <2>2, HasFacts
  <2>4. Place(q, x) \in 1..Len(q) /\ q[Place(q, x)].key = x /\ Find(q, x) = q[Place(q, x)]
    BY <2>3, HasFacts DEF Find
  <2>5. Place(q, x) = e + Place(t, x)
    BY <2>1, <2>2, <2>4, QueueFacts
  <2> QED BY <1>5, <2>1, <2>2, <2>3, <2>4, <2>5
<1>7. ASSUME NEW x, Has(q, x), ~Find(q, x).idle PROVE Has(t, x)
  <2>1. Place(q, x) \in 1..Len(q) /\ q[Place(q, x)].key = x /\ ~q[Place(q, x)].idle
    BY <1>7, HasFacts DEF Find
  <2>2. Place(q, x) - e \in 1..Len(t) /\ e + (Place(q, x) - e) = Place(q, x)
    BY <1>1, <1>2, <1>3, <2>1
  <2>3. t[Place(q, x) - e].key = x
    BY <1>4, <2>1, <2>2
  <2> QED BY <1>2, <2>2, <2>3, HasFacts
<1>8. Len(t) <= Len(q) /\ SizeSum(t) <= SizeSum(q) /\ SizeSum(q) - SizeSum(Idle(q)) = SizeSum(t)
  BY <1>1, <1>2, <1>3
<1> QED BY <1>1, <1>2, <1>5, <1>6, <1>7, <1>8 DEF e, t

\* An item that is not idle is the last to come.
LEMMA AppendHolds ==
  ASSUME NEW q \in Queues, NEW i \in Items, ~i.idle, ~Has(q, i.key)
  PROVE  /\ Append(q, i) \in Queues /\ Len(Append(q, i)) = Len(q) + 1
         /\ Append(q, i)[Len(q) + 1] = i
         /\ \A n \in 1..Len(q) : Append(q, i)[n] = q[n]
         /\ SizeSum(Append(q, i)) = SizeSum(q) + i.size
         /\ SizeSum(Oldest(Append(q, i), Len(q))) = SizeSum(q)
         /\ Held(Append(q, i)) = Held(q) \cup {<<i.key, i.size>>}
         /\ \A x, y : Before(Append(q, i), x, y) <=> Before(q, x, y) \/ (Has(q, x) /\ y = i.key)
<1> DEFINE t == Append(q, i)
           N == Len(q)
<1>1. /\ t \in Seq(Items) /\ Len(t) = N + 1 /\ t[N + 1] = i /\ \A n \in 1..N : t[n] = q[n]
      /\ q \in Seq(Items) /\ N \in Nat /\ DOMAIN q = 1..N /\ DOMAIN t = 1..N + 1
      /\ t = q \o <<i>>
  BY QueueFacts
<1>2. /\ \A a, b \in 1..N : q[a].key = q[b].key => a = b
      /\ \A a, b \in 1..N : a < b /\ q[b].idle => q[a].idle
      /\ \A n \in 1..N : q[n].key # i.key
  BY QueueFacts, HasFacts
<1>3. SizeSum(t) = SizeSum(q) + i.size
  <2>1. <<i>> \in Seq(Items) /\ SizeSum(<<i>>) = i.size
    BY SizeOfOne
  <2> DEFINE u == <<i>>
  <2> HIDE DEF u
  <2>2. u \in Seq(Items) /\ SizeSum(u) = i.size /\ t = q \o u
    BY <1>1, <2>1 DEF u
  <2> HIDE DEF t
  <2> QED BY <1>1, <2>2, SizeOfConcat
<1>4. Oldest(t, N) = q
  <2> HIDE DEF t
  <2>1. N + 1 \in Nat /\ N <= N + 1
    BY <1>1
  <2>2. Oldest(t, N) \in Seq(Items) /\ Len(Oldest(t, N)) = N /\ \A n \in 1..N : Oldest(t, N)[n] = t[n]
    BY <1>1, <2>1 DEF Oldest
  <2> QED BY <1>1, <2>2, SeqEqual
<1> HIDE DEF t
<1>5. t \in Queues
  <2> SUFFICES ASSUME NEW a \in 1..N + 1, NEW b \in 1..N + 1, a < b
               PROVE  t[a].key # t[b].key /\ (t[b].idle => t[a].idle)
    BY <1>1, IsQueue
  <2>1. a \in 1..N /\ t[a] = q[a] /\ a # b
    BY <1>1
  <2>2. CASE b \in 1..N
    BY <1>1, <1>2, <2>1, <2>2
  <2>3. CASE b = N + 1
    BY <1>1, <1>2, <2>1, <2>3
  <2> QED BY <1>1, <2>2, <2>3
<1>6. Held(t) = Held(q) \cup {<<i.key, i.size>>}
  <2>1. \A p : p \in Held(t) <=> \E n \in 1..N + 1 : p = <<t[n].key, t[n].size>>
    BY <1>1 DEF Held
  <2>2. \A p : p \in Held(q) <=> \E n \in 1..N : p = <<q[n].key, q[n].size>>
    BY <1>1 DEF Held
  <2>3. \A n \in 1..N + 1 : n \in 1..N \/ n = N + 1
    BY <1>1
  <2>4. 1..N \subseteq 1..N + 1 /\ N + 1 \in 1..N + 1
    BY <1>1
  <2> QED BY <1>1, <2>1, <2>2, <2>3, <2>4
<1>7. ASSUME NEW x, NEW y, Before(t, x, y) PROVE Before(q, x, y) \/ (Has(q, x) /\ y = i.key)
  <2>1. PICK a, b \in 1..N + 1 : a < b /\ t[a].key = x /\ t[b].key = y
    BY <1>1, <1>7 DEF Before
  <2>2. a \in 1..N /\ q[a].key = x
    BY <1>1, <2>1
  <2>3. CASE b \in 1..N
    <3>1. q[b].key = y
      BY <1>1, <2>1, <2>3
    <3>2. a \in DOMAIN q /\ b \in DOMAIN q /\ a < b
      BY <1>1, <2>1, <2>2, <2>3
    <3> QED BY <2>2, <3>1, <3>2 DEF Before
  <2>4. CASE b = N + 1
    BY <1>1, <2>1, <2>2, <2>4 DEF Has
  <2> QED BY <1>1, <2>3, <2>4
<1>8. ASSUME NEW x, NEW y, Before(q, x, y) \/ (Has(q, x) /\ y = i.key) PROVE Before(t, x, y)
  <2>1. CASE Before(q, x, y)
    <3>1. PICK a, b \in 1..N : a < b /\ q[a].key = x /\ q[b].key = y
      BY <1>1, <2>1 DEF Before
    <3>2. a \in 1..N + 1 /\ b \in 1..N + 1 /\ t[a].key = x /\ t[b].key = y
      BY <1>1, <3>1
    <3> QED BY <1>1, <3>1, <3>2 DEF Before
  <2>2. CASE Has(q, x) /\ y = i.key
    <3>1. PICK a \in 1..N : q[a].key = x
      BY <1>1, <2>2 DEF Has
    <3>2. a \in 1..N + 1 /\ N + 1 \in 1..N + 1 /\ a < N + 1 /\ t[a].key = x /\ t[N + 1].key = y
      BY <1>1, <2>2, <3>1
    <3> QED BY <1>1, <3>2 DEF Before
  <2> QED BY <1>8, <2>1, <2>2
<1> QED BY <1>1, <1>3, <1>4, <1>5, <1>6, <1>7, <1>8 DEF t

\* An item is taken out.
LEMMA RemoveFacts ==
  ASSUME NEW q \in Queues, NEW p \in 1..Len(q)
  PROVE  /\ RemoveAt(q, p) \in Queues /\ Len(RemoveAt(q, p)) = Len(q) - 1
         /\ \A i \in 1..Len(q) - 1 : RemoveAt(q, p)[i] = IF i < p THEN q[i] ELSE q[i + 1]
         /\ SizeSum(q) = SizeSum(RemoveAt(q, p)) + q[p].size
<1> DEFINE a == SubSeq(q, 1, p - 1)
           z == SubSeq(q, p + 1, Len(q))
           w == RemoveAt(q, p)
           N == Len(q)
<1>1. q \in Seq(Items) /\ N \in Nat /\ DOMAIN q = 1..N
  BY QueueFacts
<1>2. /\ a \in Seq(Items) /\ Len(a) = p - 1 /\ \A i \in 1..p - 1 : a[i] = q[i]
      /\ z \in Seq(Items) /\ Len(z) = N - p /\ \A i \in 1..N - p : z[i] = q[p + i]
  <2>1. a \in Seq(Items) /\ Len(a) = p - 1 /\ \A i \in 1..p - 1 : a[i] = q[i]
    BY <1>1
  <2>2. z \in Seq(Items) /\ Len(z) = N - p
    <3>1. p \in 0..Len(q)
      BY <1>1
    <3>2. Newest(q, p) \in Queues /\ Len(Newest(q, p)) = Len(q) - p
      BY <3>1, CutFacts
    <3> QED BY <3>2, QueueFacts DEF Newest
  <2>3. \A i \in 1..N - p : z[i] = q[p + i]
    BY <1>1
  <2> QED BY <2>1, <2>2, <2>3
<1>3. w = a \o z
  BY DEF RemoveAt
<1>4. q = (a \o <<q[p]>>) \o z /\ q[p] \in Items
  <2>1. 1 \in 1..Len(q) + 1 /\ p - 1 \in 1 - 1..Len(q) /\ p \in p - 1..Len(q) /\ (p - 1) + 1 = p
        /\ p \in 1 - 1..Len(q) /\ Len(q) \in p..Len(q) /\ p \in 1..Len(q) /\ 1 \in 1..Len(q) /\ p \in 1..p
        /\ p \in 1..Len(q) /\ p \in p..Len(q)
    BY <1>1
  <2>2. SubSeq(q, 1, p) \o SubSeq(q, p + 1, Len(q)) = SubSeq(q, 1, Len(q))
    BY <1>1, <2>1, ConcatAdjacentSubSeq, Zenon
  <2>3. SubSeq(q, 1, p) = SubSeq(q, 1, p - 1) \o <<q[p]>>
    BY <1>1, <2>1, SubSeqRecursiveSecond
  <2>4. SubSeq(q, 1, Len(q)) = q
    BY <1>1, SubSeqFull
  <2>5. q[p] \in Items
    BY QueueFacts
  <2> QED BY <2>2, <2>3, <2>4, <2>5
<1> HIDE DEF a, z, w
<1>5. w \in Seq(Items) /\ Len(w) = N - 1
      /\ \A i \in 1..N - 1 : w[i] = IF i < p THEN q[i] ELSE q[i + 1]
  <2>1. w \in Seq(Items) /\ Len(w) = N - 1
    <3>1. (p - 1) + (N - p) = N - 1
      BY <1>1
    <3>2. a \o z \in Seq(Items) /\ Len(a \o z) = Len(a) + Len(z)
      BY <1>2, ConcatProperties
    <3> QED BY <1>2, <1>3, <3>1, <3>2
  <2>2. ASSUME NEW i \in 1..N - 1, i < p PROVE w[i] = q[i]
    <3>1. i \in 1..p - 1 /\ i \in 1..Len(a)
      BY <1>1, <1>2, <2>2
    <3>2. w[i] = a[i]
      BY <1>2, <1>3, <3>1
    <3> QED BY <1>2, <3>1, <3>2
  <2>3. ASSUME NEW i \in 1..N - 1, ~(i < p) PROVE w[i] = q[i + 1]
    <3>1. i - (p - 1) \in 1..N - p /\ p + (i - (p - 1)) = i + 1 /\ ~(i <= p - 1)
          /\ i \in 1..Len(a) + Len(z)
      BY <1>1, <1>2, <2>3
    <3>2. (a \o z)[i] = IF i <= Len(a) THEN a[i] ELSE z[i - Len(a)]
      BY <1>2, <3>1, ConcatProperties
    <3>3. w[i] = z[i - (p - 1)]
      BY <1>2, <1>3, <3>1, <3>2
    <3> QED BY <1>2, <3>1, <3>3
  <2> QED BY <2>1, <2>2, <2>3
<1>6. w \in Queues
  <2> SUFFICES ASSUME NEW i \in 1..N - 1, NEW j \in 1..N - 1, i < j
               PROVE  w[i].key # w[j].key /\ (w[j].idle => w[i].idle)
    BY <1>5, IsQueue
  <2> DEFINE u == IF i < p THEN i ELSE i + 1
             v == IF j < p THEN j ELSE j + 1
  <2>1. u \in 1..N /\ v \in 1..N /\ u < v /\ u # v
    BY <1>1
  <2>2. w[i] = q[u] /\ w[j] = q[v]
    BY <1>5
  <2> HIDE DEF u, v
  <2>3. q[u].key # q[v].key /\ (q[v].idle => q[u].idle)
    BY <2>1, QueueFacts
  <2> QED BY <2>2, <2>3
<1>7. SizeSum(q) = SizeSum(w) + q[p].size
  <2>1. <<q[p]>> \in Seq(Items) /\ SizeSum(<<q[p]>>) = q[p].size
    BY <1>4, SizeOfOne
  <2> DEFINE o == <<q[p]>>
             n == q[p].size
  <2>2. n \in Nat
    BY QueueFacts
  <2> HIDE DEF o, n
  <2>3. o \in Seq(Items) /\ SizeSum(o) = n /\ q = (a \o o) \o z
    BY <1>4, <2>1 DEF o, n
  <2>4. /\ a \o o \in Seq(Items) /\ SizeSum(a \o o) = SizeSum(a) + SizeSum(o)
        /\ SizeSum(a) \in Nat /\ SizeSum(o) \in Nat
    BY <1>2, <2>3, SizeOfConcat
  <2>5. SizeSum((a \o o) \o z) = SizeSum(a \o o) + SizeSum(z) /\ SizeSum(z) \in Nat
    BY <1>2, <2>4, SizeOfConcat
  <2>6. SizeSum(a \o z) = SizeSum(a) + SizeSum(z)
    BY <1>2, SizeOfConcat
  <2>7. SizeSum(q) = SizeSum(a \o o) + SizeSum(z) /\ SizeSum(w) = SizeSum(a) + SizeSum(z)
    BY <1>3, <2>3, <2>5, <2>6
  <2> QED BY <2>2, <2>3, <2>4, <2>5, <2>7 DEF n
<1> QED BY <1>5, <1>6, <1>7 DEF w

\* The item of a key is taken out.
LEMMA WithoutFacts ==
  ASSUME NEW q \in Queues, NEW k
  PROVE  /\ Without(q, k) \in Queues /\ ~Has(Without(q, k), k)
         /\ Len(Without(q, k)) = Len(q) - (IF Has(q, k) THEN 1 ELSE 0)
         /\ SizeSum(Without(q, k)) = SizeSum(q) - SizeIn(q, k)
         /\ SizeIn(q, k) \in Nat /\ SizeIn(q, k) <= SizeSum(q)
         /\ Held(Without(q, k)) \subseteq Held(q)
         /\ \A x, n : <<x, n>> \in Held(Without(q, k)) <=> <<x, n>> \in Held(q) /\ x # k
         /\ \A x, y : Before(Without(q, k), x, y) <=> Before(q, x, y) /\ x # k /\ y # k
<1> DEFINE w == Without(q, k)
           N == Len(q)
<1>1. /\ q \in Seq(Items) /\ N \in Nat /\ DOMAIN q = 1..N /\ SizeSum(q) \in Nat
      /\ \A i \in 1..N : q[i].size \in Nat
      /\ \A i, j \in 1..N : q[i].key = q[j].key => i = j
  BY QueueFacts
<1>2. CASE ~Has(q, k)
  <2>1. w = q /\ SizeIn(q, k) = 0
    BY <1>2 DEF Without, SizeIn
  <2>2. \A i \in 1..N : q[i].key # k
    BY <1>2, HasFacts
  <2>3. \A n : <<k, n>> \notin Held(q)
    BY <1>2, HasFacts
  <2>4. \A x, y : Before(q, x, y) => x # k /\ y # k
    BY <1>1, <2>2 DEF Before
  <2> HIDE DEF w
  <2>5. /\ w \in Queues /\ ~Has(w, k) /\ Len(w) = Len(q) - (IF Has(q, k) THEN 1 ELSE 0)
        /\ SizeSum(w) = SizeSum(q) - SizeIn(q, k) /\ SizeIn(q, k) \in Nat /\ SizeIn(q, k) <= SizeSum(q)
    BY <1>1, <1>2, <2>1
  <2>6. Held(w) \subseteq Held(q) /\ \A x, n : <<x, n>> \in Held(w) <=> <<x, n>> \in Held(q) /\ x # k
    BY <2>1, <2>3
  <2>7. \A x, y : Before(w, x, y) <=> Before(q, x, y) /\ x # k /\ y # k
    BY <2>1, <2>4
  <2> QED BY <2>5, <2>6, <2>7 DEF w
<1>3. CASE Has(q, k)
  <2> DEFINE p == Place(q, k)
  <2>1. p \in 1..N /\ q[p].key = k /\ SizeIn(q, k) = q[p].size /\ w = RemoveAt(q, p)
    BY <1>3, HasFacts DEF Without, Find
  <2> HIDE DEF p, w
  <2>2. /\ w \in Queues /\ Len(w) = N - 1 /\ SizeSum(q) = SizeSum(w) + q[p].size
        /\ \A i \in 1..N - 1 : w[i] = IF i < p THEN q[i] ELSE q[i + 1]
    BY <2>1, RemoveFacts
  <2>3. DOMAIN w = 1..N - 1 /\ SizeSum(w) \in Nat
    BY <2>2, QueueFacts
  <2>4. \A i \in 1..N - 1 : i < p => i \in 1..N /\ i # p /\ w[i] = q[i]
    BY <1>1, <2>2
  <2>5. \A i \in 1..N - 1 : ~(i < p) => i + 1 \in 1..N /\ i + 1 # p /\ w[i] = q[i + 1]
    BY <1>1, <2>1, <2>2
  <2>6. \A i \in 1..N : i < p => i \in 1..N - 1 /\ w[i] = q[i]
    BY <1>1, <2>1, <2>2
  <2>7. \A i \in 1..N : ~(i < p) /\ i # p => i - 1 \in 1..N - 1 /\ ~(i - 1 < p) /\ w[i - 1] = q[i]
    <3> SUFFICES ASSUME NEW i \in 1..N, ~(i < p), i # p
                 PROVE  i - 1 \in 1..N - 1 /\ ~(i - 1 < p) /\ w[i - 1] = q[i]
      OBVIOUS
    <3>1. i - 1 \in 1..N - 1 /\ ~(i - 1 < p) /\ (i - 1) + 1 = i
      BY <1>1, <2>1
    <3> QED BY <2>2, <3>1
  <2>8. \A i \in 1..N : q[i].key = k => i = p
    BY <1>1, <2>1
  <2>9. \A i \in 1..N - 1 : w[i].key # k
    <3> SUFFICES ASSUME NEW i \in 1..N - 1 PROVE w[i].key # k
      OBVIOUS
    <3>1. CASE i < p
      BY <2>4, <2>8, <3>1
    <3>2. CASE ~(i < p)
      BY <2>5, <2>8, <3>2
    <3> QED BY <3>1, <3>2
  <2>10. ~Has(w, k)
    BY <2>3, <2>9 DEF Has
  <2>11. \A x, n : <<x, n>> \in Held(w) <=> <<x, n>> \in Held(q) /\ x # k
    <3>1. ASSUME NEW x, NEW n, <<x, n>> \in Held(w) PROVE <<x, n>> \in Held(q) /\ x # k
      <4>1. PICK i \in 1..N - 1 : <<x, n>> = <<w[i].key, w[i].size>>
        BY <2>3, <3>1 DEF Held
      <4>2. \E j \in 1..N : w[i] = q[j]
        BY <2>4, <2>5
      <4> QED BY <1>1, <2>9, <4>1, <4>2 DEF Held
    <3>2. ASSUME NEW x, NEW n, <<x, n>> \in Held(q), x # k PROVE <<x, n>> \in Held(w)
      <4>1. PICK i \in 1..N : <<x, n>> = <<q[i].key, q[i].size>>
        BY <1>1, <3>2 DEF Held
      <4>2. i # p
        BY <2>1, <3>2, <4>1
      <4>3. \E j \in 1..N - 1 : w[j] = q[i]
        BY <2>6, <2>7, <4>2
      <4> QED BY <2>3, <4>1, <4>3 DEF Held
    <3> QED BY <3>1, <3>2
  <2>12. Held(w) \subseteq Held(q)
    <3> SUFFICES ASSUME NEW i \in 1..N - 1 PROVE <<w[i].key, w[i].size>> \in Held(q)
      BY <2>3 DEF Held
    <3>1. <<w[i].key, w[i].size>> \in Held(w)
      BY <2>3 DEF Held
    <3> QED BY <2>11, <3>1
  <2>13. ASSUME NEW x, NEW y, Before(w, x, y) PROVE Before(q, x, y) /\ x # k /\ y # k
    <3>1. PICK i, j \in 1..N - 1 : i < j /\ w[i].key = x /\ w[j].key = y
      BY <2>3, <2>13 DEF Before
    <3>2. \E a, b \in 1..N : a < b /\ w[i] = q[a] /\ w[j] = q[b]
      <4>1. CASE i < p /\ j < p
        BY <2>4, <3>1, <4>1
      <4>2. CASE i < p /\ ~(j < p)
        <5>1. i < j + 1
          BY <1>1, <3>1
        <5> QED BY <2>4, <2>5, <4>2, <5>1
      <4>3. CASE ~(i < p)
        <5>1. i + 1 < j + 1 /\ ~(j < p)
          BY <1>1, <2>1, <3>1, <4>3
        <5> QED BY <2>5, <4>3, <5>1
      <4> QED BY <4>1, <4>2, <4>3
    <3>3. PICK a, b \in 1..N : a < b /\ q[a].key = x /\ q[b].key = y
      BY <3>1, <3>2
    <3>4. Before(q, x, y)
      BY <1>1, <3>3 DEF Before
    <3> QED BY <2>9, <3>1, <3>4
  <2>14. ASSUME NEW x, NEW y, Before(q, x, y), x # k, y # k PROVE Before(w, x, y)
    <3>1. PICK a, b \in 1..N : a < b /\ q[a].key = x /\ q[b].key = y
      BY <1>1, <2>14 DEF Before
    <3>2. a # p /\ b # p
      BY <2>1, <2>14, <3>1
    <3>3. \E i, j \in 1..N - 1 : i < j /\ w[i] = q[a] /\ w[j] = q[b]
      <4>1. CASE a < p /\ b < p
        BY <2>6, <3>1, <4>1
      <4>2. CASE a < p /\ ~(b < p)
        <5>1. a < b - 1
          BY <1>1, <2>1, <3>2, <4>2
        <5> QED BY <2>6, <2>7, <3>2, <4>2, <5>1
      <4>3. CASE ~(a < p)
        <5>1. a - 1 < b - 1 /\ ~(b < p)
          BY <1>1, <2>1, <3>1, <4>3
        <5> QED BY <2>7, <3>2, <4>3, <5>1
      <4> QED BY <4>1, <4>2, <4>3
    <3> QED BY <2>3, <3>1, <3>3 DEF Before
  <2>15. /\ SizeSum(w) = SizeSum(q) - SizeIn(q, k) /\ SizeIn(q, k) \in Nat /\ SizeIn(q, k) <= SizeSum(q)
         /\ Len(w) = Len(q) - (IF Has(q, k) THEN 1 ELSE 0)
    <3>1. q[p].size \in Nat
      BY <1>1, <2>1
    <3>2. SizeSum(q) = SizeSum(w) + SizeIn(q, k) /\ SizeIn(q, k) \in Nat
      BY <2>1, <2>2, <3>1
    <3>3. Len(w) = Len(q) - (IF Has(q, k) THEN 1 ELSE 0)
      BY <1>3, <2>2
    <3>4. SizeSum(q) \in Nat
      BY <1>1
    <3>5. SizeSum(w) = SizeSum(q) - SizeIn(q, k) /\ SizeIn(q, k) <= SizeSum(q)
      BY <2>3, <3>2, <3>4
    <3> QED BY <3>2, <3>3, <3>5
  <2> QED BY <2>2, <2>10, <2>11, <2>12, <2>13, <2>14, <2>15 DEF w
<1> QED BY <1>2, <1>3

\* An item takes the place behind all others.
LEMMA MovedFacts ==
  ASSUME NEW q \in Queues, NEW i \in Items, ~i.idle
  PROVE  LET w == Without(q, i.key)
             t == Append(w, i)
         IN  /\ t \in Queues /\ Len(t) = Len(w) + 1 /\ t[Len(t)] = i /\ Len(t) \in 1..Len(q) + 1
             /\ Len(w) = Len(q) - (IF Has(q, i.key) THEN 1 ELSE 0)
             /\ SizeSum(t) = SizeSum(q) - SizeIn(q, i.key) + i.size
             /\ SizeSum(t) - SizeSum(Oldest(t, Len(t) - 1)) = i.size
             /\ SizeSum(w) = SizeSum(q) - SizeIn(q, i.key) /\ SizeSum(w) \in Nat
             /\ \A x, n : <<x, n>> \in Held(t)
                                      <=> (<<x, n>> \in Held(q) /\ x # i.key) \/ (x = i.key /\ n = i.size)
             /\ \A x, y : Before(t, x, y)
                                  <=> (Before(q, x, y) /\ x # i.key /\ y # i.key) \/ (Has(q, x) /\ x # i.key /\ y = i.key)
<1> DEFINE w == Without(q, i.key)
           t == Append(w, i)
<1>1. /\ w \in Queues /\ ~Has(w, i.key)
      /\ Len(w) = Len(q) - (IF Has(q, i.key) THEN 1 ELSE 0)
      /\ SizeSum(w) = SizeSum(q) - SizeIn(q, i.key) /\ SizeIn(q, i.key) \in Nat
      /\ \A x, n : <<x, n>> \in Held(w) <=> <<x, n>> \in Held(q) /\ x # i.key
      /\ \A x, y : Before(w, x, y) <=> Before(q, x, y) /\ x # i.key /\ y # i.key
  BY WithoutFacts
<1> HIDE DEF w
<1>2. /\ t \in Queues /\ Len(t) = Len(w) + 1 /\ t[Len(w) + 1] = i
      /\ SizeSum(t) = SizeSum(w) + i.size /\ SizeSum(Oldest(t, Len(w))) = SizeSum(w)
      /\ Held(t) = Held(w) \cup {<<i.key, i.size>>}
      /\ \A x, y : Before(t, x, y) <=> Before(w, x, y) \/ (Has(w, x) /\ y = i.key)
  BY <1>1, AppendHolds
<1> HIDE DEF t
<1>3. Len(q) \in Nat /\ Len(w) \in Nat /\ SizeSum(q) \in Nat /\ SizeSum(w) \in Nat
  BY <1>1, QueueFacts
<1>4. Len(t) - 1 = Len(w) /\ Len(t) \in 1..Len(q) + 1
  BY <1>1, <1>2, <1>3
<1>5. i.size \in Nat
  BY ItemFacts
<1>6. \A x : Has(w, x) <=> Has(q, x) /\ x # i.key
  BY <1>1, HasFacts
<1>7. \A x, n : <<x, n>> \in Held(t)
                            <=> (<<x, n>> \in Held(q) /\ x # i.key) \/ (x = i.key /\ n = i.size)
  <2>1. \A x, n : <<x, n>> \in Held(t) <=> <<x, n>> \in Held(w) \/ (x = i.key /\ n = i.size)
    BY <1>2
  <2>2. \A x, n : <<x, n>> \in Held(w) <=> <<x, n>> \in Held(q) /\ x # i.key
    BY <1>1
  <2> QED BY <2>1, <2>2, Zenon
<1>8. \A x, y : Before(t, x, y)
                        <=> (Before(q, x, y) /\ x # i.key /\ y # i.key) \/ (Has(q, x) /\ x # i.key /\ y = i.key)
  BY <1>1, <1>2, <1>6
<1>9. /\ SizeSum(t) = SizeSum(q) - SizeIn(q, i.key) + i.size
      /\ SizeSum(t) - SizeSum(Oldest(t, Len(t) - 1)) = i.size
  <2>1. /\ SizeSum(t) = SizeSum(w) + i.size /\ SizeSum(Oldest(t, Len(t) - 1)) = SizeSum(w)
        /\ SizeSum(w) = SizeSum(q) - SizeIn(q, i.key) /\ SizeIn(q, i.key) \in Nat
    BY <1>1, <1>2, <1>4
  <2> QED BY <1>3, <1>5, <2>1
<1> QED BY <1>1, <1>2, <1>3, <1>4, <1>7, <1>8, <1>9 DEF t, w

\* A key is held, by an item that is not idle.
Lasting(s, k, n) == \E i \in DOMAIN s : s[i].key = k /\ s[i].size = n /\ ~s[i].idle

\* A result that a call uses stays, and is the one used last.
LEMMA RefreshedFacts ==
  ASSUME NEW q \in Queues, NEW k
  PROVE  LET t == Refreshed(q, k)
         IN  /\ t \in Queues /\ Len(t) = Len(q) /\ SizeSum(t) = SizeSum(q)
             /\ Held(t) = Held(q)
             /\ Has(q, k) => Lasting(t, k, SizeIn(q, k))
             /\ \A x, y : Before(t, x, y)
                                  <=> (Before(q, x, y) /\ x # k /\ y # k) \/ (Has(q, k) /\ Has(q, x) /\ x # k /\ y = k)
<1> DEFINE t == Refreshed(q, k)
<1>1. CASE ~Has(q, k)
  <2>1. t = q
    BY <1>1 DEF Refreshed
  <2>2. \A x, y : Before(q, x, y) => x # k /\ y # k
    <3>1. \A i \in DOMAIN q : q[i].key # k
      BY <1>1 DEF Has
    <3> QED BY <3>1 DEF Before
  <2> QED BY <1>1, <2>1, <2>2
<1>2. CASE Has(q, k)
  <2> DEFINE i == [Find(q, k) EXCEPT !.idle = FALSE]
  <2>1. /\ Find(q, k) \in Items /\ Find(q, k).key = k /\ SizeIn(q, k) = Find(q, k).size
        /\ SizeIn(q, k) \in Nat /\ \A n : <<k, n>> \in Held(q) <=> n = SizeIn(q, k)
    BY <1>2, HasFacts
  <2>2. i \in Items /\ i.key = k /\ i.size = SizeIn(q, k) /\ ~i.idle
    BY <2>1 DEF Items
  <2>3. t = Append(Without(q, k), i)
    BY <1>2 DEF Refreshed
  <2> HIDE DEF i, t
  <2>4. /\ t \in Queues /\ Len(t) = Len(q) - 1 + 1 /\ t[Len(t)] = i /\ Len(t) \in 1..Len(q) + 1
        /\ SizeSum(t) = SizeSum(q) - SizeIn(q, k) + i.size
        /\ \A x, n : <<x, n>> \in Held(t)
                                 <=> (<<x, n>> \in Held(q) /\ x # k) \/ (x = k /\ n = i.size)
        /\ \A x, y : Before(t, x, y)
                             <=> (Before(q, x, y) /\ x # k /\ y # k) \/ (Has(q, x) /\ x # k /\ y = k)
    <3>1. LET w == Without(q, i.key)
              u == Append(w, i)
          IN  /\ u \in Queues /\ Len(u) = Len(w) + 1 /\ u[Len(u)] = i /\ Len(u) \in 1..Len(q) + 1
              /\ Len(w) = Len(q) - (IF Has(q, i.key) THEN 1 ELSE 0)
              /\ SizeSum(u) = SizeSum(q) - SizeIn(q, i.key) + i.size
              /\ \A x, n : <<x, n>> \in Held(u)
                                       <=> (<<x, n>> \in Held(q) /\ x # i.key) \/ (x = i.key /\ n = i.size)
              /\ \A x, y : Before(u, x, y)
                                   <=> (Before(q, x, y) /\ x # i.key /\ y # i.key) \/ (Has(q, x) /\ x # i.key /\ y = i.key)
      BY <2>2, MovedFacts
    <3> QED BY <1>2, <2>2, <2>3, <3>1
  <2>5. Len(q) \in Nat /\ SizeSum(q) \in Nat
    BY QueueFacts
  <2>6. Len(t) = Len(q) /\ SizeSum(t) = SizeSum(q)
    BY <2>1, <2>2, <2>4, <2>5
  <2>7. Held(t) = Held(q)
    <3>1. ASSUME NEW x, NEW n PROVE <<x, n>> \in Held(t) <=> <<x, n>> \in Held(q)
      <4>1. <<x, n>> \in Held(t)
                         <=> (<<x, n>> \in Held(q) /\ x # k) \/ (x = k /\ n = i.size)
        BY <2>4, Zenon
      <4>2. <<k, n>> \in Held(q) <=> n = SizeIn(q, k)
        BY <2>1, Zenon
      <4>3. CASE x = k
        BY <2>2, <4>1, <4>2, <4>3
      <4>4. CASE x # k
        BY <4>1, <4>4
      <4> QED BY <4>3, <4>4
    <3>2. \A p \in Held(t) \cup Held(q) : \E x, n : p = <<x, n>>
      BY DEF Held
    <3> QED BY <3>1, <3>2
  <2>8. Lasting(t, k, SizeIn(q, k))
    <3>1. Len(t) \in DOMAIN t
      BY <2>4, <2>5, <2>6, QueueFacts
    <3> QED BY <2>2, <2>4, <3>1 DEF Lasting
  <2> QED BY <1>2, <2>4, <2>6, <2>7, <2>8 DEF t
<1> QED BY <1>1, <1>2

\* Time makes the oldest items idle.
LEMMA AgedFacts ==
  ASSUME NEW q \in Queues, NEW n \in Nat
  PROVE  LET t == Aged(q, n)
         IN  /\ t \in Queues /\ Len(t) = Len(q) /\ SizeSum(t) = SizeSum(q)
             /\ Held(t) = Held(q) /\ \A x, y : Before(t, x, y) <=> Before(q, x, y)
<1> DEFINE t == Aged(q, n)
           N == Len(q)
<1>1. /\ q \in Seq(Items) /\ N \in Nat /\ DOMAIN q = 1..N
      /\ \A i \in 1..N : q[i] \in Items
      /\ \A i, j \in 1..N : q[i].key = q[j].key => i = j
      /\ \A i, j \in 1..N : i < j /\ q[j].idle => q[i].idle
  BY QueueFacts
<1>2. t = [i \in 1..N |-> [q[i] EXCEPT !.idle = q[i].idle \/ i <= n]]
  BY <1>1 DEF Aged
<1>3. \A i \in 1..N : /\ t[i] \in Items /\ t[i].key = q[i].key /\ t[i].size = q[i].size
                      /\ t[i].idle <=> (q[i].idle \/ i <= n)
  <2> SUFFICES ASSUME NEW i \in 1..N
               PROVE  /\ t[i] \in Items /\ t[i].key = q[i].key /\ t[i].size = q[i].size
                      /\ t[i].idle <=> (q[i].idle \/ i <= n)
    OBVIOUS
  <2>1. t[i] = [q[i] EXCEPT !.idle = q[i].idle \/ i <= n] /\ q[i] \in Items
    BY <1>1, <1>2
  <2> HIDE DEF t
  <2>2. (q[i].idle \/ i <= n) \in BOOLEAN
    OBVIOUS
  <2> QED BY <2>1, <2>2 DEF Items
<1>4. t \in Seq(Items) /\ Len(t) = N /\ DOMAIN t = 1..N
  <2>1. t = [i \in 1..N |-> t[i]]
    BY <1>2
  <2> HIDE DEF t
  <2> QED BY <1>1, <1>3, <2>1
<1> HIDE DEF t
<1>5. t \in Queues
  <2> SUFFICES ASSUME NEW i \in 1..N, NEW j \in 1..N, i < j
               PROVE  t[i].key # t[j].key /\ (t[j].idle => t[i].idle)
    BY <1>4, IsQueue
  <2>1. i # j /\ (j <= n => i <= n)
    BY <1>1
  <2> QED BY <1>1, <1>3, <2>1
<1>6. SizeSum(t) = SizeSum(q)
  BY <1>1, <1>3, <1>4, SameSizes
<1>7. Held(t) = Held(q)
  BY <1>1, <1>3, <1>4 DEF Held
<1>8. \A x, y : Before(t, x, y) <=> Before(q, x, y)
  BY <1>1, <1>3, <1>4 DEF Before
<1> QED BY <1>4, <1>5, <1>6, <1>7, <1>8 DEF t

\* Idle items that stay and items that are not idle.
LEMMA JoinedFacts ==
  ASSUME NEW q \in Queues, NEW I \in SUBSET (1..Expired(q)), NEW n \in 0..Len(Live(q))
  PROVE  LET t == Picked(q, I) \o Newest(Live(q), n)
         IN  /\ t \in Queues /\ I \subseteq 1..Len(q)
             /\ I = {} => t = Newest(Live(q), n)
             /\ \A x, y : Lasting(Newest(Live(q), n), x, y) => Lasting(t, x, y)
<1> DEFINE e == Expired(q)
           r == Newest(Live(q), n)
           l == Picked(q, I)
           t == l \o r
           C == Cardinality(I)
<1>1. /\ e \in 0..Len(q) /\ Live(q) = Newest(q, e) /\ Live(q) \in Queues
      /\ \A i \in 1..Len(Live(q)) : ~Live(q)[i].idle
  BY LiveFacts
<1>2. /\ q \in Seq(Items) /\ Len(q) \in Nat /\ DOMAIN q = 1..Len(q)
      /\ \A i, j \in 1..Len(q) : q[i].key = q[j].key => i = j
      /\ \A i \in 1..Len(q) : q[i].idle <=> i <= e
  BY QueueFacts, ExpiredFacts
<1>3. /\ Len(Live(q)) = Len(q) - e /\ \A i \in 1..Len(q) - e : Live(q)[i] = q[e + i]
  BY <1>1, CutFacts
<1>4. /\ r \in Queues /\ Len(r) = Len(Live(q)) - n
      /\ \A i \in 1..Len(Live(q)) - n : r[i] = Live(q)[n + i]
  BY <1>1, CutFacts
<1>5. I \in SUBSET (1..Len(q))
  BY <1>1, <1>2
<1>6. /\ l \in Seq(Items) /\ Len(l) = C /\ C \in Nat
      /\ \A m \in 1..C : l[m] = q[Nth(I, m)] /\ Nth(I, m) \in I /\ Nth(I, m) \in 1..Len(q)
      /\ \A m, k \in 1..C : m < k => Nth(I, m) < Nth(I, k)
  BY <1>2, <1>5, PickedFacts
<1> HIDE DEF r, l, C, e
<1>7. r \in Seq(Items) /\ Len(r) \in Nat /\ DOMAIN r = 1..Len(r)
  BY <1>4, QueueFacts
<1>8. /\ t \in Seq(Items) /\ Len(t) = C + Len(r) /\ DOMAIN t = 1..C + Len(r)
      /\ \A i \in 1..C : t[i] = l[i]
      /\ \A i \in 1..Len(r) : t[C + i] = r[i]
  <2>1. /\ t \in Seq(Items) /\ Len(t) = C + Len(r)
        /\ \A i \in 1..C + Len(r) : t[i] = IF i <= C THEN l[i] ELSE r[i - C]
    BY <1>6, <1>7, ConcatProperties
  <2> HIDE DEF t
  <2>2. DOMAIN t = 1..C + Len(r)
    BY <2>1
  <2>3. ASSUME NEW i \in 1..C PROVE t[i] = l[i]
    <3>1. i \in 1..C + Len(r) /\ i <= C
      BY <1>6, <1>7
    <3> QED BY <2>1, <3>1
  <2>4. ASSUME NEW i \in 1..Len(r) PROVE t[C + i] = r[i]
    <3>1. C + i \in 1..C + Len(r) /\ ~(C + i <= C) /\ (C + i) - C = i
      BY <1>6, <1>7
    <3> QED BY <2>1, <3>1
  <2> QED BY <2>1, <2>2, <2>3, <2>4
<1> HIDE DEF t
<1>9. \A i \in 1..Len(r) : /\ r[i] = q[e + (n + i)] /\ e + (n + i) \in 1..Len(q)
                           /\ ~r[i].idle
  <2> SUFFICES ASSUME NEW i \in 1..Len(r)
               PROVE  r[i] = q[e + (n + i)] /\ e + (n + i) \in 1..Len(q) /\ ~r[i].idle
    OBVIOUS
  <2>1. i \in 1..Len(Live(q)) - n /\ n + i \in 1..Len(q) - e /\ n + i \in 1..Len(Live(q))
        /\ e + (n + i) \in 1..Len(q)
    BY <1>1, <1>2, <1>3, <1>4
  <2> QED BY <1>1, <1>3, <1>4, <2>1
<1>10. \A m \in 1..C : Nth(I, m) <= e /\ Nth(I, m) \in Nat
  BY <1>1, <1>6 DEF e
<1> DEFINE P(i) == IF i <= C THEN Nth(I, i) ELSE e + (n + (i - C))
<1>11. ASSUME NEW i \in 1..Len(t) PROVE t[i] = q[P(i)] /\ P(i) \in 1..Len(q)
  <2>1. CASE i <= C
    BY <1>6, <1>8, <2>1
  <2>2. CASE ~(i <= C)
    <3>1. i - C \in 1..Len(r) /\ C + (i - C) = i
      BY <1>6, <1>7, <1>8, <2>2
    <3> QED BY <1>8, <1>9, <2>2, <3>1
  <2> QED BY <2>1, <2>2
<1>12. ASSUME NEW i \in 1..Len(t), NEW j \in 1..Len(t), i < j PROVE P(i) < P(j)
  <2>1. CASE j <= C
    BY <1>6, <1>8, <1>12, <2>1
  <2>2. CASE i <= C /\ ~(j <= C)
    <3>1. Nth(I, i) <= e /\ Nth(I, i) \in Nat /\ j - C \in Nat /\ j - C >= 1
      BY <1>6, <1>7, <1>8, <1>10, <2>2
    <3>2. e \in Nat /\ n \in Nat
      BY <1>1, <1>2
    <3>3. Nth(I, i) < e + (n + (j - C))
      BY <3>1, <3>2
    <3> QED BY <2>2, <3>3
  <2>3. CASE ~(i <= C)
    <3>1. e \in Nat /\ n \in Nat /\ C \in Nat /\ i \in Nat /\ j \in Nat /\ ~(j <= C)
      BY <1>1, <1>2, <1>6, <1>7, <1>8, <1>12, <2>3
    <3>2. e + (n + (i - C)) < e + (n + (j - C))
      BY <1>12, <3>1
    <3> QED BY <2>3, <3>1, <3>2
  <2> QED BY <1>6, <1>8, <1>12, <2>1, <2>2, <2>3
<1>13. t \in Queues
  <2> SUFFICES ASSUME NEW i \in 1..Len(t), NEW j \in 1..Len(t), i < j
               PROVE  t[i].key # t[j].key /\ (t[j].idle => t[i].idle)
    BY <1>8, IsQueue
  <2>1. /\ t[i] = q[P(i)] /\ t[j] = q[P(j)] /\ P(i) < P(j)
        /\ P(i) \in 1..Len(q) /\ P(j) \in 1..Len(q)
    BY <1>11, <1>12
  <2> HIDE DEF P
  <2>2. P(i) # P(j)
    BY <1>2, <2>1
  <2> QED BY <2>1, <2>2, QueueFacts
<1>14. ASSUME I = {} PROVE t = r
  <2>1. C = 0
    BY <1>14, FS_EmptySet DEF C
  <2>2. Len(t) = Len(r) /\ \A i \in 1..Len(r) : t[i] = r[i]
    BY <1>7, <1>8, <2>1
  <2> QED BY <1>7, <1>8, <2>2, SeqEqual
<1>15. ASSUME NEW x, NEW y, Lasting(r, x, y) PROVE Lasting(t, x, y)
  <2>1. PICK i \in 1..Len(r) : r[i].key = x /\ r[i].size = y /\ ~r[i].idle
    BY <1>7, <1>15 DEF Lasting
  <2>2. C + i \in DOMAIN t /\ t[C + i] = r[i]
    BY <1>6, <1>7, <1>8
  <2> QED BY <2>1, <2>2 DEF Lasting
<1> QED BY <1>5, <1>13, <1>14, <1>15 DEF t, r, l

-------------------------------------------------------------------------------
(* AudioCache: what a call does to a tier.                                   *)

MemState  == [queue : Queues, total : Int]
DiskState == [files : Queues, total : Int, entries : Int, young : Nat, old : Nat]

MemCounted(m) == m.total = SizeSum(m.queue) /\ Within(m.queue, MemEntries, MemBytes)

\* The limits are numbers.
LEMMA CacheLimits ==
  /\ MemEntries \in Nat /\ MemBytes \in Nat /\ MemItem \in Nat
  /\ MaxEntries \in Nat /\ MaxBytes \in Nat /\ DiskItem \in Nat /\ MaxTemps \in Nat
  /\ PrunePeriod \in Nat \ {0}
<1>1. /\ MemEntries \in Nat /\ MemBytes \in Nat /\ MemItem \in Nat
      /\ MaxEntries \in Nat /\ MaxBytes \in Nat /\ DiskItem \in Nat /\ MaxTemps \in Nat
      /\ PruneFraction \in Nat \ {0}
  BY CacheAssumption
<1>2. MaxEntries \div PruneFraction \in Int
  BY <1>1
<1> QED BY <1>1, <1>2 DEF PrunePeriod

\* A new item.
LEMMA ItemIsOne ==
  ASSUME NEW k \in Keys, NEW n \in Nat \ {0}
  PROVE  /\ Item(k, n) \in Items /\ Item(k, n).key = k /\ Item(k, n).size = n
         /\ ~Item(k, n).idle
  BY DEF Item, Items

\* Idle entries leave the memory.
LEMMA MemPruneFacts ==
  ASSUME NEW m \in MemState
  PROVE  /\ MemPrune(m) \in MemState /\ MemPrune(m).queue = Live(m.queue)
         /\ MemCounted(m) => MemCounted(MemPrune(m))
         /\ Held(MemPrune(m).queue) \subseteq Held(m.queue)
         /\ \A x, y : Before(MemPrune(m).queue, x, y) => Before(m.queue, x, y)
<1>1. m.queue \in Queues /\ m.total \in Int
  BY DEF MemState
<1>2. /\ Live(m.queue) \in Queues /\ Live(m.queue) = Newest(m.queue, Expired(m.queue))
      /\ Expired(m.queue) \in 0..Len(m.queue)
      /\ SizeSum(m.queue) - SizeSum(Idle(m.queue)) = SizeSum(Live(m.queue))
      /\ Len(Live(m.queue)) <= Len(m.queue) /\ SizeSum(Live(m.queue)) <= SizeSum(m.queue)
  BY <1>1, LiveFacts
<1>3. SizeSum(Idle(m.queue)) \in Nat
  BY <1>1, <1>2, CutFacts DEF Idle
<1>4. /\ MemPrune(m) = [queue |-> Live(m.queue), total |-> m.total - SizeSum(Idle(m.queue))]
      /\ MemPrune(m) \in MemState /\ MemPrune(m).queue = Live(m.queue)
      /\ MemPrune(m).total = m.total - SizeSum(Idle(m.queue))
  BY <1>1, <1>2, <1>3 DEF MemPrune, MemState
<1>5. ASSUME MemCounted(m) PROVE MemCounted(MemPrune(m))
  <2>1. m.total = SizeSum(m.queue) /\ Len(m.queue) <= MemEntries /\ SizeSum(m.queue) <= MemBytes
    BY <1>5 DEF MemCounted, Within
  <2>2. /\ Len(m.queue) \in Nat /\ SizeSum(m.queue) \in Nat
        /\ Len(Live(m.queue)) \in Nat /\ SizeSum(Live(m.queue)) \in Nat
    BY <1>1, <1>2, QueueFacts
  <2>3. MemPrune(m).total = SizeSum(Live(m.queue))
    BY <1>2, <1>4, <2>1
  <2>4. Len(Live(m.queue)) <= MemEntries /\ SizeSum(Live(m.queue)) <= MemBytes
    BY <1>2, <2>1, <2>2, CacheLimits
  <2> QED BY <1>4, <2>3, <2>4 DEF MemCounted, Within
<1>6. /\ Held(Live(m.queue)) \subseteq Held(m.queue)
      /\ \A x, y : Before(Live(m.queue), x, y) => Before(m.queue, x, y)
  BY <1>1, <1>2, CutOrder
<1> QED BY <1>4, <1>5, <1>6

\* An entry is put into memory.
LEMMA MemPutFacts ==
  ASSUME NEW m \in MemState, MemCounted(m), NEW k \in Keys, NEW n \in Nat \ {0}
  PROVE  LET p == MemPut(m, k, n)
         IN  /\ p \in MemState /\ MemCounted(p)
             /\ ~MemAccepts(n) => p = m
             /\ MemAccepts(n) =>
                  /\ Lasting(p.queue, k, n)
                  /\ \A x, y : <<x, y>> \in Held(p.queue)
                               => (<<x, y>> \in Held(m.queue) /\ x # k) \/ (x = k /\ y = n)
                  /\ \A x, y : Before(p.queue, x, y)
                               => \/ Before(m.queue, x, y) /\ x # k /\ y # k
                                  \/ x # k /\ y = k
<1> DEFINE p == MemPut(m, k, n)
<1>1. CASE ~MemAccepts(n)
  BY <1>1 DEF MemPut
<1>2. CASE MemAccepts(n)
  <2> DEFINE a == MemPrune(m)
             i == Item(k, n)
             q == Append(Without(a.queue, k), i)
             total == a.total - SizeIn(a.queue, k) + n
             g == Surplus(q, total, MemEntries, MemBytes, {})
  <2>1. /\ a \in MemState /\ MemCounted(a) /\ Held(a.queue) \subseteq Held(m.queue)
        /\ \A x, y : Before(a.queue, x, y) => Before(m.queue, x, y)
    BY MemPruneFacts
  <2>2. i \in Items /\ i.key = k /\ i.size = n /\ ~i.idle
    BY ItemIsOne
  <2>3. p = [queue |-> Newest(q, g), total |-> total - SizeSum(Oldest(q, g))]
    BY <1>2 DEF MemPut
  <2> HIDE DEF a, i
  <2>4. /\ a.queue \in Queues /\ a.total = SizeSum(a.queue) /\ n \in Nat
        /\ MemEntries \in Nat /\ MemBytes \in Nat
    BY <2>1, CacheLimits DEF MemState, MemCounted
  <2>5. /\ q \in Queues /\ Len(q) \in 1..Len(a.queue) + 1 /\ q[Len(q)] = i
        /\ SizeSum(q) = total
        /\ SizeSum(q) - SizeSum(Oldest(q, Len(q) - 1)) = n
        /\ \A x, y : <<x, y>> \in Held(q)
                     <=> (<<x, y>> \in Held(a.queue) /\ x # k) \/ (x = k /\ y = n)
        /\ \A x, y : Before(q, x, y)
                     <=> \/ Before(a.queue, x, y) /\ x # k /\ y # k
                         \/ Has(a.queue, x) /\ x # k /\ y = k
    <3>1. LET w == Without(a.queue, i.key)
              t == Append(w, i)
          IN  /\ t \in Queues /\ t[Len(t)] = i /\ Len(t) \in 1..Len(a.queue) + 1
              /\ SizeSum(t) = SizeSum(a.queue) - SizeIn(a.queue, i.key) + i.size
              /\ SizeSum(t) - SizeSum(Oldest(t, Len(t) - 1)) = i.size
              /\ \A x, y : <<x, y>> \in Held(t)
                           <=> (<<x, y>> \in Held(a.queue) /\ x # i.key) \/ (x = i.key /\ y = i.size)
              /\ \A x, y : Before(t, x, y)
                           <=> \/ Before(a.queue, x, y) /\ x # i.key /\ y # i.key
                               \/ Has(a.queue, x) /\ x # i.key /\ y = i.key
      BY <2>2, <2>4, MovedFacts
    <3>2. SizeSum(a.queue) - SizeIn(a.queue, k) + n = total
      BY <2>4
    <3> QED BY <2>2, <3>1, <3>2
  <2> HIDE DEF q, total
  <2>6. /\ g \in 0..Len(q)
        /\ g = Len(q) \/ (Len(q) - g <= MemEntries /\ total - SizeSum(Oldest(q, g)) <= MemBytes)
        /\ \A c \in 0..Len(q) : Len(q) - c <= MemEntries /\ total - SizeSum(Oldest(q, c)) <= MemBytes
                                => g <= c
    BY <2>5, SurplusFacts
  <2> HIDE DEF g
  <2>7. Len(q) \in Nat /\ Len(q) - 1 \in 0..Len(q) /\ Len(q) - (Len(q) - 1) = 1 /\ 1 <= MemEntries
        /\ n <= MemBytes
    BY <1>2, <2>4, <2>5, QueueFacts DEF MemAccepts
  <2>8. g <= Len(q) - 1
    BY <2>5, <2>6, <2>7
  <2>9. /\ Newest(q, g) \in Queues /\ Len(Newest(q, g)) = Len(q) - g
        /\ \A c \in 1..Len(q) - g : Newest(q, g)[c] = q[g + c]
        /\ SizeSum(Newest(q, g)) \in Nat /\ SizeSum(Oldest(q, g)) \in Nat
        /\ SizeSum(q) = SizeSum(Oldest(q, g)) + SizeSum(Newest(q, g))
    BY <2>5, <2>6, CutFacts
  <2>10. total - SizeSum(Oldest(q, g)) = SizeSum(Newest(q, g)) /\ total \in Nat
    BY <2>5, <2>9
  <2> HIDE DEF p
  <2>11. p.queue = Newest(q, g) /\ p.total = SizeSum(Newest(q, g)) /\ p \in MemState
    BY <2>3, <2>9, <2>10 DEF MemState
  <2>12. MemCounted(p)
    <3>1. Len(Newest(q, g)) <= MemEntries /\ SizeSum(Newest(q, g)) <= MemBytes
      BY <2>6, <2>7, <2>8, <2>9, <2>10
    <3> QED BY <2>11, <3>1 DEF MemCounted, Within
  <2>13. Lasting(p.queue, k, n)
    <3>1. Len(q) - g \in 1..Len(q) - g /\ g + (Len(q) - g) = Len(q)
      BY <2>6, <2>7, <2>8
    <3>2. Newest(q, g)[Len(q) - g] = i /\ Len(q) - g \in DOMAIN Newest(q, g)
      BY <2>5, <2>9, <3>1, QueueFacts
    <3> QED BY <2>2, <2>11, <3>2 DEF Lasting
  <2>14. /\ Held(p.queue) \subseteq Held(q)
         /\ \A x, y : Before(p.queue, x, y) => Before(q, x, y)
    BY <2>5, <2>6, <2>11, CutOrder
  <2>15. \A x, y : <<x, y>> \in Held(p.queue)
                   => (<<x, y>> \in Held(m.queue) /\ x # k) \/ (x = k /\ y = n)
    BY <2>1, <2>5, <2>14
  <2>16. \A x, y : Before(p.queue, x, y)
                   => \/ Before(m.queue, x, y) /\ x # k /\ y # k
                      \/ x # k /\ y = k
    BY <2>1, <2>5, <2>14
  <2> QED BY <1>2, <2>11, <2>12, <2>13, <2>15, <2>16 DEF p
<1> QED BY <1>1, <1>2

\* The directory is pruned.
LEMMA PruneFacts ==
  ASSUME NEW d \in DiskState, NEW entries \in Nat, NEW bytes \in Nat, NEW f \in Faults
  PROVE  LET p == Prune(d, entries, bytes, f)
         IN  /\ p \in DiskState /\ p.young = d.young /\ p.old <= d.old
             /\ f.listed /\ f.stuck = {} =>
                  /\ p.total = SizeSum(p.files) /\ p.entries = Len(p.files) /\ p.old = 0
                  /\ Within(p.files, entries, bytes)
                  /\ Len(p.files) <= Len(d.files) /\ SizeSum(p.files) <= SizeSum(d.files)
                  /\ Held(p.files) \subseteq Held(d.files)
                  /\ \A x, y : Before(p.files, x, y) <=> /\ Before(d.files, x, y)
                                                         /\ Has(p.files, x) /\ Has(p.files, y)
<1> DEFINE p == Prune(d, entries, bytes, f)
           live == Live(d.files)
           I == {i \in 1..Expired(d.files) : d.files[i].key \in f.stuck}
           g == Surplus(live, SizeSum(live), entries, bytes, f.stuck)
           rest == Newest(live, g)
           files == Picked(d.files, I) \o rest
<1>1. /\ d.files \in Queues /\ d.total \in Int /\ d.entries \in Int /\ d.young \in Nat
      /\ d.old \in Nat /\ f.listed \in BOOLEAN
  BY DEF DiskState, Faults
<1>2. CASE ~f.listed
  <2>1. p = d
    BY <1>2 DEF Prune
  <2> QED BY <1>1, <1>2, <2>1
<1>3. CASE f.listed
  <2>1. p = [d EXCEPT !.files = files, !.total = SizeSum(rest), !.entries = Len(rest), !.old = 0]
    BY <1>3 DEF Prune
  <2>2. /\ live \in Queues /\ live = Newest(d.files, Expired(d.files))
        /\ Expired(d.files) \in 0..Len(d.files)
        /\ Len(live) <= Len(d.files) /\ SizeSum(live) <= SizeSum(d.files)
    BY <1>1, LiveFacts
  <2>3. /\ g \in 0..Len(live)
        /\ \/ g = Len(live)
           \/ live[g + 1].key \in f.stuck
           \/ Len(live) - g <= entries /\ SizeSum(live) - SizeSum(Oldest(live, g)) <= bytes
    BY <2>2, SurplusFacts
  <2>4. files \in Queues /\ (I = {} => files = rest)
    BY <1>1, <2>3, JoinedFacts
  <2>5. /\ rest \in Queues /\ Len(rest) = Len(live) - g
        /\ SizeSum(rest) \in Nat /\ SizeSum(Oldest(live, g)) \in Nat
        /\ SizeSum(live) = SizeSum(Oldest(live, g)) + SizeSum(rest)
    BY <2>2, <2>3, CutFacts
  <2>6. f.stuck = {} => I = {}
    OBVIOUS
  <2> HIDE DEF live, I, g, rest, files, p
  <2>7. Len(live) \in Nat /\ Len(rest) \in Nat /\ Len(d.files) \in Nat /\ SizeSum(d.files) \in Nat
    BY <1>1, <2>2, <2>5, QueueFacts
  <2>8. /\ p \in DiskState /\ p.young = d.young /\ p.old = 0 /\ p.files = files
        /\ p.total = SizeSum(rest) /\ p.entries = Len(rest)
    <3>1. d = [files |-> d.files, total |-> d.total, entries |-> d.entries, young |-> d.young,
               old |-> d.old]
      BY DEF DiskState
    <3>2. p = [files |-> files, total |-> SizeSum(rest), entries |-> Len(rest), young |-> d.young,
               old |-> 0]
      BY <2>1, <3>1
    <3>3. SizeSum(rest) \in Int /\ Len(rest) \in Int
      BY <2>5, <2>7
    <3>4. p \in DiskState
      BY <1>1, <2>4, <3>2, <3>3 DEF DiskState
    <3> QED BY <3>2, <3>4
  <2>9. ASSUME f.stuck = {}
        PROVE  /\ p.files = rest /\ Within(rest, entries, bytes)
               /\ Len(rest) <= Len(d.files) /\ SizeSum(rest) <= SizeSum(d.files)
               /\ Held(rest) \subseteq Held(d.files)
               /\ \A x, y : Before(rest, x, y) <=> /\ Before(d.files, x, y)
                                                   /\ Has(rest, x) /\ Has(rest, y)
    <3>1. p.files = rest
      BY <2>4, <2>6, <2>8, <2>9
    <3>2. Within(rest, entries, bytes)
      <4>1. CASE g = Len(live)
        <5>1. Len(rest) = 0
          BY <2>5, <2>7, <4>1
        <5>2. rest = <<>>
          BY <2>5, <5>1, QueueFacts, EmptySeq
        <5> QED BY <5>1, <5>2, SizeOfOne DEF Within
      <4>2. CASE g # Len(live)
        <5>1. Len(live) - g <= entries /\ SizeSum(live) - SizeSum(Oldest(live, g)) <= bytes
          BY <2>3, <2>9, <4>2
        <5>2. SizeSum(rest) <= bytes
          BY <2>5, <5>1
        <5> QED BY <2>5, <5>1, <5>2 DEF Within
      <4> QED BY <4>1, <4>2
    <3>3. Len(rest) <= Len(d.files) /\ SizeSum(rest) <= SizeSum(d.files)
      <4>1. SizeSum(live) \in Nat
        BY <2>2, QueueFacts
      <4> QED BY <2>2, <2>3, <2>5, <2>7, <4>1
    <3>4. /\ Held(live) \subseteq Held(d.files)
          /\ \A x, y : Before(live, x, y) <=> /\ Before(d.files, x, y)
                                              /\ Has(live, x) /\ Has(live, y)
      BY <1>1, <2>2, CutOrder
    <3>5. /\ Held(rest) \subseteq Held(live)
          /\ \A x, y : Before(rest, x, y) <=> /\ Before(live, x, y)
                                              /\ Has(rest, x) /\ Has(rest, y)
      BY <2>2, <2>3, CutOrder DEF rest
    <3>6. \A x : Has(rest, x) => Has(live, x)
      BY <2>2, <2>5, <3>5, HasFacts
    <3> QED BY <3>1, <3>2, <3>3, <3>4, <3>5, <3>6
  <2>10. p.old <= d.old
    BY <1>1, <2>8
  <2> QED BY <2>8, <2>9, <2>10 DEF p
<1> QED BY <1>1, <1>2, <1>3

\* What is left when all but the last item have gone.
LEMMA LastSize ==
  ASSUME NEW q \in Queues, Len(q) \in 1..Len(q)
  PROVE  SizeSum(q) - SizeSum(Oldest(q, Len(q) - 1)) = q[Len(q)].size
<1> DEFINE n == Len(q) - 1
           t == Newest(q, n)
           i == q[Len(q)]
<1>1. Len(q) \in Nat /\ n \in 0..Len(q) /\ Len(q) - n = 1 /\ n + 1 = Len(q) /\ i \in Items
  BY QueueFacts
<1>2. /\ t \in Queues /\ Len(t) = 1 /\ t[1] = i
      /\ SizeSum(t) \in Nat /\ SizeSum(Oldest(q, n)) \in Nat
      /\ SizeSum(q) = SizeSum(Oldest(q, n)) + SizeSum(t)
  <2>1. /\ t \in Queues /\ Len(t) = Len(q) - n
        /\ \A j \in 1..Len(q) - n : t[j] = q[n + j]
        /\ SizeSum(t) \in Nat /\ SizeSum(Oldest(q, n)) \in Nat
        /\ SizeSum(q) = SizeSum(Oldest(q, n)) + SizeSum(t)
    BY <1>1, CutFacts
  <2>2. 1 \in 1..Len(q) - n /\ t[1] = q[n + 1] /\ q[n + 1] = i
    BY <1>1, <2>1
  <2> QED BY <1>1, <2>1, <2>2
<1>3. SizeSum(t) = i.size
  <2> HIDE DEF t, i, n
  <2>1. t \in Seq(Items) /\ <<i>> \in Seq(Items) /\ SizeSum(<<i>>) = i.size
    BY <1>1, <1>2, QueueFacts, SizeOfOne
  <2>2. t = <<i>>
    <3>1. Len(<<i>>) = 1 /\ <<i>>[1] = i
      OBVIOUS
    <3> QED BY <1>2, <2>1, <3>1, SeqEqual
  <2> QED BY <2>1, <2>2
<1> QED BY <1>2, <1>3

\* The item that came last survives any pruning whose limits it keeps.
LEMMA PruneKeepsLast ==
  ASSUME NEW d \in DiskState, NEW entries \in Nat, NEW bytes \in Nat, NEW f \in Faults,
         Len(d.files) > 0, ~d.files[Len(d.files)].idle, entries > 0,
         SizeSum(d.files) - SizeSum(Oldest(d.files, Len(d.files) - 1)) <= bytes
  PROVE  LET i == d.files[Len(d.files)]
         IN  Lasting(Prune(d, entries, bytes, f).files, i.key, i.size)
<1> DEFINE p == Prune(d, entries, bytes, f)
           q == d.files
           i == q[Len(q)]
           live == Live(q)
           I == {n \in 1..Expired(q) : q[n].key \in f.stuck}
           g == Surplus(live, SizeSum(live), entries, bytes, f.stuck)
           rest == Newest(live, g)
           files == Picked(q, I) \o rest
<1>1. q \in Queues /\ d \in DiskState /\ f.listed \in BOOLEAN
  BY DEF DiskState, Faults
<1>2. q \in Seq(Items) /\ Len(q) \in Nat /\ DOMAIN q = 1..Len(q) /\ Len(q) \in 1..Len(q) /\ i \in Items
  BY <1>1, QueueFacts
<1>3. CASE ~f.listed
  <2>1. p = d
    BY <1>3 DEF Prune
  <2> QED BY <1>2, <2>1 DEF Lasting
<1>4. CASE f.listed
  <2>1. p = [d EXCEPT !.files = files, !.total = SizeSum(rest), !.entries = Len(rest), !.old = 0]
    BY <1>4 DEF Prune
  <2>2. /\ live \in Queues /\ live = Newest(q, Expired(q)) /\ Expired(q) \in 0..Len(q)
        /\ \A n \in 1..Len(q) : q[n].idle <=> n <= Expired(q)
    BY <1>1, LiveFacts, ExpiredFacts
  <2>3. /\ Len(live) = Len(q) - Expired(q)
        /\ \A n \in 1..Len(q) - Expired(q) : live[n] = q[Expired(q) + n]
    <3>1. /\ Len(Newest(q, Expired(q))) = Len(q) - Expired(q)
          /\ \A n \in 1..Len(q) - Expired(q) : Newest(q, Expired(q))[n] = q[Expired(q) + n]
      BY <1>1, <2>2, CutFacts
    <3> HIDE DEF live
    <3> QED BY <2>2, <3>1
  <2>4. Expired(q) < Len(q)
    BY <1>2, <2>2
  <2> DEFINE L == Len(live)
  <2>5. L \in 1..L /\ live[L] = i /\ L \in Nat /\ L - 1 \in 0..L
    <3>1. Len(q) - Expired(q) \in 1..Len(q) - Expired(q) /\ Expired(q) + (Len(q) - Expired(q)) = Len(q)
      BY <1>2, <2>2, <2>4
    <3>2. Len(q) - Expired(q) - 1 \in 0..Len(q) - Expired(q)
      BY <1>2, <2>2, <2>4
    <3> QED BY <2>3, <3>1, <3>2
  <2>6. SizeSum(live) - SizeSum(Oldest(live, L - 1)) = i.size
    BY <1>2, <2>2, <2>5, LastSize
  <2>7. SizeSum(q) - SizeSum(Oldest(q, Len(q) - 1)) = i.size
    BY <1>1, <1>2, LastSize
  <2>8. L - (L - 1) <= entries
    BY <2>5
  <2>9. /\ g \in 0..L
        /\ \A c \in 0..L : /\ L - c <= entries /\ SizeSum(live) - SizeSum(Oldest(live, c)) <= bytes
                           => g <= c
    BY <2>2, SurplusFacts
  <2>10. g <= L - 1
    BY <2>5, <2>6, <2>7, <2>8, <2>9
  <2>11. /\ rest \in Queues /\ Len(rest) = L - g
         /\ \A n \in 1..L - g : rest[n] = live[g + n]
    BY <2>2, <2>9, CutFacts
  <2>12. \A x, y : Lasting(rest, x, y) => Lasting(files, x, y)
    BY <1>1, <2>9, JoinedFacts
  <2> HIDE DEF rest, g, live, files, p, i, I
  <2>13. Lasting(rest, i.key, i.size)
    <3>1. L - g \in 1..L - g /\ g + (L - g) = L
      BY <2>5, <2>9, <2>10
    <3>2. rest[L - g] = i /\ L - g \in DOMAIN rest
      BY <2>5, <2>11, <3>1, QueueFacts
    <3> QED BY <3>2 DEF Lasting, i
  <2>14. p.files = files
    BY <1>1, <2>1 DEF DiskState
  <2> QED BY <2>12, <2>13, <2>14 DEF i, p
<1> QED BY <1>1, <1>3, <1>4

Counted(d) == d.total = SizeSum(d.files) /\ d.entries = Len(d.files)

\* How a call for k may change the order in a queue.
Touched(t, s, k) ==
  \A x, y : Before(t, x, y) => \/ Before(s, x, y) /\ x # k /\ y # k
                               \/ x # k /\ y = k

\* An entry is read from memory.
LEMMA MemGetFacts ==
  ASSUME NEW m \in MemState, NEW k
  PROVE  LET p == [MemPrune(m) EXCEPT !.queue = Refreshed(@, k)]
         IN  /\ p \in MemState /\ (MemCounted(m) => MemCounted(p))
             /\ Held(p.queue) \subseteq Held(m.queue) /\ Touched(p.queue, m.queue, k)
             /\ Has(Live(m.queue), k) => /\ Lasting(p.queue, k, Find(m.queue, k).size)
                                         /\ <<k, Find(m.queue, k).size>> \in Held(m.queue)
<1> DEFINE a == MemPrune(m)
           t == Refreshed(a.queue, k)
           p == [a EXCEPT !.queue = t]
<1>1. /\ a \in MemState /\ a.queue = Live(m.queue) /\ (MemCounted(m) => MemCounted(a))
      /\ Held(a.queue) \subseteq Held(m.queue)
      /\ \A x, y : Before(a.queue, x, y) => Before(m.queue, x, y)
  BY MemPruneFacts
<1> HIDE DEF a
<1>2. a.queue \in Queues /\ a.total \in Int /\ m.queue \in Queues
  BY <1>1 DEF MemState
<1>3. /\ t \in Queues /\ Len(t) = Len(a.queue) /\ SizeSum(t) = SizeSum(a.queue)
      /\ Held(t) = Held(a.queue)
      /\ Has(a.queue, k) => Lasting(t, k, SizeIn(a.queue, k))
      /\ \A x, y : Before(t, x, y) <=> \/ Before(a.queue, x, y) /\ x # k /\ y # k
                                       \/ Has(a.queue, k) /\ Has(a.queue, x) /\ x # k /\ y = k
  BY <1>2, RefreshedFacts
<1> HIDE DEF t
<1>4. p \in MemState /\ p.queue = t /\ p.total = a.total
  BY <1>1, <1>2, <1>3 DEF MemState
<1>5. MemCounted(m) => MemCounted(p)
  BY <1>1, <1>3, <1>4 DEF MemCounted, Within
<1>6. Touched(t, m.queue, k)
  BY <1>1, <1>3 DEF Touched
<1>7. ASSUME Has(Live(m.queue), k)
      PROVE  Lasting(t, k, Find(m.queue, k).size) /\ <<k, Find(m.queue, k).size>> \in Held(m.queue)
  <2>1. Find(a.queue, k) = Find(m.queue, k) /\ Has(m.queue, k) /\ Has(a.queue, k)
    BY <1>1, <1>2, <1>7, LiveFacts
  <2>2. SizeIn(a.queue, k) = Find(m.queue, k).size /\ SizeIn(m.queue, k) = Find(m.queue, k).size
    BY <2>1 DEF SizeIn
  <2> QED BY <1>2, <1>3, <2>1, <2>2, HasFacts
<1> QED BY <1>1, <1>3, <1>4, <1>5, <1>6, <1>7 DEF p, a, t

\* The file of a key becomes the youngest.
LEMMA DiskGetFacts ==
  ASSUME NEW d \in DiskState, NEW k
  PROVE  LET p == [d EXCEPT !.files = Refreshed(@, k)]
         IN  /\ p \in DiskState /\ p.young = d.young /\ p.old = d.old
             /\ p.total = d.total /\ p.entries = d.entries
             /\ Len(p.files) = Len(d.files) /\ SizeSum(p.files) = SizeSum(d.files)
             /\ Held(p.files) = Held(d.files)
             /\ Has(d.files, k) => Lasting(p.files, k, SizeIn(d.files, k))
             /\ \A x, y : Before(p.files, x, y)
                          <=> \/ Before(d.files, x, y) /\ x # k /\ y # k
                              \/ Has(d.files, k) /\ Has(d.files, x) /\ x # k /\ y = k
<1> DEFINE t == Refreshed(d.files, k)
           p == [d EXCEPT !.files = t]
<1>1. d.files \in Queues
  BY DEF DiskState
<1>2. /\ t \in Queues /\ Len(t) = Len(d.files) /\ SizeSum(t) = SizeSum(d.files)
      /\ Held(t) = Held(d.files)
      /\ Has(d.files, k) => Lasting(t, k, SizeIn(d.files, k))
      /\ \A x, y : Before(t, x, y)
                   <=> \/ Before(d.files, x, y) /\ x # k /\ y # k
                       \/ Has(d.files, k) /\ Has(d.files, x) /\ x # k /\ y = k
  BY <1>1, RefreshedFacts
<1> HIDE DEF t
<1>3. /\ p \in DiskState /\ p.young = d.young /\ p.old = d.old
      /\ p.total = d.total /\ p.entries = d.entries /\ p.files = t
  BY <1>2 DEF DiskState
<1> HIDE DEF p
<1> QED BY <1>2, <1>3 DEF p, t

\* A file is deleted.
LEMMA EvictFacts ==
  ASSUME NEW d \in DiskState, NEW k, NEW f, Has(d.files, k)
  PROVE  LET p == Evict(d, k, f)
         IN  /\ p \in DiskState /\ p.young = d.young /\ p.old = d.old
             /\ Counted(d) => Counted(p)
             /\ Len(p.files) <= Len(d.files) /\ SizeSum(p.files) <= SizeSum(d.files)
             /\ Held(p.files) \subseteq Held(d.files)
             /\ \A x, y : Before(d.files, x, y) /\ Has(p.files, x) /\ Has(p.files, y)
                          => Before(p.files, x, y)
<1> DEFINE p == Evict(d, k, f)
           w == Without(d.files, k)
           T == NonNegative(d.total - SizeIn(d.files, k))
           E == NonNegative(d.entries - 1)
<1>1. d.files \in Queues /\ d.total \in Int /\ d.entries \in Int /\ d.young \in Nat /\ d.old \in Nat
  BY DEF DiskState
<1>2. Len(d.files) \in Nat /\ SizeSum(d.files) \in Nat
  BY <1>1, QueueFacts
<1>3. CASE k \in f.stuck
  <2>1. p = d
    BY <1>3 DEF Evict
  <2> QED BY <1>1, <1>2, <2>1
<1>4. CASE k \notin f.stuck
  <2>1. /\ w \in Queues /\ ~Has(w, k) /\ Len(w) = Len(d.files) - 1
        /\ SizeSum(w) = SizeSum(d.files) - SizeIn(d.files, k)
        /\ SizeIn(d.files, k) \in Nat /\ SizeIn(d.files, k) <= SizeSum(d.files)
        /\ Held(w) \subseteq Held(d.files)
        /\ \A x, y : Before(w, x, y) <=> Before(d.files, x, y) /\ x # k /\ y # k
    BY <1>1, WithoutFacts
  <2>2. T \in Int /\ E \in Int
    BY <1>1, <2>1 DEF NonNegative
  <2>3. Len(w) \in Nat /\ SizeSum(w) \in Nat
    BY <2>1, QueueFacts
  <2>4. Counted(d) => T = SizeSum(w) /\ E = Len(w)
    BY <1>1, <1>2, <2>1, <2>3 DEF NonNegative, Counted
  <2>5. p = [d EXCEPT !.files = w, !.total = T, !.entries = E]
    BY <1>4 DEF Evict
  <2> HIDE DEF p, w, T, E
  <2>6. /\ p \in DiskState /\ p.young = d.young /\ p.old = d.old /\ p.files = w
        /\ p.total = T /\ p.entries = E
    <3>1. d = [files |-> d.files, total |-> d.total, entries |-> d.entries, young |-> d.young,
               old |-> d.old]
      BY DEF DiskState
    <3>2. p = [files |-> w, total |-> T, entries |-> E, young |-> d.young, old |-> d.old]
      BY <2>5, <3>1
    <3> QED BY <1>1, <2>1, <2>2, <3>2 DEF DiskState
  <2>7. Len(p.files) <= Len(d.files) /\ SizeSum(p.files) <= SizeSum(d.files)
    BY <1>2, <2>1, <2>3, <2>6
  <2>8. ASSUME NEW x, NEW y, Before(d.files, x, y), Has(w, x), Has(w, y) PROVE Before(w, x, y)
    BY <2>1, <2>8
  <2>9. Counted(d) => Counted(p)
    BY <2>4, <2>6 DEF Counted
  <2> QED BY <2>1, <2>6, <2>7, <2>8, <2>9 DEF p
<1> QED BY <1>3, <1>4

\* What put did to make room.
LEMMA RoomFacts ==
  ASSUME disk \in DiskState, NEW k \in Keys, NEW n \in Nat \ {0}, NEW f \in Faults
  PROVE  LET p == WithRoom(k, n, f)
         IN  /\ p \in DiskState /\ p.young = disk.young /\ p.old <= disk.old
             /\ MoreBytes(disk, k, n) \in Int /\ MoreEntries(disk, k) \in 0..1
             /\ ~Exceeds(disk, MoreEntries(disk, k), MoreBytes(disk, k, n)) => p = disk
             /\ f.listed /\ f.stuck = {} =>
                  /\ Counted(disk) => Counted(p)
                  /\ Len(p.files) <= Len(disk.files) /\ SizeSum(p.files) <= SizeSum(disk.files)
                  /\ Held(p.files) \subseteq Held(disk.files)
                  /\ \A x, y : Before(disk.files, x, y) /\ Has(p.files, x) /\ Has(p.files, y)
                               => Before(p.files, x, y)
                  /\ Exceeds(disk, MoreEntries(disk, k), MoreBytes(disk, k, n))
                     => /\ Counted(p)
                        /\ Within(p.files, NonNegative(MaxEntries - MoreEntries(disk, k)),
                                  NonNegative(MaxBytes - MoreBytes(disk, k, n)))
<1> DEFINE e == MoreEntries(disk, k)
           b == MoreBytes(disk, k, n)
           p == WithRoom(k, n, f)
<1>1. disk.files \in Queues /\ disk.old \in Nat
  BY DEF DiskState
<1>2. SizeIn(disk.files, k) \in Nat /\ Len(disk.files) \in Nat /\ SizeSum(disk.files) \in Nat
  BY <1>1, WithoutFacts, QueueFacts
<1>3. b \in Int /\ e \in 0..1
  BY <1>2 DEF MoreBytes, MoreEntries
<1>4. NonNegative(MaxEntries - e) \in Nat /\ NonNegative(MaxBytes - b) \in Nat
  BY <1>3, CacheLimits DEF NonNegative
<1> HIDE DEF e, b
<1>5. CASE ~Exceeds(disk, e, b)
  <2>1. p = disk
    BY <1>5 DEF WithRoom, e, b
  <2> QED BY <1>1, <1>2, <1>3, <1>5, <2>1 DEF e, b
<1>6. CASE Exceeds(disk, e, b)
  <2>1. p = Prune(disk, NonNegative(MaxEntries - e), NonNegative(MaxBytes - b), f)
    BY <1>6 DEF WithRoom, e, b
  <2> DEFINE E == NonNegative(MaxEntries - e)
             B == NonNegative(MaxBytes - b)
  <2>2. E \in Nat /\ B \in Nat /\ p = Prune(disk, E, B, f)
    BY <1>4, <2>1
  <2> HIDE DEF p, E, B
  <2>3. LET r == Prune(disk, E, B, f)
        IN  /\ r \in DiskState /\ r.young = disk.young /\ r.old <= disk.old
            /\ f.listed /\ f.stuck = {} =>
                 /\ r.total = SizeSum(r.files) /\ r.entries = Len(r.files) /\ r.old = 0
                 /\ Within(r.files, E, B)
                 /\ Len(r.files) <= Len(disk.files) /\ SizeSum(r.files) <= SizeSum(disk.files)
                 /\ Held(r.files) \subseteq Held(disk.files)
                 /\ \A x, y : Before(r.files, x, y) <=> /\ Before(disk.files, x, y)
                                                        /\ Has(r.files, x) /\ Has(r.files, y)
    BY <2>2, PruneFacts
  <2>4. /\ p \in DiskState /\ p.young = disk.young /\ p.old <= disk.old
        /\ f.listed /\ f.stuck = {} =>
             /\ p.total = SizeSum(p.files) /\ p.entries = Len(p.files)
             /\ Within(p.files, E, B)
             /\ Len(p.files) <= Len(disk.files) /\ SizeSum(p.files) <= SizeSum(disk.files)
             /\ Held(p.files) \subseteq Held(disk.files)
             /\ \A x, y : Before(p.files, x, y) <=> /\ Before(disk.files, x, y)
                                                    /\ Has(p.files, x) /\ Has(p.files, y)
    BY <2>2, <2>3
  <2> QED BY <1>3, <1>6, <2>4 DEF p, e, b, E, B, Counted
<1> QED BY <1>5, <1>6

\* A file is written.
LEMMA StoredFacts ==
  ASSUME disk \in DiskState, NEW d \in DiskState, NEW k \in Keys, NEW n \in Nat \ {0}
  PROVE  LET p == Stored(d, k, n)
             q == Replaced(d.files, k, n)
         IN  /\ q \in Queues /\ q = p.files
             /\ p \in DiskState /\ p.young = d.young /\ p.old = d.old
             /\ p.total = d.total + MoreBytes(disk, k, n)
             /\ p.entries = d.entries + MoreEntries(disk, k)
             /\ Len(q) = Len(d.files) + MoreEntries(d, k)
             /\ SizeSum(q) = SizeSum(d.files) + MoreBytes(d, k, n)
             /\ MoreBytes(d, k, n) \in Int /\ MoreBytes(d, k, n) <= n /\ MoreEntries(d, k) \in 0..1
             /\ Len(q) > 0 /\ q[Len(q)] = Item(k, n) /\ Lasting(q, k, n)
             /\ SizeSum(q) - SizeSum(Oldest(q, Len(q) - 1)) = n
             /\ \A x, y : <<x, y>> \in Held(q)
                          <=> (<<x, y>> \in Held(d.files) /\ x # k) \/ (x = k /\ y = n)
             /\ \A x, y : Before(q, x, y)
                          <=> \/ Before(d.files, x, y) /\ x # k /\ y # k
                              \/ Has(d.files, x) /\ x # k /\ y = k
<1> DEFINE i == Item(k, n)
           q == Replaced(d.files, k, n)
           p == Stored(d, k, n)
<1>1. i \in Items /\ i.key = k /\ i.size = n /\ ~i.idle
  BY ItemIsOne
<1>2. /\ d.files \in Queues /\ d.total \in Int /\ d.entries \in Int /\ d.young \in Nat
      /\ d.old \in Nat /\ disk.files \in Queues
  BY DEF DiskState
<1>3. q = Append(Without(d.files, k), i)
  BY DEF Replaced
<1> HIDE DEF i, q
<1>4. /\ q \in Queues /\ Len(q) = Len(Without(d.files, k)) + 1 /\ q[Len(q)] = i
      /\ Len(Without(d.files, k)) = Len(d.files) - (IF Has(d.files, k) THEN 1 ELSE 0)
      /\ SizeSum(q) = SizeSum(d.files) - SizeIn(d.files, k) + n
      /\ SizeSum(q) - SizeSum(Oldest(q, Len(q) - 1)) = n
      /\ \A x, y : <<x, y>> \in Held(q)
                   <=> (<<x, y>> \in Held(d.files) /\ x # k) \/ (x = k /\ y = n)
      /\ \A x, y : Before(q, x, y)
                   <=> \/ Before(d.files, x, y) /\ x # k /\ y # k
                       \/ Has(d.files, x) /\ x # k /\ y = k
  <2>1. LET w == Without(d.files, i.key)
            t == Append(w, i)
        IN  /\ t \in Queues /\ Len(t) = Len(w) + 1 /\ t[Len(t)] = i /\ Len(t) \in 1..Len(d.files) + 1
            /\ Len(w) = Len(d.files) - (IF Has(d.files, i.key) THEN 1 ELSE 0)
            /\ SizeSum(t) = SizeSum(d.files) - SizeIn(d.files, i.key) + i.size
            /\ SizeSum(t) - SizeSum(Oldest(t, Len(t) - 1)) = i.size
            /\ SizeSum(w) = SizeSum(d.files) - SizeIn(d.files, i.key) /\ SizeSum(w) \in Nat
            /\ \A x, y : <<x, y>> \in Held(t)
                         <=> (<<x, y>> \in Held(d.files) /\ x # i.key) \/ (x = i.key /\ y = i.size)
            /\ \A x, y : Before(t, x, y)
                         <=> (Before(d.files, x, y) /\ x # i.key /\ y # i.key)
                             \/ (Has(d.files, x) /\ x # i.key /\ y = i.key)
    BY <1>1, <1>2, MovedFacts, Zenon
  <2> QED BY <1>1, <1>3, <2>1
<1>5. /\ Len(d.files) \in Nat /\ SizeSum(d.files) \in Nat /\ Len(q) \in Nat
      /\ SizeIn(d.files, k) \in Nat /\ SizeIn(disk.files, k) \in Nat
      /\ DOMAIN q = 1..Len(q)
  BY <1>2, <1>4, WithoutFacts, QueueFacts
<1>6. /\ MoreBytes(d, k, n) = n - SizeIn(d.files, k) /\ MoreBytes(d, k, n) \in Int
      /\ MoreBytes(d, k, n) <= n /\ MoreBytes(disk, k, n) \in Int
      /\ MoreEntries(d, k) = (IF Has(d.files, k) THEN 0 ELSE 1) /\ MoreEntries(d, k) \in 0..1
      /\ MoreEntries(disk, k) \in Int
  BY <1>5 DEF MoreBytes, MoreEntries
<1>7. /\ Len(q) = Len(d.files) + MoreEntries(d, k) /\ Len(q) > 0
      /\ SizeSum(q) = SizeSum(d.files) + MoreBytes(d, k, n)
  <2> DEFINE l == Len(d.files)
             m == Len(Without(d.files, k))
             c == Len(q)
             x == MoreEntries(d, k)
  <2>1. /\ l \in Nat /\ m \in Nat /\ c \in Nat /\ c = m + 1
        /\ m = l - (IF Has(d.files, k) THEN 1 ELSE 0) /\ x = (IF Has(d.files, k) THEN 0 ELSE 1)
    <3>1. Len(Without(d.files, k)) \in Nat
      BY <1>2, WithoutFacts, QueueFacts
    <3> QED BY <1>4, <1>5, <1>6, <3>1
  <2> HIDE DEF l, m, c, x
  <2>2. c = l + x /\ c > 0
    <3>1. CASE Has(d.files, k)
      <4>1. m = l - 1 /\ x = 0
        BY <2>1, <3>1
      <4> QED BY <2>1, <4>1
    <3>2. CASE ~Has(d.files, k)
      <4>1. m = l - 0 /\ x = 1
        BY <2>1, <3>2
      <4> QED BY <2>1, <4>1
    <3> QED BY <3>1, <3>2
  <2>3. SizeSum(q) = SizeSum(d.files) + MoreBytes(d, k, n)
    <3> DEFINE a == SizeSum(q)
               b == SizeSum(d.files)
               v == SizeIn(d.files, k)
               y == MoreBytes(d, k, n)
    <3>1. b \in Nat /\ v \in Nat /\ a = b - v + n /\ y = n - v
      BY <1>4, <1>5, <1>6
    <3> HIDE DEF a, b, v, y
    <3>2. a = b + y
      BY <3>1
    <3> QED BY <3>2 DEF a, b, y
  <2> QED BY <2>2, <2>3 DEF c, l, x
<1>8. Lasting(q, k, n)
  <2>1. Len(q) \in DOMAIN q
    BY <1>5, <1>7
  <2> QED BY <1>1, <1>4, <2>1 DEF Lasting
<1> DEFINE T == d.total + MoreBytes(disk, k, n)
           E == d.entries + MoreEntries(disk, k)
<1>9. p = [d EXCEPT !.files = q, !.total = T, !.entries = E]
  BY DEF Stored, q
<1>10. T \in Int /\ E \in Int
  BY <1>2, <1>6
<1> HIDE DEF p, T, E
<1>11. /\ p \in DiskState /\ p.young = d.young /\ p.old = d.old /\ p.files = q
       /\ p.total = T /\ p.entries = E
  <2>1. d = [files |-> d.files, total |-> d.total, entries |-> d.entries, young |-> d.young,
             old |-> d.old]
    BY DEF DiskState
  <2>2. p = [files |-> q, total |-> T, entries |-> E, young |-> d.young, old |-> d.old]
    BY <1>9, <2>1
  <2> QED BY <1>2, <1>4, <1>10, <2>2 DEF DiskState
<1> QED BY <1>4, <1>6, <1>7, <1>8, <1>11 DEF p, q, i, T, E

\* A process finds the files of another.
LEMMA StartFacts ==
  ASSUME NEW files \in Queues, NEW f \in Faults, NEW young \in Nat, NEW old \in Nat
  PROVE  LET p == Start(files, f, young, old)
         IN  /\ p \in DiskState /\ p.young = young /\ p.old <= old
             /\ f.listed /\ f.stuck = {} =>
                  /\ Counted(p) /\ p.old = 0 /\ Within(p.files, MaxEntries, MaxBytes)
                  /\ Held(p.files) \subseteq Held(files)
<1> DEFINE d == [files |-> files, total |-> 0, entries |-> 0, young |-> young, old |-> old]
<1>1. d \in DiskState /\ d.files = files /\ d.young = young /\ d.old = old
  BY DEF DiskState
<1>2. Start(files, f, young, old) = Prune(d, MaxEntries, MaxBytes, f)
  BY DEF Start, PruneToLimits
<1> HIDE DEF d
<1>3. LET r == Prune(d, MaxEntries, MaxBytes, f)
      IN  /\ r \in DiskState /\ r.young = d.young /\ r.old <= d.old
          /\ f.listed /\ f.stuck = {} =>
               /\ r.total = SizeSum(r.files) /\ r.entries = Len(r.files) /\ r.old = 0
               /\ Within(r.files, MaxEntries, MaxBytes)
               /\ Len(r.files) <= Len(d.files) /\ SizeSum(r.files) <= SizeSum(d.files)
               /\ Held(r.files) \subseteq Held(d.files)
               /\ \A x, y : Before(r.files, x, y) <=> /\ Before(d.files, x, y)
                                                      /\ Has(r.files, x) /\ Has(r.files, y)
  BY <1>1, CacheLimits, PruneFacts
<1> DEFINE r == Start(files, f, young, old)
<1>4. r = Prune(d, MaxEntries, MaxBytes, f)
  BY <1>2
<1> HIDE DEF r
<1>5. /\ r \in DiskState /\ r.young = young /\ r.old <= old
      /\ f.listed /\ f.stuck = {} =>
           /\ Counted(r) /\ r.old = 0 /\ Within(r.files, MaxEntries, MaxBytes)
           /\ Held(r.files) \subseteq Held(files)
  BY <1>1, <1>3, <1>4 DEF Counted
<1> QED BY <1>5 DEF r

-------------------------------------------------------------------------------
(* AudioCache: what holds whatever fails.                                    *)

MemGood(m)  == /\ m \in MemState /\ MemCounted(m)
               /\ \A x, y : <<x, y>> \in Held(m.queue) => MemAccepts(y)
DiskGood(d) == d \in DiskState /\ d.young + d.old <= MaxTemps

\* What holds whatever goes wrong: the memory is exact, and holds nothing that it would
\* not accept.
CacheBase ==
  /\ world \in Worlds
  /\ MemGood(mem)
  /\ DiskGood(disk)
  /\ puts \in 0..PrunePeriod - 1
  /\ reply = <<>> \/ reply \in Keys \X Nat

\* The values that a call is made with.
LEMMA CallFacts ==
  ASSUME world \in Worlds
  PROVE  /\ \A f \in world.faults : f \in Faults
         /\ \A k \in Keys : \A n \in world.sizes[k] : n \in Nat \ {0}
         /\ Healthy \in Faults
BY CacheAssumption DEF Faults, Healthy

\* Nothing is held.
LEMMA NoneFacts ==
  /\ NoMemory.queue = <<>> /\ <<>> \in Queues /\ SizeSum(<<>>) = 0 /\ Len(<<>>) = 0
  /\ \A x, y : <<x, y>> \notin Held(<<>>)
  /\ \A x, y : ~Before(<<>>, x, y)
  /\ MemGood(NoMemory)
<1>1. <<>> \in Queues
  <2>1. <<>> \in Seq(Items) /\ Len(<<>>) = 0 /\ DOMAIN <<>> = {}
    OBVIOUS
  <2> QED BY <2>1 DEF Queues, LruOrder
<1>2. SizeSum(<<>>) = 0 /\ Len(<<>>) = 0
  BY SizeOfOne
<1>3. (\A x, y : <<x, y>> \notin Held(<<>>)) /\ (\A x, y : ~Before(<<>>, x, y))
  <2>1. DOMAIN <<>> = {}
    OBVIOUS
  <2> QED BY <2>1 DEF Held, Before
<1>4. NoMemory.queue = <<>> /\ NoMemory.total = 0 /\ NoMemory \in MemState
  BY <1>1 DEF NoMemory, MemState
<1>5. MemCounted(NoMemory)
  BY <1>2, <1>4, CacheLimits DEF MemCounted, Within
<1> QED BY <1>1, <1>2, <1>3, <1>4, <1>5 DEF MemGood

\* Every use of the memory keeps it good.
LEMMA GoodPrune ==
  ASSUME NEW m, MemGood(m)
  PROVE  MemGood(MemPrune(m))
BY MemPruneFacts DEF MemGood

\* A get refreshes one of its results.
LEMMA GoodGet ==
  ASSUME NEW m, MemGood(m), NEW k
  PROVE  MemGood([MemPrune(m) EXCEPT !.queue = Refreshed(@, k)])
<1> DEFINE p == [MemPrune(m) EXCEPT !.queue = Refreshed(@, k)]
<1>1. p \in MemState /\ (MemCounted(m) => MemCounted(p)) /\ Held(p.queue) \subseteq Held(m.queue)
  BY MemGetFacts DEF MemGood
<1> HIDE DEF p
<1>2. MemGood(p)
  BY <1>1 DEF MemGood
<1> QED BY <1>2 DEF p

\* A put adds a result that it accepts.
LEMMA GoodPut ==
  ASSUME NEW m, MemGood(m), NEW k \in Keys, NEW n \in Nat \ {0}
  PROVE  MemGood(MemPut(m, k, n))
<1> DEFINE p == MemPut(m, k, n)
<1>1. /\ p \in MemState /\ MemCounted(p)
      /\ ~MemAccepts(n) => p = m
      /\ MemAccepts(n) => \A x, y : <<x, y>> \in Held(p.queue)
                             => (<<x, y>> \in Held(m.queue) /\ x # k) \/ (x = k /\ y = n)
  BY MemPutFacts DEF MemGood
<1> HIDE DEF p
<1>2. MemGood(p)
  BY <1>1 DEF MemGood
<1> QED BY <1>2 DEF p

\* Time passes for the results of the memory.
LEMMA GoodAged ==
  ASSUME NEW m, MemGood(m), NEW n \in Nat
  PROVE  MemGood([m EXCEPT !.queue = Aged(@, n)])
<1> DEFINE t == Aged(m.queue, n)
           p == [m EXCEPT !.queue = t]
<1>1. m.queue \in Queues /\ m.total \in Int
  BY DEF MemGood, MemState
<1>2. /\ t \in Queues /\ Len(t) = Len(m.queue) /\ SizeSum(t) = SizeSum(m.queue)
      /\ Held(t) = Held(m.queue)
  BY <1>1, AgedFacts
<1> HIDE DEF t
<1>3. p \in MemState /\ p.queue = t /\ p.total = m.total
  BY <1>1, <1>2 DEF MemGood, MemState
<1> HIDE DEF p
<1>4. MemGood(p)
  BY <1>2, <1>3 DEF MemGood, MemCounted, Within
<1> QED BY <1>4 DEF p, t

\* So does every use of the directory.
LEMMA DiskAgedFacts ==
  ASSUME NEW d \in DiskState, NEW n \in Nat
  PROVE  LET p == [d EXCEPT !.files = Aged(@, n)]
         IN  /\ p \in DiskState /\ p.young = d.young /\ p.old = d.old
             /\ p.total = d.total /\ p.entries = d.entries
             /\ Len(p.files) = Len(d.files) /\ SizeSum(p.files) = SizeSum(d.files)
             /\ Held(p.files) = Held(d.files)
             /\ \A x, y : Before(p.files, x, y) <=> Before(d.files, x, y)
<1> DEFINE t == Aged(d.files, n)
           p == [d EXCEPT !.files = t]
<1>1. d.files \in Queues
  BY DEF DiskState
<1>2. /\ t \in Queues /\ Len(t) = Len(d.files) /\ SizeSum(t) = SizeSum(d.files)
      /\ Held(t) = Held(d.files) /\ \A x, y : Before(t, x, y) <=> Before(d.files, x, y)
  BY <1>1, AgedFacts
<1> HIDE DEF t
<1>3. /\ p \in DiskState /\ p.young = d.young /\ p.old = d.old
      /\ p.total = d.total /\ p.entries = d.entries /\ p.files = t
  BY <1>2 DEF DiskState
<1> HIDE DEF p
<1> QED BY <1>2, <1>3 DEF p, t

\* Only temporary files change.
LEMMA TempFacts ==
  ASSUME NEW d \in DiskState, NEW a \in Nat, NEW b \in Nat
  PROVE  LET p == [d EXCEPT !.young = a, !.old = b]
         IN  /\ p \in DiskState /\ p.young = a /\ p.old = b /\ p.files = d.files
             /\ p.total = d.total /\ p.entries = d.entries
BY DEF DiskState

\* Whatever goes wrong, pruning leaves a directory.
LEMMA PruneTemps ==
  ASSUME NEW d \in DiskState, NEW entries \in Nat, NEW bytes \in Nat, NEW f \in Faults
  PROVE  /\ Prune(d, entries, bytes, f) \in DiskState
         /\ Prune(d, entries, bytes, f).young = d.young
         /\ Prune(d, entries, bytes, f).old <= d.old
<1> DEFINE p == Prune(d, entries, bytes, f)
<1>1. p \in DiskState /\ p.young = d.young /\ p.old <= d.old
  BY PruneFacts
<1> QED BY <1>1

\* Only the temporary file of a put changes.
LEMMA YoungFacts ==
  ASSUME NEW d \in DiskState, NEW a \in Nat
  PROVE  LET p == [d EXCEPT !.young = a]
         IN  /\ p \in DiskState /\ p.young = a /\ p.old = d.old /\ p.files = d.files
             /\ p.total = d.total /\ p.entries = d.entries
BY DEF DiskState

\* The directory that put made room in.
LEMMA GoodRoom ==
  ASSUME DiskGood(disk), NEW k \in Keys, NEW n \in Nat \ {0}, NEW f \in Faults
  PROVE  DiskGood(WithRoom(k, n, f))
<1> DEFINE p == WithRoom(k, n, f)
<1>1. disk \in DiskState /\ disk.young \in Nat /\ disk.old \in Nat /\ disk.young + disk.old <= MaxTemps
  BY DEF DiskGood, DiskState
<1>2. p \in DiskState /\ p.young = disk.young /\ p.old <= disk.old
  BY <1>1, RoomFacts
<1> HIDE DEF p
<1>3. p.old \in Nat
  BY <1>2 DEF DiskState
<1>4. DiskGood(p)
  BY <1>1, <1>2, <1>3, CacheLimits DEF DiskGood
<1> QED BY <1>4 DEF p

\* The directory that a new process starts with.
LEMMA GoodStart ==
  ASSUME NEW files \in Queues, NEW f \in Faults, NEW young \in Nat, NEW old \in Nat,
         young + old <= MaxTemps
  PROVE  DiskGood(Start(files, f, young, old))
<1> DEFINE p == Start(files, f, young, old)
<1>1. p \in DiskState /\ p.young = young /\ p.old <= old
  BY StartFacts
<1> HIDE DEF p
<1>2. p.old \in Nat
  BY <1>1 DEF DiskState
<1>3. DiskGood(p)
  BY <1>1, <1>2, CacheLimits DEF DiskGood
<1> QED BY <1>3 DEF p

\* A new process.
LEMMA BaseOfNewProcess ==
  ASSUME CacheBase, NEW d, DiskGood(d), NEW f \in Faults, NewProcess(d, f)
  PROVE  CacheBase'
<1>1. d.files \in Queues /\ d.young \in Nat /\ d.old \in Nat /\ d.young + d.old <= MaxTemps
  BY DEF DiskGood, DiskState
<1>2. /\ mem' = NoMemory /\ disk' = Start(d.files, f, d.young, d.old) /\ puts' = 0
      /\ reply' = <<>> /\ world' = world
  BY DEF NewProcess
<1>3. DiskGood(disk') /\ MemGood(mem')
  BY <1>1, <1>2, GoodStart, NoneFacts
<1>4. 0 \in 0..PrunePeriod - 1
  BY CacheLimits
<1> QED BY <1>2, <1>3, <1>4 DEF CacheBase

\* The invariant of the cache that no failure breaks, call by call.
LEMMA BaseInit == Init => CacheBase
<1> SUFFICES ASSUME Init PROVE CacheBase
  OBVIOUS
<1>1. /\ mem = NoMemory /\ world \in Worlds /\ puts = 0 /\ reply = <<>>
      /\ \E files \in Directories, f \in world.faults : disk = Start(files, f, 0, 0)
  BY DEF Init
<1>2. PICK files \in Directories, f \in world.faults : disk = Start(files, f, 0, 0)
  BY <1>1
<1>3. files \in Queues /\ f \in Faults
  BY <1>1, CallFacts, CacheAssumption
<1>4. DiskGood(disk)
  <2>1. 0 \in Nat /\ 0 + 0 <= MaxTemps
    BY CacheLimits
  <2> QED BY <1>2, <1>3, <2>1, GoodStart
<1>5. 0 \in 0..PrunePeriod - 1
  BY CacheLimits
<1> QED BY <1>1, <1>4, <1>5, NoneFacts DEF CacheBase

\* A get reads one tier, or evicts a file.
LEMMA BaseGet ==
  ASSUME CacheBase, NEW k \in Keys, NEW f \in Faults, Get(k, f)
  PROVE  CacheBase'
<1>1. MemGood(mem) /\ DiskGood(disk) /\ disk \in DiskState /\ disk.young + disk.old <= MaxTemps
  BY DEF CacheBase, DiskGood
<1>2. CASE GetFromMemory(k)
  <2>1. /\ mem' = [MemPrune(mem) EXCEPT !.queue = Refreshed(@, k)]
        /\ disk' = [disk EXCEPT !.files = Refreshed(@, k)]
        /\ reply' = <<k, Find(mem.queue, k).size>> /\ world' = world /\ puts' = puts
        /\ Has(Live(mem.queue), k)
    BY <1>2 DEF GetFromMemory
  <2>2. MemGood(mem')
    BY <1>1, <2>1, GoodGet
  <2>3. disk' \in DiskState /\ disk'.young = disk.young /\ disk'.old = disk.old
    BY <1>1, <2>1, DiskGetFacts
  <2>4. reply' \in Keys \X Nat
    <3>1. mem.queue \in Queues
      BY <1>1 DEF MemGood, MemState
    <3>2. Find(mem.queue, k) \in Items
      BY <2>1, <3>1, LiveFacts, HasFacts
    <3>3. Find(mem.queue, k).size \in Nat
      BY <3>2, ItemFacts
    <3> QED BY <2>1, <3>3
  <2> QED BY <1>1, <2>1, <2>2, <2>3, <2>4 DEF CacheBase, DiskGood
<1>3. CASE GetFromDisk(k)
  <2> DEFINE n == Find(disk.files, k).size
  <2>1. /\ mem' = MemPut(MemPrune(mem), k, n)
        /\ disk' = [disk EXCEPT !.files = Refreshed(@, k)]
        /\ reply' = <<k, n>> /\ world' = world /\ puts' = puts
        /\ Has(disk.files, k)
    BY <1>3 DEF GetFromDisk
  <2>2. n \in Nat \ {0}
    <3>1. disk.files \in Queues
      BY <1>1 DEF DiskState
    <3>2. Find(disk.files, k) \in Items
      BY <2>1, <3>1, HasFacts
    <3> QED BY <3>2, ItemFacts
  <2> HIDE DEF n
  <2>3. MemGood(mem')
    BY <1>1, <2>1, <2>2, GoodPrune, GoodPut
  <2>4. disk' \in DiskState /\ disk'.young = disk.young /\ disk'.old = disk.old
    BY <1>1, <2>1, DiskGetFacts
  <2> QED BY <1>1, <2>1, <2>2, <2>3, <2>4 DEF CacheBase, DiskGood
<1>4. CASE GetEvicts(k, f)
  <2>1. /\ mem' = MemPrune(mem) /\ disk' = Evict(disk, k, f) /\ reply' = <<>> /\ world' = world
        /\ puts' = puts /\ Has(disk.files, k)
    BY <1>4 DEF GetEvicts
  <2>2. disk' \in DiskState /\ disk'.young = disk.young /\ disk'.old = disk.old
    BY <1>1, <2>1, EvictFacts
  <2>3. MemGood(mem')
    BY <1>1, <2>1, GoodPrune
  <2> QED BY <1>1, <2>1, <2>2, <2>3 DEF CacheBase, DiskGood
<1>5. CASE GetMiss(k)
  <2>1. mem' = MemPrune(mem) /\ reply' = <<>> /\ world' = world /\ disk' = disk /\ puts' = puts
    BY <1>5 DEF GetMiss
  <2>2. MemGood(mem')
    BY <1>1, <2>1, GoodPrune
  <2> QED BY <2>1, <2>2 DEF CacheBase
<1> QED BY <1>2, <1>3, <1>4, <1>5 DEF Get

\* A put makes room, writes and prunes, and any of these may fail.
LEMMA BasePut ==
  ASSUME CacheBase, NEW k \in Keys, NEW n \in Nat \ {0}, NEW f \in Faults, Put(k, n, f)
  PROVE  CacheBase'
<1> DEFINE d == WithRoom(k, n, f)
<1>1. /\ MemGood(mem) /\ DiskGood(disk) /\ disk \in DiskState /\ puts \in Nat
  BY CacheLimits DEF CacheBase, DiskGood
<1>2. DiskGood(d)
  BY <1>1, GoodRoom
<1> HIDE DEF d
<1>3. d \in DiskState /\ d.young \in Nat /\ d.old \in Nat /\ d.young + d.old <= MaxTemps
  BY <1>2 DEF DiskGood, DiskState
<1>4. MemGood(MemPut(mem, k, n)) /\ <<k, n>> \in Keys \X Nat
  BY <1>1, GoodPut
<1>5. ASSUME InMemory(k, n) PROVE MemGood(mem') /\ (reply' = <<>> \/ reply' \in Keys \X Nat)
  BY <1>4, <1>5 DEF InMemory
<1>6. CASE PutInMemory(k, n)
  <2>1. InMemory(k, n) /\ world' = world /\ disk' = disk /\ puts' = puts
    BY <1>6 DEF PutInMemory
  <2> QED BY <1>5, <2>1 DEF CacheBase
<1>7. CASE PutDeclined(k, n, f)
  <2>1. InMemory(k, n) /\ world' = world /\ disk' = d /\ puts' = puts
    BY <1>7 DEF PutDeclined, d
  <2> QED BY <1>2, <1>5, <2>1 DEF CacheBase
<1>8. CASE PutFails(k, n, f)
  <2> DEFINE a == d.young + (IF f.leaked /\ d.young + d.old < MaxTemps THEN 1 ELSE 0)
  <2>1. InMemory(k, n) /\ world' = world /\ puts' = puts /\ disk' = [d EXCEPT !.young = a]
    BY <1>8 DEF PutFails, d
  <2>2. a \in Nat /\ a + d.old <= MaxTemps
    BY <1>3, CacheLimits
  <2> HIDE DEF a
  <2>3. disk' \in DiskState /\ disk'.young = a /\ disk'.old = d.old
    BY <1>3, <2>1, <2>2, YoungFacts
  <2>4. DiskGood(disk')
    BY <2>2, <2>3 DEF DiskGood
  <2> QED BY <1>5, <2>1, <2>4 DEF CacheBase
<1>9. CASE PutStored(k, n, f)
  <2> DEFINE s == Stored(d, k, n)
  <2>1. /\ mem' = MemPut(mem, k, n) /\ reply' = <<k, n>> /\ world' = world
        /\ IF puts + 1 >= PrunePeriod THEN disk' = PruneToLimits(s, f) /\ puts' = 0
           ELSE disk' = s /\ puts' = puts + 1
    BY <1>9 DEF PutStored, d
  <2>2. s \in DiskState /\ s.young = d.young /\ s.old = d.old
    BY <1>1, <1>3, StoredFacts
  <2> HIDE DEF s
  <2>3. CASE puts + 1 >= PrunePeriod
    <3>1. disk' = Prune(s, MaxEntries, MaxBytes, f) /\ puts' = 0
      BY <2>1, <2>3 DEF PruneToLimits
    <3>2. disk' \in DiskState /\ disk'.young = s.young /\ disk'.old <= s.old
      <4>0. MaxEntries \in Nat /\ MaxBytes \in Nat
        BY CacheLimits
      <4>1. /\ Prune(s, MaxEntries, MaxBytes, f) \in DiskState
            /\ Prune(s, MaxEntries, MaxBytes, f).young = s.young
            /\ Prune(s, MaxEntries, MaxBytes, f).old <= s.old
        BY <2>2, <4>0, PruneTemps
      <4> QED BY <3>1, <4>1
    <3>3. disk'.old \in Nat
      BY <3>2 DEF DiskState
    <3>4. DiskGood(disk')
      BY <1>3, <2>2, <3>2, <3>3, CacheLimits DEF DiskGood
    <3>5. puts' \in 0..PrunePeriod - 1
      BY <3>1, CacheLimits
    <3> QED BY <1>4, <2>1, <3>4, <3>5 DEF CacheBase
  <2>4. CASE ~(puts + 1 >= PrunePeriod)
    <3>1. disk' = s /\ puts' = puts + 1
      BY <2>1, <2>4
    <3>2. DiskGood(disk')
      BY <1>3, <2>2, <3>1 DEF DiskGood
    <3>3. puts' \in 0..PrunePeriod - 1
      BY <1>1, <2>4, <3>1, CacheLimits
    <3> QED BY <1>4, <2>1, <3>2, <3>3 DEF CacheBase
  <2> QED BY <2>3, <2>4
<1> QED BY <1>6, <1>7, <1>8, <1>9 DEF Put

\* What a process that dies in put leaves to the next one.
LEMMA CrashFacts ==
  ASSUME CacheBase, NEW k \in Keys, NEW n \in Nat \ {0}, NEW f \in Faults, CrashInPut(k, n, f)
  PROVE  \E d : /\ DiskGood(d) /\ NewProcess(d, f)
               /\ \/ d.files = WithRoom(k, n, f).files
                  \/ d.files = Replaced(WithRoom(k, n, f).files, k, n)
<1> DEFINE d == WithRoom(k, n, f)
           q == Replaced(d.files, k, n)
<1>1. disk \in DiskState /\ DiskGood(d)
  BY GoodRoom DEF CacheBase, DiskGood
<1>2. \/ d.young + d.old < MaxTemps /\ NewProcess([d EXCEPT !.young = @ + 1], f)
      \/ NewProcess([d EXCEPT !.files = q], f)
  BY DEF CrashInPut
<1> HIDE DEF d
<1>3. d \in DiskState /\ d.young \in Nat /\ d.old \in Nat /\ d.young + d.old <= MaxTemps
  BY <1>1 DEF DiskGood, DiskState
<1>4. CASE d.young + d.old < MaxTemps /\ NewProcess([d EXCEPT !.young = @ + 1], f)
  <2> DEFINE a == d.young + 1
             e == [d EXCEPT !.young = a]
  <2>1. a \in Nat /\ a + d.old <= MaxTemps
    BY <1>3, <1>4, CacheLimits
  <2> HIDE DEF a
  <2>2. e \in DiskState /\ e.young = a /\ e.old = d.old /\ e.files = d.files
    BY <1>3, <2>1, YoungFacts
  <2>3. NewProcess(e, f)
    BY <1>4 DEF a
  <2> HIDE DEF e
  <2>4. DiskGood(e)
    BY <2>1, <2>2 DEF DiskGood
  <2> QED BY <2>2, <2>3, <2>4 DEF d
<1>5. CASE NewProcess([d EXCEPT !.files = q], f)
  <2> DEFINE e == [d EXCEPT !.files = q]
  <2>1. q \in Queues
    BY <1>1, <1>3, StoredFacts
  <2> HIDE DEF q
  <2>2. e \in DiskState /\ e.young = d.young /\ e.old = d.old /\ e.files = q
    BY <1>3, <2>1 DEF DiskState
  <2>3. NewProcess(e, f)
    BY <1>5
  <2> HIDE DEF e
  <2>4. DiskGood(e)
    BY <1>3, <2>2 DEF DiskGood
  <2> QED BY <2>2, <2>3, <2>4 DEF d, q
<1> QED BY <1>2, <1>4, <1>5

\* A crash leaves the files, and a new process counts them.
LEMMA BaseCrash ==
  ASSUME CacheBase, NEW k \in Keys, NEW n \in Nat \ {0}, NEW f \in Faults, CrashInPut(k, n, f)
  PROVE  CacheBase'
<1>1. PICK d : DiskGood(d) /\ NewProcess(d, f)
  BY CrashFacts
<1> QED BY <1>1, BaseOfNewProcess

\* With time results and temporary files expire.
LEMMA BaseAge ==
  ASSUME CacheBase, Age
  PROVE  CacheBase'
<1>1. /\ MemGood(mem) /\ DiskGood(disk) /\ mem.queue \in Queues
      /\ disk \in DiskState /\ disk.files \in Queues /\ disk.young + disk.old <= MaxTemps
      /\ disk.young \in Nat /\ disk.old \in Nat
  BY DEF CacheBase, DiskGood, DiskState, MemGood, MemState
<1>2. reply' = <<>> /\ world' = world /\ puts' = puts
  BY DEF Age
<1>3. ASSUME NEW n \in 1..Len(mem.queue),
             mem' = [mem EXCEPT !.queue = Aged(@, n)], UNCHANGED disk
      PROVE  CacheBase'
  <2>1. n \in Nat
    BY <1>1, QueueFacts
  <2>2. MemGood(mem')
    BY <1>1, <1>3, <2>1, GoodAged
  <2> QED BY <1>2, <1>3, <2>2 DEF CacheBase
<1>4. ASSUME NEW n \in 1..Len(disk.files),
             disk' = [disk EXCEPT !.files = Aged(@, n)], UNCHANGED mem
      PROVE  CacheBase'
  <2>1. n \in Nat
    BY <1>1, QueueFacts
  <2>2. disk' \in DiskState /\ disk'.young = disk.young /\ disk'.old = disk.old
    BY <1>1, <1>4, <2>1, DiskAgedFacts
  <2> QED BY <1>1, <1>2, <1>4, <2>2 DEF CacheBase, DiskGood
<1>5. ASSUME UNCHANGED mem, disk' = [disk EXCEPT !.young = 0, !.old = @ + disk.young]
      PROVE  CacheBase'
  <2> DEFINE b == disk.old + disk.young
  <2>1. b \in Nat /\ 0 + b <= MaxTemps /\ disk' = [disk EXCEPT !.young = 0, !.old = b]
    BY <1>1, <1>5, CacheLimits
  <2> HIDE DEF b
  <2>2. disk' \in DiskState /\ disk'.young = 0 /\ disk'.old = b
    <3>1. b \in Nat
      BY <2>1
    <3>2. disk \in DiskState
      BY <1>1
    <3>3. LET p == [disk EXCEPT !.young = 0, !.old = b]
          IN  p \in DiskState /\ p.young = 0 /\ p.old = b
      BY <3>1, <3>2 DEF DiskState
    <3> QED BY <2>1, <3>3, Zenon
  <2> QED BY <1>2, <1>5, <2>1, <2>2 DEF CacheBase, DiskGood
<1> QED BY <1>3, <1>4, <1>5 DEF Age

\* Every step keeps what holds whatever fails.
LEMMA BaseStep ==
  ASSUME CacheBase, [Next]_vars
  PROVE  CacheBase'
<1>0. world \in Worlds /\ DiskGood(disk)
  BY DEF CacheBase
<1>1. CASE UNCHANGED vars
  BY <1>1 DEF vars, CacheBase
<1>2. ASSUME NEW f \in world.faults, NEW k \in Keys, Get(k, f) PROVE CacheBase'
  BY <1>0, <1>2, CallFacts, BaseGet
<1>3. ASSUME NEW f \in world.faults, NEW k \in Keys, NEW n \in world.sizes[k], Put(k, n, f)
      PROVE  CacheBase'
  BY <1>0, <1>3, CallFacts, BasePut
<1>4. ASSUME NEW f \in world.faults, NEW k \in Keys, NEW n \in world.sizes[k], CrashInPut(k, n, f)
      PROVE  CacheBase'
  BY <1>0, <1>4, CallFacts, BaseCrash
<1>5. ASSUME NEW f \in world.faults, Restart(f) PROVE CacheBase'
  BY <1>0, <1>5, CallFacts, BaseOfNewProcess DEF Restart
<1>6. CASE Age
  BY <1>6, BaseAge
<1>7. CASE Clear
  <2>1. mem' = NoMemory /\ reply' = <<>> /\ world' = world /\ disk' = disk /\ puts' = puts
    BY <1>7 DEF Clear
  <2> QED BY <2>1, NoneFacts DEF CacheBase
<1> QED BY <1>1, <1>2, <1>3, <1>4, <1>5, <1>6, <1>7 DEF Next

-------------------------------------------------------------------------------
(* AudioCache: what a call promises.                                         *)

\* The limits that put and a restart leave to the directory.
LEMMA PrunedFacts ==
  ASSUME NEW d \in DiskState
  PROVE  LET p == PruneToLimits(d, Healthy)
         IN  Counted(p) /\ Within(p.files, MaxEntries, MaxBytes) /\ p.old = 0
<1>1. /\ Healthy \in Faults /\ Healthy.listed /\ Healthy.stuck = {}
      /\ MaxEntries \in Nat /\ MaxBytes \in Nat
  BY CacheLimits DEF Healthy, Faults
<1> DEFINE p == Prune(d, MaxEntries, MaxBytes, Healthy)
<1>2. p.total = SizeSum(p.files) /\ p.entries = Len(p.files) /\ p.old = 0
      /\ Within(p.files, MaxEntries, MaxBytes)
  BY <1>1, PruneFacts
<1> QED BY <1>2 DEF PruneToLimits, Counted

\* A start leaves a directory within its limits, exactly counted.
LEMMA StartedFacts ==
  ASSUME NEW files \in Queues, NEW young \in Nat, NEW old \in Nat
  PROVE  LET p == Start(files, Healthy, young, old)
         IN  /\ p \in DiskState /\ Counted(p) /\ Within(p.files, MaxEntries, MaxBytes) /\ p.old = 0
             /\ Held(p.files) \subseteq Held(files)
<1>1. Healthy \in Faults /\ Healthy.listed /\ Healthy.stuck = {}
  BY DEF Healthy, Faults
<1> DEFINE p == Start(files, Healthy, young, old)
<1>2. p \in DiskState /\ Counted(p) /\ Within(p.files, MaxEntries, MaxBytes) /\ p.old = 0
      /\ Held(p.files) \subseteq Held(files)
  BY <1>1, StartFacts
<1> QED BY <1>2

\* Whatever went wrong before, pruning makes the totals exact.
LEMMA HealedByRestart ==
  ASSUME CacheBase, Restart(Healthy)
  PROVE  Restored'
<1>1. disk.files \in Queues /\ disk.young \in Nat /\ disk.old \in Nat
  BY DEF CacheBase, DiskGood, DiskState
<1>2. disk' = Start(disk.files, Healthy, disk.young, disk.old)
  BY DEF Restart, NewProcess
<1>3. Counted(disk') /\ Within(disk'.files, MaxEntries, MaxBytes) /\ disk'.old = 0
  BY <1>1, <1>2, StartedFacts
<1> QED BY <1>3 DEF Restored, DiskCounted, Counted

\* So does the put that prunes.
LEMMA HealedByPut ==
  ASSUME CacheBase, NEW k \in Keys, NEW n \in Nat \ {0}, PutStored(k, n, Healthy),
         puts + 1 >= PrunePeriod
  PROVE  Restored'
<1> DEFINE d == WithRoom(k, n, Healthy)
           s == Stored(d, k, n)
<1>1. disk \in DiskState /\ DiskGood(disk) /\ Healthy \in Faults
  BY CallFacts DEF CacheBase, DiskGood
<1>2. d \in DiskState
  BY <1>1, GoodRoom DEF DiskGood
<1>3. disk' = PruneToLimits(s, Healthy)
  BY DEF PutStored
<1> HIDE DEF d
<1>4. s \in DiskState
  BY <1>1, <1>2, StoredFacts
<1> HIDE DEF s
<1>5. Counted(disk') /\ Within(disk'.files, MaxEntries, MaxBytes) /\ disk'.old = 0
  BY <1>3, <1>4, PrunedFacts
<1> QED BY <1>5 DEF Restored, DiskCounted, Counted

\* An item that is fresh in a tier answers for a reply.
LEMMA ReplyHeld ==
  ASSUME NEW k, NEW n, reply' = <<k, n>>,
         Lasting(mem'.queue, k, n) \/ Lasting(disk'.files, k, n)
  PROVE  ReplyIsTrue'
<1>1. PICK s \in {mem'.queue, disk'.files} : Lasting(s, k, n)
  OBVIOUS
<1>2. PICK i \in DOMAIN s : s[i].key = k /\ s[i].size = n /\ ~s[i].idle
  BY <1>1 DEF Lasting
<1>3. s[i] \in ToSet(mem'.queue) \cup ToSet(disk'.files)
  BY <1>2 DEF ToSet
<1>4. s[i].key = reply'[1] /\ s[i].size = reply'[2] /\ ~s[i].idle
  BY <1>2
<1>5. \E x \in ToSet(mem'.queue) \cup ToSet(disk'.files) :
        x.key = reply'[1] /\ x.size = reply'[2] /\ ~x.idle
  BY <1>3, <1>4
<1> QED BY <1>5 DEF ReplyIsTrue

\* What is reported is what a tier holds from then on.
LEMMA NoReply ==
  ASSUME reply' = <<>>
  PROVE  ReplyIsTrue'
BY DEF ReplyIsTrue

\* A get reports the size that a tier holds.
LEMMA ReplyOfGet ==
  ASSUME CacheBase, NEW k \in Keys, NEW f \in Faults, Get(k, f)
  PROVE  ReplyIsTrue'
<1>1. mem \in MemState /\ mem.queue \in Queues /\ disk \in DiskState /\ disk.files \in Queues
  BY DEF CacheBase, MemGood, DiskGood, MemState, DiskState
<1>2. CASE GetFromMemory(k)
  <2> DEFINE n == Find(mem.queue, k).size
  <2>1. /\ mem' = [MemPrune(mem) EXCEPT !.queue = Refreshed(@, k)] /\ reply' = <<k, n>>
        /\ Has(Live(mem.queue), k)
    BY <1>2 DEF GetFromMemory
  <2>2. Lasting(mem'.queue, k, n)
    BY <1>1, <2>1, MemGetFacts
  <2> HIDE DEF n
  <2> QED BY <2>1, <2>2, ReplyHeld
<1>3. CASE GetFromDisk(k)
  <2> DEFINE n == Find(disk.files, k).size
  <2>1. /\ disk' = [disk EXCEPT !.files = Refreshed(@, k)] /\ reply' = <<k, n>>
        /\ Has(disk.files, k)
    BY <1>3 DEF GetFromDisk
  <2>2. Lasting(disk'.files, k, SizeIn(disk.files, k))
    BY <1>1, <2>1, DiskGetFacts
  <2>3. SizeIn(disk.files, k) = n
    BY <2>1 DEF SizeIn
  <2> HIDE DEF n
  <2> QED BY <2>1, <2>2, <2>3, ReplyHeld
<1>4. CASE GetEvicts(k, f)
  BY <1>4, NoReply DEF GetEvicts
<1>5. CASE GetMiss(k)
  BY <1>5, NoReply DEF GetMiss
<1> QED BY <1>2, <1>3, <1>4, <1>5 DEF Get

\* A put reports a result only when a tier has taken it.
LEMMA ReplyOfPut ==
  ASSUME CacheBase, NEW k \in Keys, NEW n \in Nat \ {0}, NEW f \in Faults, Put(k, n, f)
  PROVE  ReplyIsTrue'
<1> DEFINE d == WithRoom(k, n, f)
<1>1. /\ mem \in MemState /\ MemCounted(mem) /\ disk \in DiskState /\ DiskGood(disk)
  BY DEF CacheBase, DiskGood, MemGood
<1>2. d \in DiskState
  BY <1>1, GoodRoom DEF DiskGood
<1> HIDE DEF d
<1>3. ASSUME InMemory(k, n) PROVE ReplyIsTrue'
  <2>1. CASE MemAccepts(n)
    <3>1. mem' = MemPut(mem, k, n) /\ reply' = <<k, n>>
      BY <1>3, <2>1 DEF InMemory
    <3>2. Lasting(mem'.queue, k, n)
      BY <1>1, <2>1, <3>1, MemPutFacts
    <3> QED BY <3>1, <3>2, ReplyHeld
  <2>2. CASE ~MemAccepts(n)
    BY <1>3, <2>2, NoReply DEF InMemory
  <2> QED BY <2>1, <2>2
<1>4. CASE PutInMemory(k, n)
  BY <1>3, <1>4 DEF PutInMemory
<1>5. CASE PutDeclined(k, n, f)
  BY <1>3, <1>5 DEF PutDeclined
<1>6. CASE PutFails(k, n, f)
  BY <1>3, <1>6 DEF PutFails
<1>7. CASE PutStored(k, n, f)
  <2> DEFINE s == Stored(d, k, n)
             q == Replaced(d.files, k, n)
  <2>1. /\ reply' = <<k, n>> /\ MaxEntries > 0 /\ n <= MaxBytes
        /\ IF puts + 1 >= PrunePeriod THEN disk' = PruneToLimits(s, f) ELSE disk' = s
    BY <1>7 DEF PutStored, d, DiskAccepts
  <2>2. /\ s \in DiskState /\ s.files = q
        /\ Len(q) > 0 /\ q[Len(q)] = Item(k, n) /\ Lasting(q, k, n)
        /\ SizeSum(q) - SizeSum(Oldest(q, Len(q) - 1)) = n
    BY <1>1, <1>2, StoredFacts
  <2> HIDE DEF s, q
  <2>3. CASE puts + 1 >= PrunePeriod
    <3> DEFINE i == s.files[Len(s.files)]
    <3>1. disk' = Prune(s, MaxEntries, MaxBytes, f) /\ MaxEntries \in Nat /\ MaxBytes \in Nat
      BY <2>1, <2>3, CacheLimits DEF PruneToLimits
    <3>2. i = Item(k, n) /\ i.key = k /\ i.size = n /\ ~i.idle
      BY <2>2, ItemIsOne
    <3>3. SizeSum(s.files) - SizeSum(Oldest(s.files, Len(s.files) - 1)) <= MaxBytes
      BY <2>1, <2>2
    <3>4. Lasting(Prune(s, MaxEntries, MaxBytes, f).files, i.key, i.size)
      BY <2>1, <2>2, <3>1, <3>2, <3>3, PruneKeepsLast
    <3> HIDE DEF i
    <3>5. Lasting(disk'.files, k, n)
      BY <3>1, <3>2, <3>4
    <3> QED BY <2>1, <3>5, ReplyHeld
  <2>4. CASE ~(puts + 1 >= PrunePeriod)
    <3>1. Lasting(disk'.files, k, n)
      BY <2>1, <2>2, <2>4
    <3> QED BY <2>1, <3>1, ReplyHeld
  <2> QED BY <2>3, <2>4
<1> QED BY <1>4, <1>5, <1>6, <1>7 DEF Put

\* Every report is true after its step.
LEMMA ReplyStep ==
  ASSUME CacheBase, ReplyIsTrue, [Next]_vars
  PROVE  ReplyIsTrue'
<1>0. world \in Worlds
  BY DEF CacheBase
<1>1. CASE UNCHANGED vars
  <2>1. mem' = mem /\ disk' = disk /\ reply' = reply
    BY <1>1 DEF vars
  <2> QED BY <2>1 DEF ReplyIsTrue
<1>2. ASSUME NEW f \in world.faults, NEW k \in Keys, Get(k, f) PROVE ReplyIsTrue'
  BY <1>0, <1>2, CallFacts, ReplyOfGet
<1>3. ASSUME NEW f \in world.faults, NEW k \in Keys, NEW n \in world.sizes[k], Put(k, n, f)
      PROVE  ReplyIsTrue'
  BY <1>0, <1>3, CallFacts, ReplyOfPut
<1>4. ASSUME NEW f, NEW k, NEW n, CrashInPut(k, n, f)
      PROVE  ReplyIsTrue'
  BY <1>4, NoReply DEF CrashInPut, NewProcess
<1>5. ASSUME NEW f, Restart(f) PROVE ReplyIsTrue'
  BY <1>5, NoReply DEF Restart, NewProcess
<1>6. CASE Age
  BY <1>6, NoReply DEF Age
<1>7. CASE Clear
  BY <1>7, NoReply DEF Clear
<1> QED BY <1>1, <1>2, <1>3, <1>4, <1>5, <1>6, <1>7 DEF Next

-------------------------------------------------------------------------------
(* AudioCache: how far the directory may grow.                               *)

\* The growth that the puts since the last pruning allow.
LEMMA AllowedFacts ==
  ASSUME NEW p \in Nat
  PROVE  /\ p * DiskItem \in Nat /\ (p + 1) * DiskItem = p * DiskItem + DiskItem
         /\ MaxEntries + p \in Nat /\ MaxBytes + p * DiskItem \in Nat
<1>1. DiskItem \in Nat /\ MaxEntries \in Nat /\ MaxBytes \in Nat
  BY CacheLimits
<1>2. p * DiskItem \in Nat /\ (p + 1) * DiskItem = p * DiskItem + DiskItem
  BY <1>1
<1> QED BY <1>1, <1>2

\* A directory that has not grown is within the same limits.
LEMMA NotGrown ==
  ASSUME CacheBase, OvershootBounded, world' = world, puts' = puts, disk' \in DiskState,
         Calm => Len(disk'.files) <= Len(disk.files) /\ SizeSum(disk'.files) <= SizeSum(disk.files)
  PROVE  OvershootBounded'
<1> SUFFICES ASSUME Calm PROVE Within(disk'.files, MaxEntries + puts, MaxBytes + puts * DiskItem)
  BY DEF OvershootBounded, Calm
<1>1. disk.files \in Queues /\ disk'.files \in Queues /\ puts \in Nat
  BY CacheLimits DEF CacheBase, DiskGood, DiskState
<1>2. /\ Len(disk.files) \in Nat /\ SizeSum(disk.files) \in Nat
      /\ Len(disk'.files) \in Nat /\ SizeSum(disk'.files) \in Nat
  BY <1>1, QueueFacts
<1> DEFINE a == MaxEntries + puts
           b == MaxBytes + puts * DiskItem
<1>3. a \in Nat /\ b \in Nat /\ Len(disk.files) <= a /\ SizeSum(disk.files) <= b
  BY <1>1, AllowedFacts DEF OvershootBounded, Within
<1> HIDE DEF a, b
<1>4. Len(disk'.files) <= a /\ SizeSum(disk'.files) <= b
  BY <1>2, <1>3
<1> QED BY <1>4 DEF a, b, Within

\* A directory that was pruned is within its limits.
LEMMA OvershootOfPruned ==
  ASSUME disk' \in DiskState, puts' = 0, Calm' => Within(disk'.files, MaxEntries, MaxBytes)
  PROVE  OvershootBounded'
<1>1. 0 \in Nat /\ 0 * DiskItem = 0 /\ MaxEntries + 0 = MaxEntries /\ MaxBytes + 0 = MaxBytes
  BY CacheLimits
<1> QED BY <1>1 DEF OvershootBounded

\* A start leaves no growth.
LEMMA OvershootInit == Init => OvershootBounded
<1> SUFFICES ASSUME Init, Calm PROVE Within(disk.files, MaxEntries + puts, MaxBytes + puts * DiskItem)
  BY DEF OvershootBounded
<1>1. world.faults = {Healthy} /\ puts = 0
  BY DEF Calm, Init
<1>2. PICK files \in Directories : disk = Start(files, Healthy, 0, 0)
  BY <1>1 DEF Init
<1>3. files \in Queues /\ 0 \in Nat
  BY CacheAssumption
<1>4. Within(disk.files, MaxEntries, MaxBytes)
  BY <1>2, <1>3, StartedFacts
<1>5. 0 * DiskItem = 0 /\ MaxEntries + 0 = MaxEntries /\ MaxBytes + 0 = MaxBytes
  BY CacheLimits
<1> QED BY <1>1, <1>4, <1>5

\* The growth, call by call.
LEMMA OvershootOfNewProcess ==
  ASSUME CacheBase, CacheBase', NEW d, DiskGood(d), NEW f \in world.faults, NewProcess(d, f)
  PROVE  OvershootBounded'
<1>1. d.files \in Queues /\ d.young \in Nat /\ d.old \in Nat
  BY DEF DiskGood, DiskState
<1>2. disk' = Start(d.files, f, d.young, d.old) /\ puts' = 0 /\ world' = world
  BY DEF NewProcess
<1>3. ASSUME Calm' PROVE Within(disk'.files, MaxEntries, MaxBytes)
  <2>1. f = Healthy
    BY <1>2, <1>3 DEF Calm
  <2> QED BY <1>1, <1>2, <2>1, StartedFacts
<1>4. disk' \in DiskState
  BY DEF CacheBase, DiskGood
<1> QED BY <1>2, <1>3, <1>4, OvershootOfPruned

\* The directory where put made room is not larger.
LEMMA RoomNotGrown ==
  ASSUME disk \in DiskState, NEW k \in Keys, NEW n \in Nat \ {0}
  PROVE  LET p == WithRoom(k, n, Healthy)
         IN  /\ p \in DiskState
             /\ Len(p.files) <= Len(disk.files) /\ SizeSum(p.files) <= SizeSum(disk.files)
<1>1. Healthy \in Faults /\ Healthy.listed /\ Healthy.stuck = {}
  BY DEF Healthy, Faults
<1> DEFINE p == WithRoom(k, n, Healthy)
<1>2. p \in DiskState /\ Len(p.files) <= Len(disk.files) /\ SizeSum(p.files) <= SizeSum(disk.files)
  BY <1>1, RoomFacts
<1> QED BY <1>2

\* A get adds nothing.
LEMMA OvershootOfGet ==
  ASSUME CacheBase, CacheBase', OvershootBounded, NEW k \in Keys, NEW f, Get(k, f)
  PROVE  OvershootBounded'
<1>1. disk \in DiskState /\ disk.files \in Queues /\ disk' \in DiskState
  BY DEF CacheBase, DiskGood, DiskState
<1>2. Len(disk.files) \in Nat /\ SizeSum(disk.files) \in Nat
  BY <1>1, QueueFacts
<1>3. CASE GetFromMemory(k) \/ GetFromDisk(k)
  <2>1. disk' = [disk EXCEPT !.files = Refreshed(@, k)] /\ world' = world /\ puts' = puts
    BY <1>3 DEF GetFromMemory, GetFromDisk
  <2>2. Len(disk'.files) = Len(disk.files) /\ SizeSum(disk'.files) = SizeSum(disk.files)
    BY <1>1, <2>1, DiskGetFacts
  <2>3. Len(disk'.files) <= Len(disk.files) /\ SizeSum(disk'.files) <= SizeSum(disk.files)
    BY <1>2, <2>2
  <2> QED BY <1>1, <2>1, <2>3, NotGrown
<1>4. CASE GetEvicts(k, f)
  <2>1. disk' = Evict(disk, k, f) /\ world' = world /\ puts' = puts /\ Has(disk.files, k)
    BY <1>4 DEF GetEvicts
  <2>2. Len(disk'.files) <= Len(disk.files) /\ SizeSum(disk'.files) <= SizeSum(disk.files)
    BY <1>1, <2>1, EvictFacts
  <2> QED BY <1>1, <2>1, <2>2, NotGrown
<1>5. CASE GetMiss(k)
  <2>1. disk' = disk /\ world' = world /\ puts' = puts
    BY <1>5 DEF GetMiss
  <2>2. Len(disk'.files) <= Len(disk.files) /\ SizeSum(disk'.files) <= SizeSum(disk.files)
    BY <1>2, <2>1
  <2> QED BY <1>1, <2>1, <2>2, NotGrown
<1> QED BY <1>3, <1>4, <1>5 DEF Get

\* A put adds one entry, or prunes.
LEMMA OvershootOfPut ==
  ASSUME CacheBase, CacheBase', OvershootBounded, NEW k \in Keys, NEW n \in Nat \ {0},
         NEW f \in world.faults, Put(k, n, f)
  PROVE  OvershootBounded'
<1> DEFINE d == WithRoom(k, n, f)
<1>1. /\ disk \in DiskState /\ disk.files \in Queues /\ disk' \in DiskState /\ DiskGood(disk)
      /\ puts \in Nat /\ f \in Faults
  BY CacheLimits, CallFacts DEF CacheBase, DiskGood, DiskState
<1>2. Len(disk.files) \in Nat /\ SizeSum(disk.files) \in Nat
  BY <1>1, QueueFacts
<1>3. world' = world
  BY DEF Put, PutInMemory, PutDeclined, PutFails, PutStored
<1>4. d \in DiskState
  BY <1>1, GoodRoom DEF DiskGood
<1>5. ASSUME Calm
      PROVE  /\ f = Healthy
             /\ Len(d.files) <= Len(disk.files) /\ SizeSum(d.files) <= SizeSum(disk.files)
  <2>1. f = Healthy
    BY <1>5 DEF Calm
  <2> QED BY <1>1, <2>1, RoomNotGrown
<1> HIDE DEF d
<1>6. CASE PutInMemory(k, n)
  <2>1. disk' = disk /\ puts' = puts
    BY <1>6 DEF PutInMemory
  <2>2. Len(disk'.files) <= Len(disk.files) /\ SizeSum(disk'.files) <= SizeSum(disk.files)
    BY <1>2, <2>1
  <2> QED BY <1>1, <1>3, <2>1, <2>2, NotGrown
<1>7. CASE PutDeclined(k, n, f)
  <2>1. disk' = d /\ puts' = puts
    BY <1>7 DEF PutDeclined, d
  <2> QED BY <1>1, <1>3, <1>5, <2>1, NotGrown
<1>8. CASE PutFails(k, n, f)
  <2>1. puts' = puts /\ ~f.written
    BY <1>8 DEF PutFails
  <2>2. ~Calm
    BY <1>5, <2>1 DEF Healthy
  <2> QED BY <1>1, <1>3, <2>1, <2>2, NotGrown
<1>9. CASE PutStored(k, n, f)
  <2> DEFINE s == Stored(d, k, n)
             q == Replaced(d.files, k, n)
             x == MoreEntries(d, k)
             y == MoreBytes(d, k, n)
  <2>1. /\ n <= DiskItem
        /\ IF puts + 1 >= PrunePeriod THEN disk' = PruneToLimits(s, f) /\ puts' = 0
           ELSE disk' = s /\ puts' = puts + 1
    BY <1>9 DEF PutStored, d, DiskAccepts
  <2>2. /\ s \in DiskState /\ s.files = q /\ Len(q) = Len(d.files) + x
        /\ SizeSum(q) = SizeSum(d.files) + y /\ y \in Int /\ y <= n /\ x \in 0..1
    <3>0. s \in DiskState /\ s.files = Replaced(d.files, k, n)
      BY <1>1, <1>4, StoredFacts
    <3>1. s \in DiskState /\ q = s.files
      BY <3>0
    <3>2. Len(q) = Len(d.files) + MoreEntries(d, k) /\ SizeSum(q) = SizeSum(d.files) + MoreBytes(d, k, n)
      BY <1>1, <1>4, StoredFacts
    <3>3. MoreBytes(d, k, n) \in Int /\ MoreBytes(d, k, n) <= n /\ MoreEntries(d, k) \in 0..1
      BY <1>1, <1>4, StoredFacts
    <3> QED BY <3>1, <3>2, <3>3
  <2> HIDE DEF s, q, x, y
  <2>3. CASE puts + 1 >= PrunePeriod
    <3>1. disk' = PruneToLimits(s, f) /\ puts' = 0
      BY <2>1, <2>3
    <3>2. ASSUME Calm' PROVE Within(disk'.files, MaxEntries, MaxBytes)
      <4>1. f = Healthy
        BY <1>3, <1>5, <3>2 DEF Calm
      <4> QED BY <2>2, <3>1, <4>1, PrunedFacts
    <3> QED BY <1>1, <3>1, <3>2, OvershootOfPruned
  <2>4. CASE ~(puts + 1 >= PrunePeriod)
    <3>1. disk'.files = q /\ puts' = puts + 1
      BY <2>1, <2>2, <2>4
    <3>2. SUFFICES ASSUME Calm
                   PROVE  Within(q, MaxEntries + (puts + 1), MaxBytes + (puts + 1) * DiskItem)
      BY <1>3, <3>1 DEF OvershootBounded, Calm
    <3>3. d.files \in Queues /\ Len(d.files) \in Nat /\ SizeSum(d.files) \in Nat
      BY <1>4, QueueFacts DEF DiskState
    <3> DEFINE a == MaxEntries + puts
               b == MaxBytes + puts * DiskItem
    <3>4. a \in Nat /\ b \in Nat /\ Len(disk.files) <= a /\ SizeSum(disk.files) <= b
      BY <1>1, <3>2, AllowedFacts DEF OvershootBounded, Within
    <3>5. /\ MaxEntries + (puts + 1) = a + 1
          /\ MaxBytes + (puts + 1) * DiskItem = b + DiskItem
      <4>1. /\ (puts + 1) * DiskItem = puts * DiskItem + DiskItem /\ puts * DiskItem \in Nat
            /\ MaxBytes \in Nat /\ MaxEntries \in Nat /\ DiskItem \in Nat
        BY <1>1, AllowedFacts, CacheLimits
      <4> DEFINE v == puts * DiskItem
                 w == (puts + 1) * DiskItem
      <4>2. w = v + DiskItem /\ v \in Nat
        BY <4>1
      <4> HIDE DEF v, w
      <4>3. MaxBytes + w = (MaxBytes + v) + DiskItem /\ MaxEntries + (puts + 1) = (MaxEntries + puts) + 1
        BY <1>1, <4>1, <4>2
      <4> QED BY <4>3 DEF v, w
    <3> HIDE DEF a, b
    <3>6. Len(q) <= a + 1
      BY <1>2, <1>5, <2>2, <3>2, <3>3, <3>4
    <3>7. SizeSum(q) <= b + DiskItem
      <4>1. DiskItem \in Nat /\ n \in Nat
        BY CacheLimits
      <4> QED BY <1>2, <1>5, <2>1, <2>2, <3>2, <3>3, <3>4, <4>1
    <3> QED BY <3>5, <3>6, <3>7 DEF Within
  <2> QED BY <2>3, <2>4
<1> QED BY <1>6, <1>7, <1>8, <1>9 DEF Put

\* A crash is followed by a start.
LEMMA OvershootOfCrash ==
  ASSUME CacheBase, CacheBase', NEW k \in Keys, NEW n \in Nat \ {0}, NEW f \in world.faults, CrashInPut(k, n, f)
  PROVE  OvershootBounded'
<1>1. f \in Faults
  BY CallFacts DEF CacheBase
<1>2. PICK d : DiskGood(d) /\ NewProcess(d, f)
  BY <1>1, CrashFacts
<1> QED BY <1>2, OvershootOfNewProcess

\* Time adds nothing.
LEMMA OvershootOfAge ==
  ASSUME CacheBase, CacheBase', OvershootBounded, Age
  PROVE  OvershootBounded'
<1>1. /\ disk \in DiskState /\ disk.files \in Queues /\ disk' \in DiskState
      /\ disk.young \in Nat /\ disk.old \in Nat
  BY DEF CacheBase, DiskGood, DiskState
<1>2. Len(disk.files) \in Nat /\ SizeSum(disk.files) \in Nat
  BY <1>1, QueueFacts
<1>3. world' = world /\ puts' = puts
  BY DEF Age
<1>4. Len(disk'.files) = Len(disk.files) /\ SizeSum(disk'.files) = SizeSum(disk.files)
  <2>1. CASE UNCHANGED disk
    BY <2>1
  <2>2. ASSUME NEW n \in 1..Len(disk.files), disk' = [disk EXCEPT !.files = Aged(@, n)]
        PROVE  Len(disk'.files) = Len(disk.files) /\ SizeSum(disk'.files) = SizeSum(disk.files)
    <3>1. n \in Nat
      BY <1>2
    <3> QED BY <1>1, <2>2, <3>1, DiskAgedFacts
  <2>3. ASSUME disk' = [disk EXCEPT !.young = 0, !.old = @ + disk.young]
        PROVE  Len(disk'.files) = Len(disk.files) /\ SizeSum(disk'.files) = SizeSum(disk.files)
    BY <1>1, <2>3 DEF DiskState
  <2> QED BY <2>1, <2>2, <2>3 DEF Age
<1>5. Len(disk'.files) <= Len(disk.files) /\ SizeSum(disk'.files) <= SizeSum(disk.files)
  BY <1>2, <1>4
<1> QED BY <1>1, <1>3, <1>5, NotGrown

\* Every step keeps the growth bounded.
LEMMA OvershootStep ==
  ASSUME CacheBase, CacheBase', OvershootBounded, [Next]_vars
  PROVE  OvershootBounded'
<1>0. world \in Worlds /\ DiskGood(disk) /\ disk' \in DiskState
  BY DEF CacheBase, DiskGood
<1>1. CASE UNCHANGED vars
  BY <1>1 DEF vars, OvershootBounded, Calm, Within
<1>2. ASSUME NEW f \in world.faults, NEW k \in Keys, Get(k, f) PROVE OvershootBounded'
  BY <1>2, OvershootOfGet
<1>3. ASSUME NEW f \in world.faults, NEW k \in Keys, NEW n \in world.sizes[k], Put(k, n, f)
      PROVE  OvershootBounded'
  BY <1>0, <1>3, CallFacts, OvershootOfPut
<1>4. ASSUME NEW f \in world.faults, NEW k \in Keys, NEW n \in world.sizes[k], CrashInPut(k, n, f)
      PROVE  OvershootBounded'
  BY <1>0, <1>4, CallFacts, OvershootOfCrash
<1>5. ASSUME NEW f \in world.faults, Restart(f) PROVE OvershootBounded'
  BY <1>0, <1>5, OvershootOfNewProcess DEF Restart
<1>6. CASE Age
  BY <1>6, OvershootOfAge
<1>7. CASE Clear
  BY <1>7 DEF Clear, OvershootBounded, Calm, Within
<1> QED BY <1>1, <1>2, <1>3, <1>4, <1>5, <1>6, <1>7 DEF Next

-------------------------------------------------------------------------------
(* AudioCache: the two tiers keep in step.                                   *)

\* No item of s is shorter than a result of its key.
Roomy(w, s) == \A x, y : <<x, y>> \in Held(s) => \A n \in w.sizes[x] : n <= y

\* The directory keeps the order of what both tiers hold.
Mirrors(m, d) ==
  \A x, y, n : /\ Before(m, x, y) /\ <<y, n>> \in Held(m) /\ DiskAccepts(n)
               /\ Has(d, x) /\ Has(d, y)
               => Before(d, x, y)

InStep(w, m, d) ==
  /\ Counted(d) /\ Within(d.files, MaxEntries, MaxBytes)
  /\ Roomy(w, m.queue) /\ Roomy(w, d.files)
  /\ Mirrors(m.queue, d.files)

Aligned == Calm /\ Steady => InStep(world, mem, disk)

\* What comes before something else is there.
LEMMA BeforeHas ==
  ASSUME NEW s, NEW x, NEW y, Before(s, x, y)
  PROVE  Has(s, x) /\ Has(s, y)
BY DEF Before, Has

\* A call for k moves it to the young end of both tiers.
LEMMA MirrorsMoved ==
  ASSUME NEW m, NEW d, NEW m2, NEW d2, NEW k, Mirrors(m, d), Touched(m2, m, k),
         \A x, y : <<x, y>> \in Held(m2) /\ x # k => <<x, y>> \in Held(m),
         \A x : Has(d2, x) /\ x # k => Has(d, x),
         \A x, y : Before(d, x, y) /\ x # k /\ y # k /\ Has(d2, x) /\ Has(d2, y) => Before(d2, x, y),
         \A x : Has(d2, x) /\ Has(d2, k) /\ x # k => Before(d2, x, k)
  PROVE  Mirrors(m2, d2)
<1> SUFFICES ASSUME NEW x, NEW y, NEW n, Before(m2, x, y), <<y, n>> \in Held(m2), DiskAccepts(n),
                    Has(d2, x), Has(d2, y)
             PROVE  Before(d2, x, y)
  BY DEF Mirrors
<1>1. CASE Before(m, x, y) /\ x # k /\ y # k
  <2>1. Has(d, x) /\ Has(d, y) /\ <<y, n>> \in Held(m)
    BY <1>1
  <2>2. Before(d, x, y)
    BY <1>1, <2>1 DEF Mirrors
  <2> QED BY <1>1, <2>2
<1>2. CASE x # k /\ y = k
  BY <1>2
<1> QED BY <1>1, <1>2 DEF Touched

\* Nothing is moved when items go.
LEMMA MirrorsLess ==
  ASSUME NEW m, NEW d, NEW m2, NEW d2, Mirrors(m, d),
         \A x, y : Before(m2, x, y) => Before(m, x, y),
         Held(m2) \subseteq Held(m),
         \A x : Has(d2, x) => Has(d, x),
         \A x, y : Before(d, x, y) /\ Has(d2, x) /\ Has(d2, y) => Before(d2, x, y)
  PROVE  Mirrors(m2, d2)
BY DEF Mirrors

\* A memory that holds nothing is in step with any directory.
LEMMA MirrorsNothing ==
  ASSUME NEW d
  PROVE  Mirrors(NoMemory.queue, d) /\ \A w : Roomy(w, NoMemory.queue)
BY NoneFacts DEF Mirrors, Roomy

\* What is held in less is there in more.
LEMMA HeldHas ==
  ASSUME NEW s \in Queues, NEW t \in Queues, Held(s) \subseteq Held(t)
  PROVE  \A x : Has(s, x) => Has(t, x)
BY HasFacts

\* An entry that is put, or that memory would not accept and does not hold.
LEMMA PutTouches ==
  ASSUME NEW m, MemGood(m), NEW k \in Keys, NEW n \in Nat \ {0},
         MemAccepts(n) \/ ~Has(m.queue, k)
  PROVE  /\ Touched(MemPut(m, k, n).queue, m.queue, k)
         /\ \A x, y : <<x, y>> \in Held(MemPut(m, k, n).queue)
                      => (<<x, y>> \in Held(m.queue) /\ x # k) \/ (x = k /\ y = n)
<1> DEFINE p == MemPut(m, k, n)
<1>1. m \in MemState /\ MemCounted(m) /\ m.queue \in Queues
  BY DEF MemGood, MemState
<1>2. /\ ~MemAccepts(n) => p = m
      /\ MemAccepts(n) =>
           /\ \A x, y : <<x, y>> \in Held(p.queue)
                        => (<<x, y>> \in Held(m.queue) /\ x # k) \/ (x = k /\ y = n)
           /\ \A x, y : Before(p.queue, x, y)
                        => \/ Before(m.queue, x, y) /\ x # k /\ y # k
                           \/ x # k /\ y = k
  BY <1>1, MemPutFacts
<1> HIDE DEF p
<1>3. CASE MemAccepts(n)
  BY <1>2, <1>3 DEF Touched, p
<1>4. CASE ~MemAccepts(n)
  <2>1. p = m /\ ~Has(m.queue, k)
    BY <1>2, <1>4
  <2>2. \A x, y : <<x, y>> \in Held(m.queue) => x # k
    BY <1>1, <2>1, HasFacts
  <2>3. \A x, y : Before(m.queue, x, y) => x # k /\ y # k
    BY <2>1, BeforeHas
  <2> QED BY <2>1, <2>2, <2>3 DEF Touched, p
<1> QED BY <1>3, <1>4

\* A result that memory does not accept is not in memory, where what is held is no shorter.
LEMMA RefusedIsAbsent ==
  ASSUME NEW w, NEW m, MemGood(m), Roomy(w, m.queue), NEW k \in Keys, NEW n \in Nat \ {0},
         n \in w.sizes[k]
  PROVE  MemAccepts(n) \/ ~Has(m.queue, k)
<1> SUFFICES ASSUME Has(m.queue, k) PROVE MemAccepts(n)
  OBVIOUS
<1>1. m.queue \in Queues
  BY DEF MemGood, MemState
<1> DEFINE y == SizeIn(m.queue, k)
<1>2. <<k, y>> \in Held(m.queue) /\ y \in Nat
  BY <1>1, HasFacts
<1> HIDE DEF y
<1>3. n <= y /\ MemAccepts(y)
  BY <1>2 DEF Roomy, MemGood
<1> QED BY <1>2, <1>3, CacheLimits DEF MemAccepts

\* Put finds or makes the room that it needs.
LEMMA RoomIsMade ==
  ASSUME CacheBase, InStep(world, mem, disk), NEW k \in Keys, NEW n \in Nat \ {0}, n \in world.sizes[k],
         DiskAccepts(n)
  PROVE  LET d == WithRoom(k, n, Healthy)
         IN  /\ RoomFor(k, n, Healthy) /\ Counted(d)
             /\ d \in DiskState /\ Held(d.files) \subseteq Held(disk.files)
             /\ \A x, y : Before(disk.files, x, y) /\ Has(d.files, x) /\ Has(d.files, y)
                          => Before(d.files, x, y)
             /\ MoreEntries(d, k) = MoreEntries(disk, k)
             /\ MoreBytes(d, k, n) = MoreBytes(disk, k, n)
<1> DEFINE d == WithRoom(k, n, Healthy)
           e == MoreEntries(disk, k)
           b == MoreBytes(disk, k, n)
<1>1. /\ disk \in DiskState /\ disk.files \in Queues /\ disk.total \in Int /\ disk.entries \in Int
      /\ Counted(disk) /\ Within(disk.files, MaxEntries, MaxBytes) /\ Roomy(world, disk.files)
  BY DEF CacheBase, DiskGood, DiskState, InStep
<1>2. /\ Healthy \in Faults /\ Healthy.listed /\ Healthy.stuck = {}
      /\ MaxEntries \in Nat /\ MaxBytes \in Nat
  BY CacheLimits DEF Healthy, Faults
<1>3. /\ d \in DiskState /\ Counted(d) /\ Held(d.files) \subseteq Held(disk.files)
      /\ \A x, y : Before(disk.files, x, y) /\ Has(d.files, x) /\ Has(d.files, y)
                   => Before(d.files, x, y)
  BY <1>1, <1>2, RoomFacts
<1>4. /\ ~Exceeds(disk, e, b) => d = disk
      /\ Exceeds(disk, e, b) => Within(d.files, NonNegative(MaxEntries - e), NonNegative(MaxBytes - b))
  BY <1>1, <1>2, RoomFacts
<1>5. d.files \in Queues
  BY <1>3 DEF DiskState
<1>6. RoomFor(k, n, Healthy) <=> ~Exceeds(d, e, b)
  BY DEF RoomFor
<1>7. MaxEntries > 0 /\ n <= MaxBytes
  BY DEF DiskAccepts
<1> HIDE DEF d
<1>8. CASE Has(disk.files, k)
  <2> DEFINE y == SizeIn(disk.files, k)
  <2>1. <<k, y>> \in Held(disk.files) /\ y \in Nat
    BY <1>1, <1>8, HasFacts
  <2>2. e = 0 /\ b = n - y
    BY <1>8 DEF MoreEntries, MoreBytes
  <2> HIDE DEF y, e, b
  <2>3. n <= y
    BY <1>1, <2>1 DEF Roomy
  <2>4. disk.entries <= MaxEntries /\ disk.total <= MaxBytes
    BY <1>1 DEF Counted, Within
  <2>5. disk.entries + e <= MaxEntries
    BY <1>1, <2>2, <2>4
  <2>6. disk.total + b <= MaxBytes
    BY <1>1, <1>2, <2>1, <2>2, <2>3, <2>4
  <2>7. b \in Int /\ e \in Int
    BY <2>1, <2>2
  <2>8. ~Exceeds(disk, e, b)
    BY <1>1, <1>2, <2>5, <2>6, <2>7 DEF Exceeds
  <2>9. d = disk
    BY <1>4, <2>8
  <2> QED BY <1>3, <1>6, <2>8, <2>9 DEF d
<1>9. CASE ~Has(disk.files, k)
  <2>1. e = 1 /\ SizeIn(disk.files, k) = 0
    BY <1>9 DEF MoreEntries, SizeIn
  <2>2. b = n
    BY <2>1 DEF MoreBytes
  <2>3. ~Has(d.files, k)
    BY <1>1, <1>3, <1>5, <1>9, HeldHas
  <2>4. MoreEntries(d, k) = 1 /\ MoreBytes(d, k, n) = n
    <3>1. SizeIn(d.files, k) = 0
      BY <2>3 DEF SizeIn
    <3> QED BY <2>3, <3>1 DEF MoreEntries, MoreBytes
  <2> HIDE DEF e, b
  <2>5. ~Exceeds(d, e, b)
    <3>1. CASE ~Exceeds(disk, e, b)
      BY <1>4, <3>1
    <3>2. CASE Exceeds(disk, e, b)
      <4>1. d.entries <= MaxEntries - 1 /\ d.total <= MaxBytes - n
        <5>1. NonNegative(MaxEntries - e) = MaxEntries - 1 /\ NonNegative(MaxBytes - b) = MaxBytes - n
          BY <1>2, <1>7, <2>1, <2>2 DEF NonNegative
        <5> QED BY <1>3, <1>4, <3>2, <5>1 DEF Counted, Within
      <4>2. d.entries \in Int /\ d.total \in Int
        BY <1>3 DEF DiskState
      <4> QED BY <1>2, <2>1, <2>2, <4>1, <4>2 DEF Exceeds
    <3> QED BY <3>1, <3>2
  <2> QED BY <1>3, <1>6, <2>1, <2>2, <2>4, <2>5 DEF d, e, b
<1> QED BY <1>8, <1>9

\* Less of what is roomy is roomy.
LEMMA RoomyLess ==
  ASSUME NEW w, NEW s, NEW t, Roomy(w, t), Held(s) \subseteq Held(t)
  PROVE  Roomy(w, s)
BY DEF Roomy

\* Neither tier changes but by what leaves it.
LEMMA InStepLess ==
  ASSUME NEW w, NEW m, NEW d, NEW m2, NEW d2, InStep(w, m, d),
         m.queue \in Queues, d.files \in Queues, d2.files \in Queues,
         Counted(d2), Len(d2.files) <= Len(d.files), SizeSum(d2.files) <= SizeSum(d.files),
         Held(m2.queue) \subseteq Held(m.queue), Held(d2.files) \subseteq Held(d.files),
         \A x, y : Before(m2.queue, x, y) => Before(m.queue, x, y),
         \A x, y : Before(d.files, x, y) /\ Has(d2.files, x) /\ Has(d2.files, y)
                   => Before(d2.files, x, y)
  PROVE  InStep(w, m2, d2)
<1>1. Roomy(w, m2.queue) /\ Roomy(w, d2.files)
  BY RoomyLess DEF InStep
<1>2. Mirrors(m2.queue, d2.files)
  <2>1. \A x : Has(d2.files, x) => Has(d.files, x)
    BY HeldHas
  <2> QED BY <2>1, MirrorsLess DEF InStep
<1>3. Within(d2.files, MaxEntries, MaxBytes)
  <2>1. /\ Len(d.files) \in Nat /\ SizeSum(d.files) \in Nat
        /\ Len(d2.files) \in Nat /\ SizeSum(d2.files) \in Nat
    BY QueueFacts
  <2>2. Len(d.files) <= MaxEntries /\ SizeSum(d.files) <= MaxBytes
    BY DEF InStep, Within
  <2> QED BY <2>1, <2>2, CacheLimits DEF Within
<1> QED BY <1>1, <1>2, <1>3 DEF InStep

\* A process starts with nothing in memory.
LEMMA InStepStart ==
  ASSUME NEW w, NEW files \in Queues, NEW young \in Nat, NEW old \in Nat, Roomy(w, files)
  PROVE  InStep(w, NoMemory, Start(files, Healthy, young, old))
<1> DEFINE p == Start(files, Healthy, young, old)
<1>1. Counted(p) /\ Within(p.files, MaxEntries, MaxBytes) /\ Held(p.files) \subseteq Held(files)
  BY StartedFacts
<1> HIDE DEF p
<1>2. Roomy(w, p.files)
  BY <1>1, RoomyLess
<1>3. InStep(w, NoMemory, p)
  BY <1>1, <1>2, MirrorsNothing DEF InStep
<1> QED BY <1>3 DEF p

\* The tiers start in step: the memory is empty.
LEMMA AlignedInit == Init => Aligned
<1> SUFFICES ASSUME Init, Calm, Steady PROVE InStep(world, mem, disk)
  BY DEF Aligned
<1>1. world.faults = {Healthy} /\ mem = NoMemory
  BY DEF Calm, Init
<1>2. PICK files \in Directories : disk = Start(files, Healthy, 0, 0)
  BY <1>1 DEF Init
<1>3. files \in Queues /\ 0 \in Nat
  BY CacheAssumption
<1>4. Roomy(world, files)
  <2> SUFFICES ASSUME NEW x, NEW y, <<x, y>> \in Held(files), NEW n \in world.sizes[x] PROVE n <= y
    BY DEF Roomy
  <2>1. x \in Keys
    BY <1>3, QueueFacts DEF Held
  <2>2. Has(files, x) /\ SizeIn(files, x) = y
    <3>1. Has(files, x)
      BY <1>3, HasFacts
    <3> QED BY <1>3, <3>1, HasFacts
  <2> QED BY <2>1, <2>2 DEF Steady
<1> QED BY <1>1, <1>2, <1>3, <1>4, InStepStart

\* A get moves a result to the end of both tiers, or of the one that has it.
LEMMA AlignedGet ==
  ASSUME CacheBase, InStep(world, mem, disk), NEW k \in Keys, NEW f \in Faults, Get(k, f), CacheBase'
  PROVE  InStep(world, mem', disk')
<1>1. /\ mem \in MemState /\ mem.queue \in Queues /\ disk \in DiskState /\ disk.files \in Queues
      /\ MemGood(mem) /\ disk' \in DiskState /\ disk'.files \in Queues
      /\ Counted(disk) /\ Within(disk.files, MaxEntries, MaxBytes)
      /\ Roomy(world, mem.queue) /\ Roomy(world, disk.files) /\ Mirrors(mem.queue, disk.files)
  BY DEF CacheBase, MemGood, DiskGood, MemState, DiskState, InStep
<1>0. disk \in DiskState
  BY <1>1
<1> DEFINE a == MemPrune(mem)
<1>2. /\ a \in MemState /\ a.queue = Live(mem.queue) /\ MemGood(a)
      /\ Held(a.queue) \subseteq Held(mem.queue)
      /\ \A x, y : Before(a.queue, x, y) => Before(mem.queue, x, y)
  BY <1>1, MemPruneFacts, GoodPrune
<1> HIDE DEF a
<1>3. ASSUME disk' = [disk EXCEPT !.files = Refreshed(@, k)],
             Touched(mem'.queue, mem.queue, k),
             \A x, y : <<x, y>> \in Held(mem'.queue) /\ x # k => <<x, y>> \in Held(mem.queue),
             Roomy(world, mem'.queue)
      PROVE  InStep(world, mem', disk')
  <2>1. /\ disk'.total = disk.total /\ disk'.entries = disk.entries
        /\ Len(disk'.files) = Len(disk.files) /\ SizeSum(disk'.files) = SizeSum(disk.files)
        /\ Held(disk'.files) = Held(disk.files)
        /\ \A x, y : Before(disk'.files, x, y)
                     <=> \/ Before(disk.files, x, y) /\ x # k /\ y # k
                         \/ Has(disk.files, k) /\ Has(disk.files, x) /\ x # k /\ y = k
    <3>1. /\ disk'.total = disk.total /\ disk'.entries = disk.entries
          /\ Len(disk'.files) = Len(disk.files) /\ SizeSum(disk'.files) = SizeSum(disk.files)
      BY <1>0, <1>3, DiskGetFacts
    <3>2. Held(disk'.files) = Held(disk.files)
      BY <1>0, <1>3, DiskGetFacts
    <3> DEFINE p == [disk EXCEPT !.files = Refreshed(@, k)]
    <3>3. \A x, y : Before(p.files, x, y)
                   <=> \/ Before(disk.files, x, y) /\ x # k /\ y # k
                       \/ Has(disk.files, k) /\ Has(disk.files, x) /\ x # k /\ y = k
      BY <1>0, DiskGetFacts
    <3>4. disk' = p
      BY <1>3
    <3> HIDE DEF p
    <3> QED BY <3>1, <3>2, <3>3, <3>4
  <2>2. Counted(disk') /\ Within(disk'.files, MaxEntries, MaxBytes)
    BY <1>1, <2>1 DEF Counted, Within
  <2>3. Roomy(world, disk'.files)
    BY <1>1, <2>1 DEF Roomy
  <2>4. \A x : Has(disk'.files, x) => Has(disk.files, x)
    BY <1>1, <2>1, HeldHas
  <2>5. Mirrors(mem'.queue, disk'.files)
    BY <1>1, <1>3, <2>1, <2>4, MirrorsMoved
  <2> QED BY <1>3, <2>2, <2>3, <2>5 DEF InStep
<1>4. CASE GetFromMemory(k)
  <2>1. /\ mem' = [MemPrune(mem) EXCEPT !.queue = Refreshed(@, k)]
        /\ disk' = [disk EXCEPT !.files = Refreshed(@, k)]
    BY <1>4 DEF GetFromMemory
  <2>2. Held(mem'.queue) \subseteq Held(mem.queue) /\ Touched(mem'.queue, mem.queue, k)
    BY <1>1, <2>1, MemGetFacts
  <2>3. Roomy(world, mem'.queue)
    BY <1>1, <2>2, RoomyLess
  <2> QED BY <1>3, <2>1, <2>2, <2>3
<1>5. CASE GetFromDisk(k)
  <2> DEFINE n == Find(disk.files, k).size
  <2>1. /\ mem' = MemPut(a, k, n) /\ ~Has(a.queue, k) /\ Has(disk.files, k)
        /\ disk' = [disk EXCEPT !.files = Refreshed(@, k)]
    BY <1>2, <1>5 DEF GetFromDisk, a
  <2>2. n \in Nat \ {0} /\ <<k, n>> \in Held(disk.files)
    BY <1>1, <2>1, HasFacts
  <2> HIDE DEF n
  <2>3. /\ Touched(mem'.queue, a.queue, k)
        /\ \A x, y : <<x, y>> \in Held(mem'.queue)
                     => (<<x, y>> \in Held(a.queue) /\ x # k) \/ (x = k /\ y = n)
    BY <1>2, <2>1, <2>2, PutTouches
  <2>4. Touched(mem'.queue, mem.queue, k)
    BY <1>2, <2>3 DEF Touched
  <2>5. Roomy(world, mem'.queue)
    BY <1>1, <1>2, <2>2, <2>3 DEF Roomy
  <2>6. \A x, y : <<x, y>> \in Held(mem'.queue) /\ x # k => <<x, y>> \in Held(mem.queue)
    BY <1>2, <2>3
  <2> QED BY <1>3, <2>1, <2>4, <2>5, <2>6
<1>6. CASE GetEvicts(k, f)
  <2>1. mem' = a /\ disk' = Evict(disk, k, f) /\ Has(disk.files, k)
    BY <1>6 DEF GetEvicts, a
  <2>2. /\ Counted(disk') /\ Len(disk'.files) <= Len(disk.files)
        /\ SizeSum(disk'.files) <= SizeSum(disk.files)
        /\ Held(disk'.files) \subseteq Held(disk.files)
        /\ \A x, y : Before(disk.files, x, y) /\ Has(disk'.files, x) /\ Has(disk'.files, y)
                     => Before(disk'.files, x, y)
    BY <1>1, <2>1, EvictFacts
  <2> QED BY <1>1, <1>2, <2>1, <2>2, InStepLess
<1>7. CASE GetMiss(k)
  <2>1. mem' = a /\ disk' = disk
    BY <1>7 DEF GetMiss, a
  <2>2. Mirrors(a.queue, disk.files)
    BY <1>1, <1>2, MirrorsLess
  <2>3. Roomy(world, a.queue)
    BY <1>1, <1>2, RoomyLess
  <2> QED BY <1>1, <2>1, <2>2, <2>3 DEF InStep
<1> QED BY <1>4, <1>5, <1>6, <1>7 DEF Get

\* What a file that is written changes in the directory.
LEMMA StoredOrder ==
  ASSUME disk \in DiskState, NEW d \in DiskState, NEW k \in Keys, NEW n \in Nat \ {0}
  PROVE  /\ \A x, y : <<x, y>> \in Held(Replaced(d.files, k, n))
                      <=> (<<x, y>> \in Held(d.files) /\ x # k) \/ (x = k /\ y = n)
         /\ \A x, y : Before(Replaced(d.files, k, n), x, y)
                      <=> \/ Before(d.files, x, y) /\ x # k /\ y # k
                          \/ Has(d.files, x) /\ x # k /\ y = k
<1> DEFINE i == Item(k, n)
           q == Replaced(d.files, k, n)
<1>1. i \in Items /\ i.key = k /\ i.size = n /\ ~i.idle /\ d.files \in Queues
  BY ItemIsOne DEF DiskState
<1>2. q = Append(Without(d.files, k), i)
  BY DEF Replaced
<1> HIDE DEF i, q
<1>3. LET w == Without(d.files, i.key)
          t == Append(w, i)
      IN  /\ \A x, y : <<x, y>> \in Held(t)
                       <=> (<<x, y>> \in Held(d.files) /\ x # i.key) \/ (x = i.key /\ y = i.size)
          /\ \A x, y : Before(t, x, y)
                       <=> \/ Before(d.files, x, y) /\ x # i.key /\ y # i.key
                           \/ Has(d.files, x) /\ x # i.key /\ y = i.key
  BY <1>1, MovedFacts
<1>4. /\ \A x, y : <<x, y>> \in Held(q)
                   <=> (<<x, y>> \in Held(d.files) /\ x # k) \/ (x = k /\ y = n)
      /\ \A x, y : Before(q, x, y)
                   <=> \/ Before(d.files, x, y) /\ x # k /\ y # k
                       \/ Has(d.files, x) /\ x # k /\ y = k
  BY <1>1, <1>2, <1>3
<1> QED BY <1>4 DEF q

\* A directory that is pruned in full has less, in the same order.
LEMMA PruneLess ==
  ASSUME NEW d \in DiskState
  PROVE  LET p == PruneToLimits(d, Healthy)
         IN  /\ Counted(p)
             /\ Len(p.files) <= Len(d.files) /\ SizeSum(p.files) <= SizeSum(d.files)
             /\ Held(p.files) \subseteq Held(d.files)
             /\ \A x, y : Before(d.files, x, y) /\ Has(p.files, x) /\ Has(p.files, y)
                          => Before(p.files, x, y)
<1>1. Healthy \in Faults /\ Healthy.listed /\ Healthy.stuck = {}
  BY DEF Healthy, Faults
<1>2. MaxEntries \in Nat /\ MaxBytes \in Nat
  BY CacheLimits
<1> DEFINE p == Prune(d, MaxEntries, MaxBytes, Healthy)
<1>3. /\ p.total = SizeSum(p.files) /\ p.entries = Len(p.files)
      /\ Len(p.files) <= Len(d.files) /\ SizeSum(p.files) <= SizeSum(d.files)
      /\ Held(p.files) \subseteq Held(d.files)
      /\ \A x, y : Before(p.files, x, y) <=> /\ Before(d.files, x, y)
                                             /\ Has(p.files, x) /\ Has(p.files, y)
  BY <1>1, <1>2, PruneFacts
<1> DEFINE r == PruneToLimits(d, Healthy)
<1>4. r = p
  BY DEF PruneToLimits
<1> HIDE DEF p, r
<1>5. /\ Counted(r)
      /\ Len(r.files) <= Len(d.files) /\ SizeSum(r.files) <= SizeSum(d.files)
      /\ Held(r.files) \subseteq Held(d.files)
      /\ \A x, y : Before(d.files, x, y) /\ Has(r.files, x) /\ Has(r.files, y)
                   => Before(r.files, x, y)
  BY <1>3, <1>4 DEF Counted
<1> QED BY <1>5 DEF r

\* A put stores a result at the end of both tiers, or in one that accepts it.
LEMMA AlignedPut ==
  ASSUME CacheBase, InStep(world, mem, disk), NEW k \in Keys, NEW n \in Nat \ {0},
         world.sizes[k] = {n}, Put(k, n, Healthy), CacheBase'
  PROVE  InStep(world, mem', disk')
<1> DEFINE d == WithRoom(k, n, Healthy)
<1>1. /\ mem \in MemState /\ mem.queue \in Queues /\ disk \in DiskState /\ disk.files \in Queues
      /\ MemGood(mem) /\ disk' \in DiskState /\ disk'.files \in Queues
      /\ Counted(disk) /\ Within(disk.files, MaxEntries, MaxBytes)
      /\ Roomy(world, mem.queue) /\ Roomy(world, disk.files) /\ Mirrors(mem.queue, disk.files)
  BY DEF CacheBase, MemGood, DiskGood, MemState, DiskState, InStep
<1>2. n \in world.sizes[k] /\ Healthy.written
  BY DEF Healthy
<1>3. /\ Touched(MemPut(mem, k, n).queue, mem.queue, k)
      /\ \A x, y : <<x, y>> \in Held(MemPut(mem, k, n).queue)
                   => (<<x, y>> \in Held(mem.queue) /\ x # k) \/ (x = k /\ y = n)
  BY <1>1, <1>2, RefusedIsAbsent, PutTouches
<1>4. mem' = MemPut(mem, k, n)
  BY DEF Put, PutInMemory, PutDeclined, PutFails, PutStored, InMemory
<1>5. Roomy(world, mem'.queue)
  <2> SUFFICES ASSUME NEW x, NEW y, <<x, y>> \in Held(mem'.queue), NEW c \in world.sizes[x]
               PROVE  c <= y
    BY DEF Roomy
  <2>1. CASE <<x, y>> \in Held(mem.queue)
    BY <1>1, <2>1 DEF Roomy
  <2>2. CASE x = k /\ y = n
    BY <2>2
  <2> QED BY <1>3, <1>4, <2>1, <2>2
<1>6. CASE PutInMemory(k, n)
  <2>1. disk' = disk /\ ~DiskAccepts(n)
    BY <1>6 DEF PutInMemory
  <2>2. Mirrors(mem'.queue, disk.files)
    <3> SUFFICES ASSUME NEW x, NEW y, NEW c, Before(mem'.queue, x, y), <<y, c>> \in Held(mem'.queue),
                        DiskAccepts(c), Has(disk.files, x), Has(disk.files, y)
                 PROVE  Before(disk.files, x, y)
      BY DEF Mirrors
    <3>1. ~(y = k /\ c = n)
      BY <2>1
    <3>2. <<y, c>> \in Held(mem.queue) /\ y # k
      BY <1>3, <1>4, <3>1
    <3>3. Before(mem.queue, x, y)
      BY <1>3, <1>4, <3>2 DEF Touched
    <3> QED BY <1>1, <3>2, <3>3 DEF Mirrors
  <2> QED BY <1>1, <1>5, <2>1, <2>2 DEF InStep
<1>7. ASSUME DiskAccepts(n)
      PROVE  /\ RoomFor(k, n, Healthy) /\ Counted(d)
             /\ d \in DiskState /\ Held(d.files) \subseteq Held(disk.files)
             /\ \A x, y : Before(disk.files, x, y) /\ Has(d.files, x) /\ Has(d.files, y)
                          => Before(d.files, x, y)
             /\ MoreEntries(d, k) = MoreEntries(disk, k)
             /\ MoreBytes(d, k, n) = MoreBytes(disk, k, n)
  BY <1>2, <1>7, RoomIsMade
<1>8. ~PutDeclined(k, n, Healthy) /\ ~PutFails(k, n, Healthy)
  BY <1>2, <1>7 DEF PutDeclined, PutFails
<1>9. CASE PutStored(k, n, Healthy)
  <2> DEFINE s == Stored(d, k, n)
             q == Replaced(d.files, k, n)
  <2>1. /\ DiskAccepts(n) /\ RoomFor(k, n, Healthy)
        /\ IF puts + 1 >= PrunePeriod THEN disk' = PruneToLimits(s, Healthy) ELSE disk' = s
    BY <1>9 DEF PutStored
  <2>2. ~Exceeds(d, MoreEntries(disk, k), MoreBytes(disk, k, n))
    BY <2>1 DEF RoomFor
  <2> HIDE DEF d
  <2>3. /\ Counted(d) /\ d \in DiskState /\ d.files \in Queues
        /\ Held(d.files) \subseteq Held(disk.files)
        /\ \A x, y : Before(disk.files, x, y) /\ Has(d.files, x) /\ Has(d.files, y)
                     => Before(d.files, x, y)
        /\ MoreEntries(d, k) = MoreEntries(disk, k)
        /\ MoreBytes(d, k, n) = MoreBytes(disk, k, n)
    BY <1>7, <2>1 DEF DiskState
  <2>14. disk \in DiskState /\ d \in DiskState
    BY <1>1, <2>3
  <2>4. /\ q \in Queues /\ q = s.files /\ s \in DiskState
        /\ s.total = d.total + MoreBytes(disk, k, n)
        /\ s.entries = d.entries + MoreEntries(disk, k)
    BY <2>14, StoredFacts
  <2>5. /\ Len(q) = Len(d.files) + MoreEntries(d, k)
        /\ SizeSum(q) = SizeSum(d.files) + MoreBytes(d, k, n)
    BY <2>14, StoredFacts
  <2>6. /\ \A x, y : <<x, y>> \in Held(q)
                     <=> (<<x, y>> \in Held(d.files) /\ x # k) \/ (x = k /\ y = n)
        /\ \A x, y : Before(q, x, y)
                     <=> \/ Before(d.files, x, y) /\ x # k /\ y # k
                         \/ Has(d.files, x) /\ x # k /\ y = k
    BY <2>14, StoredOrder
  <2> HIDE DEF s, q
  <2>7. Counted(s)
    BY <2>3, <2>4, <2>5 DEF Counted
  <2>8. Within(q, MaxEntries, MaxBytes)
    <3>1. ~(s.entries > MaxEntries \/ s.total > MaxBytes)
      BY <2>2, <2>4 DEF Exceeds
    <3>2. s.entries = Len(q) /\ s.total = SizeSum(q)
      BY <2>4, <2>7 DEF Counted
    <3>3. Len(q) \in Nat /\ SizeSum(q) \in Nat
      BY <2>4, QueueFacts
    <3> QED BY <3>1, <3>2, <3>3, CacheLimits DEF Within
  <2>9. Roomy(world, q)
    <3> SUFFICES ASSUME NEW x, NEW y, <<x, y>> \in Held(q), NEW c \in world.sizes[x]
                 PROVE  c <= y
      BY DEF Roomy
    <3>1. CASE <<x, y>> \in Held(d.files)
      BY <1>1, <2>3, <3>1 DEF Roomy
    <3>2. CASE x = k /\ y = n
      BY <3>2
    <3> QED BY <2>6, <3>1, <3>2
  <2>10. Mirrors(mem'.queue, q)
    <3>1. \A x, y : <<x, y>> \in Held(mem'.queue) /\ x # k => <<x, y>> \in Held(mem.queue)
      BY <1>3, <1>4
    <3>2. \A x : Has(q, x) /\ x # k => Has(d.files, x)
      BY <2>3, <2>4, <2>6, HasFacts
    <3>3. \A x : Has(q, x) /\ x # k => Has(disk.files, x)
      BY <1>1, <2>3, <3>2, HeldHas
    <3>4. \A x, y : Before(disk.files, x, y) /\ x # k /\ y # k /\ Has(q, x) /\ Has(q, y)
                    => Before(q, x, y)
      BY <2>3, <2>6, <3>2
    <3>5. \A x : Has(q, x) /\ Has(q, k) /\ x # k => Before(q, x, k)
      BY <2>6, <3>2
    <3>6. Touched(mem'.queue, mem.queue, k)
      BY <1>3, <1>4
    <3> QED BY <1>1, <3>1, <3>3, <3>4, <3>5, <3>6, MirrorsMoved
  <2>11. InStep(world, mem', s)
    BY <1>5, <2>4, <2>7, <2>8, <2>9, <2>10 DEF InStep
  <2>12. CASE puts + 1 >= PrunePeriod
    <3>1. disk' = PruneToLimits(s, Healthy) /\ s \in DiskState
      BY <2>1, <2>4, <2>12
    <3> DEFINE p == PruneToLimits(s, Healthy)
    <3>2. /\ Counted(p)
          /\ Len(p.files) <= Len(s.files) /\ SizeSum(p.files) <= SizeSum(s.files)
          /\ Held(p.files) \subseteq Held(s.files)
          /\ \A x, y : Before(s.files, x, y) /\ Has(p.files, x) /\ Has(p.files, y)
                       => Before(p.files, x, y)
      BY <3>1, PruneLess
    <3>3. disk' = p
      BY <3>1
    <3> HIDE DEF p
    <3>4. /\ Counted(disk') /\ Len(disk'.files) <= Len(s.files)
          /\ SizeSum(disk'.files) <= SizeSum(s.files)
          /\ Held(disk'.files) \subseteq Held(s.files)
          /\ \A x, y : Before(s.files, x, y) /\ Has(disk'.files, x) /\ Has(disk'.files, y)
                       => Before(disk'.files, x, y)
      BY <3>2, <3>3
    <3>5. mem'.queue \in Queues /\ s.files \in Queues
      BY <2>4 DEF CacheBase, MemGood, MemState
    <3> QED BY <1>1, <2>11, <3>4, <3>5, InStepLess
  <2>13. CASE ~(puts + 1 >= PrunePeriod)
    BY <2>1, <2>11, <2>13
  <2> QED BY <2>12, <2>13
<1> QED BY <1>6, <1>8, <1>9 DEF Put

\* A process that follows another over files that are roomy.
LEMMA AlignedNewProcess ==
  ASSUME NEW d, DiskGood(d), Roomy(world, d.files), NewProcess(d, Healthy)
  PROVE  InStep(world, mem', disk')
<1>1. d.files \in Queues /\ d.young \in Nat /\ d.old \in Nat
  BY DEF DiskGood, DiskState
<1>2. mem' = NoMemory /\ disk' = Start(d.files, Healthy, d.young, d.old)
  BY DEF NewProcess
<1> QED BY <1>1, <1>2, InStepStart

\* A process that was killed within put leaves at most the new file.
LEMMA AlignedCrash ==
  ASSUME CacheBase, InStep(world, mem, disk), NEW k \in Keys, NEW n \in Nat \ {0},
         world.sizes[k] = {n}, CrashInPut(k, n, Healthy)
  PROVE  InStep(world, mem', disk')
<1> DEFINE r == WithRoom(k, n, Healthy)
<1>1. disk \in DiskState /\ Healthy \in Faults /\ DiskAccepts(n) /\ Roomy(world, disk.files)
  BY CallFacts DEF CacheBase, DiskGood, CrashInPut, InStep
<1>2. r \in DiskState /\ Held(r.files) \subseteq Held(disk.files)
  BY <1>1, RoomIsMade
<1>3. PICK d : /\ DiskGood(d) /\ NewProcess(d, Healthy)
               /\ d.files = r.files \/ d.files = Replaced(r.files, k, n)
  BY <1>1, CrashFacts
<1> HIDE DEF r
<1>4. Roomy(world, r.files)
  BY <1>1, <1>2, RoomyLess
<1>5. \A x, y : <<x, y>> \in Held(Replaced(r.files, k, n))
                => <<x, y>> \in Held(r.files) \/ (x = k /\ y = n)
  BY <1>1, <1>2, StoredOrder
<1>6. Roomy(world, Replaced(r.files, k, n))
  <2> SUFFICES ASSUME NEW x, NEW y, <<x, y>> \in Held(Replaced(r.files, k, n)), NEW c \in world.sizes[x]
               PROVE  c <= y
    BY DEF Roomy
  <2>1. CASE <<x, y>> \in Held(r.files)
    BY <1>4, <2>1 DEF Roomy
  <2>2. CASE x = k /\ y = n
    BY <2>2
  <2> QED BY <1>5, <2>1, <2>2
<1>7. Roomy(world, d.files)
  BY <1>3, <1>4, <1>6
<1> QED BY <1>3, <1>7, AlignedNewProcess

\* Time makes items idle and leaves them where they are.
LEMMA AlignedAge ==
  ASSUME CacheBase, InStep(world, mem, disk), Age
  PROVE  InStep(world, mem', disk')
<1>1. /\ mem.queue \in Queues /\ disk \in DiskState /\ disk.files \in Queues
      /\ Counted(disk) /\ Within(disk.files, MaxEntries, MaxBytes)
      /\ Roomy(world, mem.queue) /\ Roomy(world, disk.files) /\ Mirrors(mem.queue, disk.files)
      /\ disk.young \in Nat /\ disk.old \in Nat
  BY DEF CacheBase, MemGood, DiskGood, MemState, DiskState, InStep
<1>2. ASSUME NEW n \in 1..Len(mem.queue),
             mem' = [mem EXCEPT !.queue = Aged(@, n)], UNCHANGED disk
      PROVE  InStep(world, mem', disk')
  <2>1. n \in Nat
    BY <1>1, QueueFacts
  <2> DEFINE t == Aged(mem.queue, n)
  <2>2. Held(t) = Held(mem.queue) /\ \A x, y : Before(t, x, y) <=> Before(mem.queue, x, y)
    BY <1>1, <2>1, AgedFacts
  <2>3. mem'.queue = t
    BY <1>2 DEF CacheBase, MemGood, MemState
  <2> HIDE DEF t
  <2>4. Roomy(world, t) /\ Mirrors(t, disk.files)
    BY <1>1, <2>2 DEF Roomy, Mirrors
  <2> QED BY <1>1, <1>2, <2>3, <2>4 DEF InStep
<1>3. ASSUME NEW n \in 1..Len(disk.files),
             disk' = [disk EXCEPT !.files = Aged(@, n)], UNCHANGED mem
      PROVE  InStep(world, mem', disk')
  <2>1. n \in Nat
    BY <1>1, QueueFacts
  <2> DEFINE p == [disk EXCEPT !.files = Aged(@, n)]
  <2>2. /\ p.total = disk.total /\ p.entries = disk.entries
        /\ Len(p.files) = Len(disk.files) /\ SizeSum(p.files) = SizeSum(disk.files)
        /\ Held(p.files) = Held(disk.files)
        /\ \A x, y : Before(p.files, x, y) <=> Before(disk.files, x, y)
    BY <1>1, <2>1, DiskAgedFacts
  <2>3. p.files \in Queues
    BY <1>1, <2>1, AgedFacts DEF DiskState
  <2>4. disk' = p /\ mem' = mem
    BY <1>3
  <2> HIDE DEF p
  <2>5. Counted(p) /\ Within(p.files, MaxEntries, MaxBytes)
    BY <1>1, <2>2 DEF Counted, Within
  <2>6. Roomy(world, p.files)
    BY <1>1, <2>2 DEF Roomy
  <2>7. \A x : Has(p.files, x) => Has(disk.files, x)
    BY <1>1, <2>2, <2>3, HeldHas
  <2>8. Mirrors(mem.queue, p.files)
    BY <1>1, <2>2, <2>7 DEF Mirrors
  <2> QED BY <1>1, <2>4, <2>5, <2>6, <2>8 DEF InStep
<1>4. ASSUME UNCHANGED mem, disk' = [disk EXCEPT !.young = 0, !.old = @ + disk.young]
      PROVE  InStep(world, mem', disk')
  <2>1. mem' = mem /\ disk'.files = disk.files /\ disk'.total = disk.total /\ disk'.entries = disk.entries
    BY <1>1, <1>4 DEF DiskState
  <2> QED BY <1>1, <2>1 DEF InStep, Counted
<1> QED BY <1>2, <1>3, <1>4 DEF Age

\* Every step keeps the tiers in step.
LEMMA AlignedStep ==
  ASSUME CacheBase, CacheBase', Aligned, [Next]_vars
  PROVE  Aligned'
<1>0. world' = world
  BY DEF Next, Get, GetFromMemory, GetFromDisk, GetEvicts, GetMiss, Put, PutInMemory, PutDeclined,
     PutFails, PutStored, CrashInPut, Restart, NewProcess, Age, Clear, vars
<1> SUFFICES ASSUME Calm, Steady PROVE InStep(world, mem', disk')
  BY <1>0 DEF Aligned, Calm, Steady
<1>1. InStep(world, mem, disk) /\ world \in Worlds /\ world.faults = {Healthy} /\ Healthy \in Faults
  BY CallFacts DEF Aligned, CacheBase, Calm
<1>2. \A k \in Keys : \A n \in world.sizes[k] : n \in Nat \ {0} /\ world.sizes[k] = {n}
  BY <1>1, CallFacts DEF Steady
<1>3. CASE UNCHANGED vars
  BY <1>1, <1>3 DEF vars
<1>4. ASSUME NEW k \in Keys, Get(k, Healthy) PROVE InStep(world, mem', disk')
  BY <1>1, <1>4, AlignedGet
<1>5. ASSUME NEW k \in Keys, NEW n \in world.sizes[k], Put(k, n, Healthy)
      PROVE  InStep(world, mem', disk')
  <2>1. n \in Nat \ {0} /\ world.sizes[k] = {n}
    BY <1>2
  <2> QED BY <1>1, <1>5, <2>1, AlignedPut
<1>6. ASSUME NEW k \in Keys, NEW n \in world.sizes[k], CrashInPut(k, n, Healthy)
      PROVE  InStep(world, mem', disk')
  <2>1. n \in Nat \ {0} /\ world.sizes[k] = {n}
    BY <1>2
  <2> QED BY <1>1, <1>6, <2>1, AlignedCrash
<1>7. ASSUME Restart(Healthy) PROVE InStep(world, mem', disk')
  <2>1. DiskGood(disk) /\ Roomy(world, disk.files) /\ NewProcess(disk, Healthy)
    BY <1>1, <1>7 DEF CacheBase, InStep, Restart
  <2> QED BY <2>1, AlignedNewProcess
<1>8. CASE Age
  BY <1>1, <1>8, AlignedAge
<1>9. CASE Clear
  BY <1>1, <1>9, MirrorsNothing DEF Clear, InStep
<1> QED BY <1>1, <1>3, <1>4, <1>5, <1>6, <1>7, <1>8, <1>9 DEF Next

CacheInv == CacheBase /\ ReplyIsTrue /\ OvershootBounded /\ Aligned

\* The inductive invariant of the cache holds for every limit, every set of results and every
\* directory found at the start, with every failure of the disk.
THEOREM CacheKeepsInv == Spec => []CacheInv
<1>1. Init => CacheInv
  <2>1. Init => ReplyIsTrue
    BY DEF Init, ReplyIsTrue
  <2> QED BY <2>1, BaseInit, OvershootInit, AlignedInit DEF CacheInv
<1>2. CacheInv /\ [Next]_vars => CacheInv'
  BY BaseStep, ReplyStep, OvershootStep, AlignedStep DEF CacheInv
<1> QED BY <1>1, <1>2, PTL DEF Spec

\* The invariant contains the totals of both tiers.
LEMMA TotalsFromInv == CacheInv => TotalsExact
<1> SUFFICES ASSUME CacheInv PROVE TotalsExact
  OBVIOUS
<1>1. TypeOK /\ MemoryExact
  BY DEF CacheInv, CacheBase, MemGood, DiskGood, MemState, DiskState, MemCounted, TypeOK, MemoryExact
<1>2. DiskExact
  BY DEF CacheInv, Aligned, InStep, DiskExact, DiskCounted, Counted
<1> QED BY <1>1, <1>2 DEF TotalsExact

\* It implies that both tiers agree.
LEMMA AgreementFromInv == CacheInv => TiersAgree
<1> SUFFICES ASSUME CacheInv PROVE MirrorOrder
  BY DEF TiersAgree, CacheInv
<1> SUFFICES ASSUME Calm, Steady,
                    NEW i \in DOMAIN mem.queue, NEW j \in DOMAIN mem.queue,
                    NEW a \in DOMAIN disk.files, NEW b \in DOMAIN disk.files,
                    mem.queue[i].key = disk.files[a].key, mem.queue[j].key = disk.files[b].key,
                    i < j, DiskAccepts(mem.queue[j].size)
             PROVE  a < b
  BY DEF MirrorOrder
<1>1. Mirrors(mem.queue, disk.files) /\ disk.files \in Queues
  BY DEF CacheInv, CacheBase, DiskGood, DiskState, Aligned, InStep
<1> DEFINE x == disk.files[a].key
           y == disk.files[b].key
           n == mem.queue[j].size
<1>2. Before(mem.queue, x, y)
  BY DEF Before
<1>3. <<y, n>> \in Held(mem.queue)
  BY DEF Held
<1>4. Has(disk.files, x) /\ Has(disk.files, y)
  BY DEF Has
<1>5. Before(disk.files, x, y)
  <2> HIDE DEF x, y, n
  <2>1. DiskAccepts(n)
    BY DEF n
  <2> QED BY <1>1, <1>2, <1>3, <1>4, <2>1 DEF Mirrors
<1>6. PICK c, d \in DOMAIN disk.files : c < d /\ disk.files[c].key = x /\ disk.files[d].key = y
  BY <1>5 DEF Before
<1>7. c = a /\ d = b
  <2>1. DOMAIN disk.files = 1..Len(disk.files)
    BY <1>1, QueueFacts
  <2>2. disk.files[c].key = disk.files[a].key /\ disk.files[d].key = disk.files[b].key
    BY <1>6
  <2>3. \A i1, i2 \in 1..Len(disk.files) : disk.files[i1].key = disk.files[i2].key => i1 = i2
    BY <1>1, QueueFacts
  <2> QED BY <2>1, <2>2, <2>3
<1> QED BY <1>6, <1>7

\* The totals that both tiers keep are those of what they hold, that of the memory always, those
\* of the directory while nothing fails and every result has one size (put, prune, _prune_disk_entries).
THEOREM CacheTotalsExact == Spec => []TotalsExact
BY CacheKeepsInv, TotalsFromInv, PTL

\* What a call reports is held as reported, and the directory keeps the order in which the
\* memory would let results go (get, put).
THEOREM CacheTiersAgree == Spec => []TiersAgree
BY CacheKeepsInv, AgreementFromInv, PTL

\* Between two full prunings the directory exceeds its limits by no more than one entry of
\* the largest size per put (put).
THEOREM CacheOvershootBounded == Spec => []OvershootBounded
<1>1. CacheInv => OvershootBounded
  BY DEF CacheInv
<1> QED BY <1>1, CacheKeepsInv, PTL

\* An undisturbed pruning leaves exact totals and a directory within its limits, whatever
\* failed before it (_prune_disk_entries).
THEOREM CachePruningHeals == Spec => PruningHeals
<1> DEFINE Heals == /\ Restart(Healthy) => Restored'
                    /\ \A k \in Keys : \A n \in world.sizes[k] :
                         PutStored(k, n, Healthy) /\ puts + 1 >= PrunePeriod => Restored'
<1>1. ASSUME CacheInv PROVE Heals
  <2>1. CacheBase /\ world \in Worlds
    BY <1>1 DEF CacheInv, CacheBase
  <2> QED BY <2>1, CallFacts, HealedByRestart, HealedByPut
<1> HIDE DEF Heals
<1>2. CacheInv /\ [Next]_vars => [Heals]_vars
  BY <1>1
<1>3. Spec => [][Heals]_vars
  BY <1>2, CacheKeepsInv, PTL DEF Spec
<1> QED BY <1>3 DEF Heals, PruningHeals

-------------------------------------------------------------------------------
(* VoiceUsage: the list of the voices, moved to the front and cut.           *)

\* The lesser of two numbers.
LEMMA MinFacts ==
  ASSUME NEW a \in Int, NEW b \in Int
  PROVE  Min({a, b}) = IF a <= b THEN a ELSE b
<1> DEFINE m == IF a <= b THEN a ELSE b
<1>1. m \in {a, b} /\ m \in Int /\ (\A y \in {a, b} : m <= y)
  OBVIOUS
<1>2. \A x \in {a, b} : (\A y \in {a, b} : x <= y) => x = m
  BY <1>1
<1>3. Min({a, b}) = CHOOSE x \in {a, b} : \A y \in {a, b} : x <= y
  BY DEF Min
<1> HIDE DEF m
<1>4. Min({a, b}) = m
  BY <1>1, <1>2, <1>3
<1> QED BY <1>4 DEF m

\* The places of a list but one, or all of them.
LEMMA NthOfAllBut ==
  ASSUME NEW N \in Nat, NEW p \in 1..N + 1
  PROVE  LET I == (1..N) \ {p}
         IN  /\ Cardinality(I) = IF p <= N THEN N - 1 ELSE N
             /\ \A n \in 1..Cardinality(I) : Nth(I, n) = IF n < p THEN n ELSE n + 1
<1> DEFINE I == (1..N) \ {p}
           C == Cardinality(I)
<1>1. C = IF p <= N THEN N - 1 ELSE N
  <2>1. IsFiniteSet(1..N) /\ Cardinality(1..N) = N
    BY FS_Interval
  <2>2. p \in 1..N <=> p <= N
    OBVIOUS
  <2> QED BY <2>1, <2>2, FS_RemoveElement
<1>2. ASSUME NEW n \in 1..C PROVE Nth(I, n) = IF n < p THEN n ELSE n + 1
  <2> DEFINE i == IF n < p THEN n ELSE n + 1
  <2>1. C \in Nat /\ n \in Nat /\ i \in Nat /\ i \in 1..N /\ i # p /\ (p \in 1..i <=> p <= n)
        /\ i = (IF p <= n THEN n + 1 ELSE n)
    BY <1>1
  <2> HIDE DEF i, C
  <2>2. i \in I
    BY <2>1
  <2>3. Until(I, i) = (1..i) \ {p}
    <3>1. \A j \in 1..N : j <= i <=> j \in 1..i
      BY <2>1
    <3>2. \A j \in 1..i : j \in 1..N
      BY <2>1
    <3> QED BY <3>1, <3>2 DEF Until
  <2>4. Cardinality((1..i) \ {p}) = n
    <3>1. IsFiniteSet(1..i) /\ Cardinality(1..i) = i
      BY <2>1, FS_Interval
    <3>2. Cardinality((1..i) \ {p}) = IF p \in 1..i THEN i - 1 ELSE i
      BY <3>1, FS_RemoveElement
    <3> QED BY <2>1, <3>2
  <2>5. I \in SUBSET (1..N)
    OBVIOUS
  <2> HIDE DEF I
  <2>6. Nth(I, Cardinality(Until(I, i))) = i
    BY <2>2, <2>5, NthFacts
  <2>7. Nth(I, n) = i
    BY <2>3, <2>4, <2>6
  <2> QED BY <2>7 DEF i
<1> QED BY <1>1, <1>2

\* The places of the other voices.
LEMMA OthersFacts ==
  ASSUME NEW S, NEW s \in Seq(S), NEW v, NEW p \in 1..Len(s) + 1,
         \A i \in 1..Len(s) : s[i] = v <=> i = p
  PROVE  /\ Others(s, v) = (1..Len(s)) \ {p}
         /\ Picked(s, Others(s, v)) \in Seq(S)
         /\ Len(Picked(s, Others(s, v))) = IF p <= Len(s) THEN Len(s) - 1 ELSE Len(s)
         /\ \A i \in 1..Len(Picked(s, Others(s, v))) :
              Picked(s, Others(s, v))[i] = IF i < p THEN s[i] ELSE s[i + 1]
<1> DEFINE N == Len(s)
           I == (1..N) \ {p}
<1>1. N \in Nat /\ DOMAIN s = 1..N
  OBVIOUS
<1>2. Others(s, v) = I
  BY <1>1 DEF Others
<1>3. I \in SUBSET (1..Len(s))
  OBVIOUS
<1>4. /\ Cardinality(I) = IF p <= N THEN N - 1 ELSE N
      /\ \A n \in 1..Cardinality(I) : Nth(I, n) = IF n < p THEN n ELSE n + 1
  BY <1>1, NthOfAllBut
<1> HIDE DEF I
<1>5. /\ Picked(s, I) \in Seq(S) /\ Len(Picked(s, I)) = Cardinality(I)
      /\ \A n \in 1..Cardinality(I) : Picked(s, I)[n] = s[Nth(I, n)]
  BY <1>3, PickedFacts
<1>6. \A n \in 1..Cardinality(I) : Picked(s, I)[n] = IF n < p THEN s[n] ELSE s[n + 1]
  BY <1>4, <1>5
<1> QED BY <1>2, <1>4, <1>5, <1>6 DEF I

\* A voice that moves to the front: p is its place, or the one behind the last.
LEMMA FrontMoved ==
  ASSUME NEW S, NEW s \in Seq(S), NEW v \in S, NEW p \in 1..Len(s) + 1,
         \A i \in 1..Len(s) : s[i] = v <=> i = p
  PROVE  /\ MovedToFront(v, s) \in Seq(S)
         /\ Len(MovedToFront(v, s)) = IF p <= Len(s) THEN Len(s) ELSE Len(s) + 1
         /\ \A i \in 1..Len(MovedToFront(v, s)) :
              MovedToFront(v, s)[i] = IF i = 1 THEN v ELSE IF i <= p THEN s[i - 1] ELSE s[i]
<1> DEFINE r == Picked(s, Others(s, v))
           N == Len(s)
<1>1. /\ r \in Seq(S) /\ Len(r) = IF p <= N THEN N - 1 ELSE N
      /\ \A i \in 1..Len(r) : r[i] = IF i < p THEN s[i] ELSE s[i + 1]
  BY OthersFacts
<1>2. MovedToFront(v, s) = <<v>> \o r
  BY DEF MovedToFront
<1>3. N \in Nat /\ p \in 1..N + 1
  OBVIOUS
<1> HIDE DEF r, N
<1> DEFINE t == <<v>> \o r
<1>4. /\ t \in Seq(S) /\ Len(t) = Len(r) + 1 /\ t[1] = v /\ Len(r) \in Nat
      /\ \A i \in 1..Len(r) : t[i + 1] = r[i]
  BY <1>1
<1> HIDE DEF t
<1>5. Len(t) = IF p <= N THEN N ELSE N + 1
  BY <1>1, <1>3, <1>4
<1>6. ASSUME NEW i \in 1..Len(t)
      PROVE  t[i] = IF i = 1 THEN v ELSE IF i <= p THEN s[i - 1] ELSE s[i]
  <2>1. CASE i = 1
    BY <1>4, <2>1
  <2>2. CASE i # 1
    <3>1. i \in Nat /\ i - 1 \in 1..Len(r) /\ (i - 1) + 1 = i /\ (i - 1 < p <=> i <= p)
      BY <1>3, <1>4, <2>2
    <3>2. t[i] = r[i - 1]
      <4> DEFINE j == i - 1
      <4>1. j \in 1..Len(r) /\ i = j + 1
        BY <3>1
      <4> HIDE DEF j
      <4>2. t[i] = r[j]
        BY <1>4, <4>1
      <4> QED BY <4>2 DEF j
    <3>3. r[i - 1] = IF i - 1 < p THEN s[i - 1] ELSE s[(i - 1) + 1]
      BY <1>1, <3>1
    <3> QED BY <2>2, <3>1, <3>2, <3>3
  <2> QED BY <2>1, <2>2
<1> QED BY <1>2, <1>4, <1>5, <1>6 DEF t, N

\* A list of different voices has that place for every voice.
LEMMA PlaceOf ==
  ASSUME NEW S, NEW s \in Seq(S), IsInjective(s), NEW v
  PROVE  \E p \in 1..Len(s) + 1 : /\ \A i \in 1..Len(s) : s[i] = v <=> i = p
                                  /\ p <= Len(s) <=> v \in Range(s)
<1>1. Len(s) \in Nat /\ DOMAIN s = 1..Len(s)
  OBVIOUS
<1>2. CASE v \in Range(s)
  <2>1. PICK p \in 1..Len(s) : s[p] = v
    BY <1>1, <1>2 DEF Range
  <2>2. \A i \in 1..Len(s) : s[i] = v <=> i = p
    BY <1>1, <2>1 DEF IsInjective
  <2>3. p \in 1..Len(s) + 1 /\ p <= Len(s)
    BY <1>1, <2>1
  <2> QED BY <1>2, <2>2, <2>3
<1>3. CASE v \notin Range(s)
  <2> DEFINE p == Len(s) + 1
  <2>1. p \in 1..Len(s) + 1 /\ ~(p <= Len(s)) /\ \A i \in 1..Len(s) : i # p
    BY <1>1
  <2>2. \A i \in 1..Len(s) : s[i] # v
    BY <1>1, <1>3 DEF Range
  <2> HIDE DEF p
  <2> QED BY <1>3, <2>1, <2>2
<1> QED BY <1>2, <1>3

\* The first voices of a list.
LEMMA TruncatedFacts ==
  ASSUME NEW S, NEW s \in Seq(S)
  PROVE  /\ Truncated(s) \in Seq(S) /\ Len(Truncated(s)) \in Nat
         /\ Len(Truncated(s)) = IF Len(s) <= MaxRecent THEN Len(s) ELSE MaxRecent
         /\ Len(Truncated(s)) <= MaxRecent
         /\ \A i \in 1..Len(Truncated(s)) : i \in 1..Len(s) /\ Truncated(s)[i] = s[i]
<1> DEFINE N == Len(s)
           m == IF N <= MaxRecent THEN N ELSE MaxRecent
<1>1. N \in Nat /\ MaxRecent \in Nat /\ MaxRecent \in Int /\ N \in Int
  BY UsageAssumption
<1>2. Truncated(s) = SubSeq(s, 1, m)
  BY <1>1, MinFacts DEF Truncated
<1>3. m \in Nat /\ m <= N /\ m <= MaxRecent /\ \A i \in 1..m : i \in 1..N
  BY <1>1
<1>4. \A i \in 1..m : s[i] \in S
  BY <1>3
<1> HIDE DEF m, N
<1>5. /\ SubSeq(s, 1, m) \in Seq(S)
      /\ Len(SubSeq(s, 1, m)) = IF 1 <= m THEN m - 1 + 1 ELSE 0
      /\ \A i \in 1..m - 1 + 1 : SubSeq(s, 1, m)[i] = s[1 + i - 1]
  BY <1>3, <1>4, SubSeqProperties
<1>6. m - 1 + 1 = m /\ (~(1 <= m) => m = 0) /\ \A i \in 1..m : 1 + i - 1 = i
  BY <1>3
<1>7. Len(Truncated(s)) = m /\ Truncated(s) \in Seq(S)
  BY <1>2, <1>5, <1>6
<1>8. \A i \in 1..m : Truncated(s)[i] = s[i]
  BY <1>2, <1>5, <1>6
<1> QED BY <1>3, <1>7, <1>8 DEF m, N

\* Lists are equal when their elements are.
LEMMA SameLists ==
  ASSUME NEW S, NEW s \in Seq(S), NEW t \in Seq(S), Len(s) = Len(t),
         \A i \in 1..Len(s) : s[i] = t[i]
  PROVE  s = t
BY SeqEqual

\* Whether a list is cut before a voice moves to its front, or only after, is all the same.
LEMMA CutBeforeOrAfter ==
  ASSUME NEW S, NEW s \in Seq(S), IsInjective(s), NEW v \in S
  PROVE  Truncated(MovedToFront(v, Truncated(s))) = Truncated(MovedToFront(v, s))
<1> DEFINE N == Len(s)
           u == Truncated(s)
           m == Len(u)
           M == MaxRecent
<1>1. M \in Nat \ {0} /\ N \in Nat
  BY UsageAssumption
<1>2. /\ u \in Seq(S) /\ m \in Nat /\ m = (IF N <= M THEN N ELSE M)
      /\ \A i \in 1..m : i \in 1..N /\ u[i] = s[i]
  BY TruncatedFacts
<1>3. PICK p \in 1..N + 1 : \A i \in 1..N : s[i] = v <=> i = p
  BY PlaceOf
<1> DEFINE q == IF p <= m THEN p ELSE m + 1
           a == MovedToFront(v, s)
           b == MovedToFront(v, u)
<1>4. q \in 1..m + 1 /\ \A i \in 1..m : u[i] = v <=> i = q
  <2> HIDE DEF u, m
  <2>1. q \in 1..m + 1 /\ \A i \in 1..m : i = q <=> i = p
    BY <1>2, <1>3
  <2> HIDE DEF q
  <2> QED BY <1>2, <1>3, <2>1
<1>5. /\ a \in Seq(S) /\ Len(a) = IF p <= N THEN N ELSE N + 1
      /\ \A i \in 1..Len(a) : a[i] = IF i = 1 THEN v ELSE IF i <= p THEN s[i - 1] ELSE s[i]
  BY <1>3, FrontMoved
<1> HIDE DEF u, q
<1>6. /\ b \in Seq(S) /\ Len(b) = IF q <= m THEN m ELSE m + 1
      /\ \A i \in 1..Len(b) : b[i] = IF i = 1 THEN v ELSE IF i <= q THEN u[i - 1] ELSE u[i]
  <2>1. u \in Seq(S) /\ q \in 1..Len(u) + 1 /\ \A i \in 1..Len(u) : u[i] = v <=> i = q
    BY <1>2, <1>4
  <2> QED BY <2>1, FrontMoved
<1> HIDE DEF a, b
<1> DEFINE x == Truncated(a)
           y == Truncated(b)
<1>7. /\ x \in Seq(S) /\ Len(x) = (IF Len(a) <= M THEN Len(a) ELSE M)
      /\ \A i \in 1..Len(x) : i \in 1..Len(a) /\ x[i] = a[i]
  BY <1>5, TruncatedFacts
<1>8. /\ y \in Seq(S) /\ Len(y) = (IF Len(b) <= M THEN Len(b) ELSE M)
      /\ \A i \in 1..Len(y) : i \in 1..Len(b) /\ y[i] = b[i]
  BY <1>6, TruncatedFacts
<1> HIDE DEF x, y, m, N, M
<1>9. Len(x) = Len(y) /\ Len(x) \in Nat
  <2>1. p <= m => q = p
    BY DEF q
  <2>2. ~(p <= m) => q = m + 1
    BY DEF q
  <2> QED BY <1>1, <1>2, <1>3, <1>5, <1>6, <1>7, <1>8, <2>1, <2>2
<1>10. ASSUME NEW i \in 1..Len(x) PROVE x[i] = y[i]
  <2>1. x[i] = a[i] /\ y[i] = b[i] /\ i \in 1..Len(a) /\ i \in 1..Len(b) /\ i \in Nat
    BY <1>7, <1>8, <1>9
  <2>2. CASE i = 1
    BY <1>5, <1>6, <2>1, <2>2
  <2>3. CASE i # 1
    <3>1. a[i] = (IF i <= p THEN s[i - 1] ELSE s[i]) /\ b[i] = (IF i <= q THEN u[i - 1] ELSE u[i])
      BY <1>5, <1>6, <2>1, <2>3
    <3>2. CASE p <= m
      <4>1. q = p /\ Len(b) = m
        BY <1>6, <3>2 DEF q
      <4>2. i \in 1..m /\ i - 1 \in 1..m
        <5>1. m \in Nat /\ i \in 1..m
          BY <1>2, <2>1, <4>1
        <5> QED BY <2>3, <5>1
      <4> QED BY <1>2, <2>1, <3>1, <4>1, <4>2
    <3>3. CASE ~(p <= m)
      <4>1. q = m + 1 /\ Len(b) = m + 1
        <5>1. q = m + 1
          BY <3>3 DEF q
        <5> QED BY <1>2, <1>6, <5>1
      <4>2. i <= q /\ i - 1 \in 1..m /\ i <= p
        <5>1. m \in Nat /\ i \in 1..m + 1 /\ p \in Nat /\ q = m + 1
          BY <1>1, <1>2, <1>3, <2>1, <4>1
        <5> QED BY <2>3, <3>3, <5>1
      <4> QED BY <1>2, <2>1, <3>1, <4>2
    <3> QED BY <3>2, <3>3
  <2> QED BY <2>2, <2>3
<1>11. x = y
  BY <1>7, <1>8, <1>9, <1>10, SameLists
<1> QED BY <1>11 DEF x, y, a, b, u

\* Moving a voice keeps the list one of different voices.
LEMMA FrontKeeps ==
  ASSUME NEW S, NEW s \in Seq(S), IsInjective(s), NEW v \in S
  PROVE  /\ MovedToFront(v, s) \in Seq(S) /\ IsInjective(MovedToFront(v, s))
         /\ Range(MovedToFront(v, s)) = Range(s) \cup {v}
         /\ Len(MovedToFront(v, s)) # 0 /\ MovedToFront(v, s)[1] = v
         /\ Len(s) # 0 /\ s[1] = v => MovedToFront(v, s) = s
<1> DEFINE N == Len(s)
           t == MovedToFront(v, s)
<1>1. N \in Nat /\ DOMAIN s = 1..N /\ (\A i, j \in 1..N : s[i] = s[j] => i = j)
  BY DEF IsInjective
<1>2. PICK p \in 1..N + 1 : (\A i \in 1..N : s[i] = v <=> i = p) /\ (p <= N <=> v \in Range(s))
  BY PlaceOf
<1>3. /\ t \in Seq(S) /\ Len(t) = IF p <= N THEN N ELSE N + 1
      /\ \A i \in 1..Len(t) : t[i] = IF i = 1 THEN v ELSE IF i <= p THEN s[i - 1] ELSE s[i]
  BY <1>2, FrontMoved
<1> HIDE DEF t, N
<1>4. Len(t) \in Nat /\ DOMAIN t = 1..Len(t) /\ 1 \in 1..Len(t) /\ p \in Nat
  BY <1>1, <1>2, <1>3
<1>5. \A i \in 1..Len(t) : i # 1 /\ i <= p => i - 1 \in 1..N /\ i - 1 # p
  BY <1>1, <1>2, <1>3, <1>4
<1>6. \A i \in 1..Len(t) : i # 1 /\ ~(i <= p) => i \in 1..N /\ i # p
  BY <1>1, <1>2, <1>3, <1>4
<1>7. ASSUME NEW i \in 1..Len(t), i # 1
      PROVE  \E k \in 1..N : t[i] = s[k] /\ k # p /\ k = (IF i <= p THEN i - 1 ELSE i)
  BY <1>3, <1>5, <1>6, <1>7
<1>8. IsInjective(t)
  <2> SUFFICES ASSUME NEW i \in 1..Len(t), NEW j \in 1..Len(t), t[i] = t[j] PROVE i = j
    BY <1>4 DEF IsInjective
  <2>1. CASE i = 1 /\ j = 1
    BY <2>1
  <2>2. CASE i = 1 /\ j # 1
    <3>1. PICK k \in 1..N : t[j] = s[k] /\ k # p
      BY <1>7, <2>2
    <3>2. t[i] = v
      BY <1>3, <2>2
    <3> QED BY <1>2, <3>1, <3>2
  <2>3. CASE i # 1 /\ j = 1
    <3>1. PICK k \in 1..N : t[i] = s[k] /\ k # p
      BY <1>7, <2>3
    <3>2. t[j] = v
      BY <1>3, <2>3
    <3> QED BY <1>2, <3>1, <3>2
  <2>4. CASE i # 1 /\ j # 1
    <3>1. PICK k \in 1..N : t[i] = s[k] /\ k # p /\ k = (IF i <= p THEN i - 1 ELSE i)
      BY <1>7, <2>4
    <3>2. PICK l \in 1..N : t[j] = s[l] /\ l # p /\ l = (IF j <= p THEN j - 1 ELSE j)
      BY <1>7, <2>4
    <3>3. k = l
      BY <1>1, <3>1, <3>2
    <3>4. i \in Nat /\ j \in Nat
      BY <1>4
    <3> QED BY <1>4, <3>1, <3>2, <3>3, <3>4
  <2> QED BY <2>1, <2>2, <2>3, <2>4
<1>9. Range(t) = Range(s) \cup {v}
  <2>1. ASSUME NEW i \in 1..Len(t) PROVE t[i] \in Range(s) \cup {v}
    <3>1. CASE i = 1
      BY <1>3, <3>1
    <3>2. CASE i # 1
      <4>1. PICK k \in 1..N : t[i] = s[k]
        BY <1>7, <3>2
      <4> QED BY <1>1, <4>1 DEF Range
    <3> QED BY <3>1, <3>2
  <2>2. v \in Range(t)
    BY <1>3, <1>4 DEF Range
  <2>3. ASSUME NEW k \in 1..N, k # p PROVE s[k] \in Range(t)
    <3> DEFINE i == IF k < p THEN k + 1 ELSE k
    <3>1. i \in 1..Len(t) /\ i # 1 /\ k = (IF i <= p THEN i - 1 ELSE i)
      BY <1>1, <1>2, <1>3, <1>4, <2>3
    <3> HIDE DEF i
    <3>2. t[i] = s[k]
      BY <1>7, <3>1
    <3> QED BY <1>4, <3>1, <3>2 DEF Range
  <2>4. \A k \in 1..N : s[k] \in Range(t)
    BY <1>2, <2>2, <2>3
  <2>5. Range(s) \subseteq Range(t)
    BY <1>1, <2>4 DEF Range
  <2>6. Range(t) \subseteq Range(s) \cup {v}
    BY <1>4, <2>1 DEF Range
  <2> QED BY <2>2, <2>5, <2>6
<1>10. ASSUME N # 0, s[1] = v PROVE t = s
  <2>1. 1 \in 1..N
    BY <1>1, <1>10
  <2>2. p = 1
    BY <1>2, <1>10, <2>1
  <2>3. Len(t) = N
    BY <1>1, <1>3, <2>1, <2>2
  <2>4. ASSUME NEW i \in 1..Len(t) PROVE t[i] = s[i]
    <3>1. CASE i = 1
      BY <1>3, <1>10, <3>1
    <3>2. CASE i # 1
      BY <1>3, <1>4, <2>2, <3>2
    <3> QED BY <3>1, <3>2
  <2> QED BY <1>3, <2>3, <2>4, SameLists DEF N
<1>11. Len(t) # 0 /\ t[1] = v
  BY <1>3, <1>4
<1> QED BY <1>3, <1>8, <1>9, <1>10, <1>11 DEF t, N

\* So does cutting it.
LEMMA CutKeeps ==
  ASSUME NEW S, NEW s \in Seq(S), IsInjective(s)
  PROVE  IsInjective(Truncated(s)) /\ Range(Truncated(s)) \subseteq Range(s)
<1> DEFINE u == Truncated(s)
<1>1. Len(s) \in Nat /\ DOMAIN s = 1..Len(s) /\ (\A i, j \in 1..Len(s) : s[i] = s[j] => i = j)
  BY DEF IsInjective
<1>2. u \in Seq(S) /\ \A i \in 1..Len(u) : i \in 1..Len(s) /\ u[i] = s[i]
  BY TruncatedFacts
<1> HIDE DEF u
<1>3. DOMAIN u = 1..Len(u)
  BY <1>2
<1>4. IsInjective(u)
  BY <1>1, <1>2, <1>3 DEF IsInjective
<1>5. Range(u) \subseteq Range(s)
  BY <1>1, <1>2, <1>3 DEF Range
<1> QED BY <1>4, <1>5 DEF u

-------------------------------------------------------------------------------
(* VoiceUsage: the start.                                                    *)

\* What a server loads, as RecentLoaded states it.
Rank(s, v) == CHOOSE i \in DOMAIN s : s[i] = v
Earlier(c, r, v, w) == IF w \in Range(r) THEN v \in Range(r) /\ Rank(r, v) < Rank(r, w)
                                         ELSE v \in Range(r) \/ Rank(c, v) < Rank(c, w)
InFront(c, r, w)    == {v \in Range(c) \ {w} : Earlier(c, r, v, w)}
Loaded(c, r, limit, chosen) ==
  \A w \in Range(c) : w \in Range(chosen) <=> Cardinality(InFront(c, r, w)) < limit

\* The first place of a configured voice among the recent and the configured ones.
Turn(c, r, w) == IF w \in Range(r) THEN Rank(r, w) ELSE Len(r) + Rank(c, w)

\* The rank of a voice.
LEMMA RankFacts ==
  ASSUME NEW S, NEW s \in Seq(S), IsInjective(s), NEW v \in Range(s)
  PROVE  Rank(s, v) \in 1..Len(s) /\ \A i \in 1..Len(s) : s[i] = v <=> i = Rank(s, v)
<1>1. DOMAIN s = 1..Len(s)
  OBVIOUS
<1>2. \E i \in DOMAIN s : s[i] = v
  BY DEF Range
<1>3. Rank(s, v) \in 1..Len(s) /\ s[Rank(s, v)] = v
  BY <1>1, <1>2 DEF Rank
<1> QED BY <1>1, <1>3 DEF IsInjective

\* The turn of a voice is its first place.
LEMMA TurnFacts ==
  ASSUME NEW S, NEW r \in Seq(S), IsInjective(r), NEW c \in Seq(S), IsInjective(c),
         NEW w \in Range(c)
  PROVE  /\ Turn(c, r, w) \in 1..Len(r) + Len(c)
         /\ w \in Range(r) <=> Turn(c, r, w) <= Len(r)
         /\ (r \o c)[Turn(c, r, w)] = w
         /\ \A j \in 1..Turn(c, r, w) - 1 : (r \o c)[j] # w
<1> DEFINE R == Len(r)
           C == Len(c)
           o == r \o c
           t == Turn(c, r, w)
<1>1. /\ R \in Nat /\ C \in Nat /\ DOMAIN r = 1..R
      /\ \A i \in 1..R : o[i] = r[i]
      /\ \A i \in R + 1..R + C : o[i] = c[i - R]
  OBVIOUS
<1>2. CASE w \in Range(r)
  <2>1. t = Rank(r, w)
    BY <1>2 DEF Turn
  <2>2. t \in 1..R /\ \A i \in 1..R : r[i] = w <=> i = t
    BY <1>2, <2>1, RankFacts
  <2> HIDE DEF t, R, C, o
  <2>3. t \in 1..R + C /\ t <= R /\ o[t] = w /\ \A j \in 1..t - 1 : j \in 1..R /\ j # t
    BY <1>1, <2>2
  <2>4. \A j \in 1..t - 1 : o[j] # w
    BY <1>1, <2>2, <2>3
  <2> QED BY <1>2, <2>3, <2>4 DEF t, R, C, o
<1>3. CASE w \notin Range(r)
  <2> DEFINE k == Rank(c, w)
  <2>1. t = R + k
    BY <1>3 DEF Turn
  <2>2. k \in 1..C /\ \A i \in 1..C : c[i] = w <=> i = k
    BY RankFacts
  <2> HIDE DEF t, R, C, o, k
  <2>3. t \in R + 1..R + C /\ t - R = k /\ ~(t <= R) /\ t \in 1..R + C
    BY <1>1, <2>1, <2>2
  <2>4. o[t] = w
    BY <1>1, <2>2, <2>3
  <2>5. ASSUME NEW j \in 1..t - 1 PROVE o[j] # w
    <3>1. CASE j <= R
      <4>1. j \in 1..R
        BY <1>1, <2>3, <3>1
      <4> QED BY <1>1, <1>3, <4>1 DEF Range
    <3>2. CASE ~(j <= R)
      <4>1. j \in R + 1..R + C /\ j - R \in 1..C /\ j - R # k
        BY <1>1, <2>2, <2>3, <3>2
      <4> QED BY <1>1, <2>2, <4>1
    <3> QED BY <3>1, <3>2
  <2> QED BY <1>3, <2>3, <2>4, <2>5 DEF t, R, C, o
<1> QED BY <1>2, <1>3

\* Whoever comes earlier has its turn earlier.
LEMMA EarlierFacts ==
  ASSUME NEW S, NEW r \in Seq(S), IsInjective(r), NEW c \in Seq(S), IsInjective(c),
         NEW v \in Range(c), NEW w \in Range(c)
  PROVE  Earlier(c, r, v, w) <=> Turn(c, r, v) < Turn(c, r, w)
<1>1. /\ Len(r) \in Nat /\ Turn(c, r, v) \in Nat /\ Turn(c, r, w) \in Nat
      /\ v \in Range(r) <=> Turn(c, r, v) <= Len(r)
      /\ w \in Range(r) <=> Turn(c, r, w) <= Len(r)
  <2>1. Len(r) \in Nat /\ Len(c) \in Nat
    OBVIOUS
  <2>2. Turn(c, r, v) \in 1..Len(r) + Len(c) /\ (v \in Range(r) <=> Turn(c, r, v) <= Len(r))
    BY TurnFacts
  <2>3. Turn(c, r, w) \in 1..Len(r) + Len(c) /\ (w \in Range(r) <=> Turn(c, r, w) <= Len(r))
    BY TurnFacts
  <2> QED BY <2>1, <2>2, <2>3
<1>2. CASE w \in Range(r)
  <2>1. CASE v \in Range(r)
    BY <1>2, <2>1 DEF Earlier, Turn
  <2>2. CASE v \notin Range(r)
    BY <1>1, <1>2, <2>2 DEF Earlier
  <2> QED BY <2>1, <2>2
<1>3. CASE w \notin Range(r)
  <2>1. CASE v \in Range(r)
    BY <1>1, <1>3, <2>1 DEF Earlier
  <2>2. CASE v \notin Range(r)
    <3>1. Rank(c, v) \in 1..Len(c) /\ Rank(c, w) \in 1..Len(c)
      BY RankFacts
    <3>2. Turn(c, r, v) = Len(r) + Rank(c, v) /\ Turn(c, r, w) = Len(r) + Rank(c, w)
      BY <1>3, <2>2 DEF Turn
    <3>3. Earlier(c, r, v, w) <=> Rank(c, v) < Rank(c, w)
      BY <1>3, <2>2 DEF Earlier
    <3> DEFINE a == Rank(c, v)
               b == Rank(c, w)
    <3>4. a \in Int /\ b \in Int
      BY <3>1
    <3> HIDE DEF a, b
    <3>5. Len(r) + a < Len(r) + b <=> a < b
      BY <1>1, <3>4
    <3> QED BY <3>2, <3>3, <3>5 DEF a, b
  <2> QED BY <2>1, <2>2
<1> QED BY <1>2, <1>3

\* The first places are the turns of the configured voices.
LEMMA FirstPlacesFacts ==
  ASSUME NEW S, NEW r \in Seq(S), IsInjective(r), NEW c \in Seq(S), IsInjective(c)
  PROVE  LET o == r \o c
             I == FirstPlaces(o, Range(c))
         IN  /\ o \in Seq(S) /\ I \in SUBSET (1..Len(o))
             /\ \A w \in Range(c) : Turn(c, r, w) \in I /\ o[Turn(c, r, w)] = w
             /\ \A i \in I : o[i] \in Range(c) /\ Turn(c, r, o[i]) = i
<1> DEFINE o == r \o c
           I == FirstPlaces(o, Range(c))
           N == Len(o)
<1>1. o \in Seq(S) /\ DOMAIN o = 1..N /\ N = Len(r) + Len(c) /\ N \in Nat
  OBVIOUS
<1>2. ASSUME NEW w \in Range(c)
      PROVE  /\ Turn(c, r, w) \in 1..N /\ o[Turn(c, r, w)] = w
             /\ \A j \in 1..Turn(c, r, w) - 1 : o[j] # w
  BY <1>1, TurnFacts
<1> HIDE DEF o, N
<1>3. \A i : i \in I <=> i \in 1..N /\ o[i] \in Range(c) /\ \A j \in 1..i - 1 : o[j] # o[i]
  BY <1>1 DEF FirstPlaces
<1> HIDE DEF I
<1>4. \A w \in Range(c) : Turn(c, r, w) \in I /\ o[Turn(c, r, w)] = w
  BY <1>2, <1>3
<1>5. ASSUME NEW i \in I PROVE o[i] \in Range(c) /\ Turn(c, r, o[i]) = i
  <2> DEFINE t == Turn(c, r, o[i])
  <2>1. i \in 1..N /\ o[i] \in Range(c) /\ \A j \in 1..i - 1 : o[j] # o[i]
    BY <1>3
  <2>2. t \in 1..N /\ o[t] = o[i] /\ \A j \in 1..t - 1 : o[j] # o[i]
    BY <1>2, <2>1
  <2> HIDE DEF t
  <2>3. t \notin 1..i - 1 /\ i \notin 1..t - 1 /\ t \in 1..N /\ i \in 1..N
    BY <2>1, <2>2
  <2>4. t = i
    BY <1>1, <2>3
  <2> QED BY <2>1, <2>4 DEF t
<1>6. I \in SUBSET (1..N)
  BY <1>3
<1> QED BY <1>1, <1>4, <1>5, <1>6 DEF o, I, N

\* As many places are passed at the turn of a voice as there are voices in front of it, and
\* its own.
LEMMA TurnCount ==
  ASSUME NEW S, NEW r \in Seq(S), IsInjective(r), NEW c \in Seq(S), IsInjective(c),
         NEW w \in Range(c)
  PROVE  LET I == FirstPlaces(r \o c, Range(c))
         IN  /\ Cardinality(InFront(c, r, w)) \in Nat
             /\ Cardinality(Until(I, Turn(c, r, w))) = Cardinality(InFront(c, r, w)) + 1
<1> DEFINE o == r \o c
           I == FirstPlaces(o, Range(c))
           t == Turn(c, r, w)
           U == Until(I, t)
           B == InFront(c, r, w)
           D == B \cup {w}
           g == [i \in U |-> o[i]]
<1>1. /\ o \in Seq(S) /\ I \in SUBSET (1..Len(o))
      /\ \A v \in Range(c) : Turn(c, r, v) \in I /\ o[Turn(c, r, v)] = v
      /\ \A i \in I : o[i] \in Range(c) /\ Turn(c, r, o[i]) = i
  BY FirstPlacesFacts
<1>2. \A v \in Range(c) : Earlier(c, r, v, w) <=> Turn(c, r, v) < t
  BY EarlierFacts
<1> HIDE DEF o, I
<1>3. t \in I /\ IsFiniteSet(U)
  <2>1. Len(o) \in Nat
    BY <1>1
  <2>2. t \in I
    BY <1>1
  <2> HIDE DEF t
  <2> QED BY <1>1, <2>1, <2>2, UntilFacts
<1>4. \A i \in I : i \in Int
  BY <1>1
<1>5. \A v : v \in D <=> v \in Range(c) /\ Turn(c, r, v) <= t
  <2> SUFFICES ASSUME NEW v PROVE v \in D <=> v \in Range(c) /\ Turn(c, r, v) <= t
    OBVIOUS
  <2>1. CASE v = w
    <3>1. t \in Int /\ t <= t
      BY <1>3, <1>4
    <3> QED BY <2>1, <3>1
  <2>2. CASE v # w
    <3>1. v \in D <=> v \in Range(c) /\ Earlier(c, r, v, w)
      BY <2>2 DEF InFront
    <3>2. ASSUME v \in Range(c) PROVE Turn(c, r, v) < t <=> Turn(c, r, v) <= t
      <4>1. Turn(c, r, v) \in Int /\ t \in Int
        BY <1>1, <1>4, <3>2
      <4>2. Turn(c, r, v) # t
        <5>1. o[Turn(c, r, v)] = v /\ o[t] = w
          BY <1>1, <3>2
        <5> QED BY <2>2, <5>1
      <4> DEFINE a == Turn(c, r, v)
      <4> HIDE DEF a, t
      <4>3. a < t <=> a <= t
        BY <4>1, <4>2 DEF a
      <4> QED BY <4>3 DEF a
    <3> QED BY <1>2, <3>1, <3>2
  <2> QED BY <2>1, <2>2
<1> HIDE DEF t, B, D
<1>6. \A i : i \in U <=> i \in I /\ i <= t
  BY DEF Until
<1> HIDE DEF U
<1>7. g \in [U -> D]
  BY <1>1, <1>5, <1>6
<1>8. \A i, j \in U : g[i] = g[j] => i = j
  <2>1. \A i \in U : g[i] = o[i] /\ Turn(c, r, o[i]) = i
    BY <1>1, <1>6
  <2> HIDE DEF g
  <2>2. \A i \in U : Turn(c, r, g[i]) = i
    BY <2>1
  <2> QED BY <2>2
<1>9. \A v \in D : \E i \in U : g[i] = v
  <2> SUFFICES ASSUME NEW v \in D PROVE \E i \in U : g[i] = v
    OBVIOUS
  <2>1. Turn(c, r, v) \in U /\ o[Turn(c, r, v)] = v
    BY <1>1, <1>5, <1>6
  <2> QED BY <2>1
<1> HIDE DEF g
<1>10. g \in Bijection(U, D)
  <2>1. g \in Injection(U, D)
    BY <1>7, <1>8 DEF Injection, IsInjective
  <2>2. g \in Surjection(U, D)
    BY <1>7, <1>9 DEF Surjection
  <2> QED BY <2>1, <2>2 DEF Bijection
<1>11. IsFiniteSet(D) /\ Cardinality(D) = Cardinality(U)
  BY <1>3, <1>10, FS_Bijection DEF ExistsBijection
<1>12. w \notin B /\ B \subseteq D
  BY DEF B, D, InFront
<1>13. IsFiniteSet(B) /\ Cardinality(B) \in Nat
  BY <1>11, <1>12, FS_Subset, FS_CardinalityType
<1>14. Cardinality(D) = Cardinality(B) + 1
  BY <1>12, <1>13, FS_AddElement DEF D
<1> QED BY <1>11, <1>13, <1>14 DEF U, t, B, I, o

\* The voices that are selected at the start.
LEMMA SelectedFacts ==
  ASSUME NEW S, NEW r \in Seq(S), IsInjective(r), NEW c \in Seq(S), IsInjective(c),
         NEW limit \in Nat
  PROVE  Loaded(c, r, limit, _select_startup_voices(c, r, limit))
<1> DEFINE o == r \o c
           I == FirstPlaces(o, Range(c))
           p == Picked(o, I)
           K == Cardinality(I)
           m == IF K <= limit THEN K ELSE limit
           z == _select_startup_voices(c, r, limit)
<1>1. /\ o \in Seq(S) /\ I \in SUBSET (1..Len(o))
      /\ \A w \in Range(c) : Turn(c, r, w) \in I /\ o[Turn(c, r, w)] = w
      /\ \A i \in I : o[i] \in Range(c) /\ Turn(c, r, o[i]) = i
  BY FirstPlacesFacts
<1>2. z = SubSeq(p, 1, Min({Len(p), limit}))
  BY DEF _select_startup_voices, Ordered
<1>3. \A w \in Range(c) : /\ Cardinality(InFront(c, r, w)) \in Nat
                          /\ Cardinality(Until(I, Turn(c, r, w))) = Cardinality(InFront(c, r, w)) + 1
  BY TurnCount
<1> HIDE DEF o, I, z
<1>4. /\ p \in Seq(S) /\ Len(p) = K /\ K \in Nat
      /\ \A n \in 1..K : p[n] = o[Nth(I, n)] /\ Nth(I, n) \in I
      /\ \A a, b \in 1..K : a < b => Nth(I, a) < Nth(I, b)
  BY <1>1, PickedFacts
<1>5. /\ \A i \in I : /\ Cardinality(Until(I, i)) \in 1..K
                      /\ Nth(I, Cardinality(Until(I, i))) = i
  <2>1. Len(o) \in Nat
    BY <1>1
  <2> QED BY <1>1, <2>1, NthFacts
<1>6. \A i \in I : i \in Int
  BY <1>1
<1> HIDE DEF p, K
<1>7. m \in Nat /\ m <= K /\ m <= limit /\ \A n \in 1..K : n <= limit <=> n \in 1..m
  BY <1>4
<1>8. z = SubSeq(p, 1, m)
  <2>1. Min({K, limit}) = m
    BY <1>4, MinFacts
  <2> QED BY <1>2, <1>4, <2>1
<1> HIDE DEF m
<1>9. z \in Seq(S) /\ Len(z) = m /\ \A n \in 1..m : z[n] = p[n]
  <2>1. \A n \in 1..m : p[n] \in S
    BY <1>4, <1>7
  <2>2. /\ SubSeq(p, 1, m) \in Seq(S)
        /\ Len(SubSeq(p, 1, m)) = IF 1 <= m THEN m - 1 + 1 ELSE 0
        /\ \A n \in 1..m - 1 + 1 : SubSeq(p, 1, m)[n] = p[1 + n - 1]
    BY <1>7, <2>1, SubSeqProperties
  <2>3. m - 1 + 1 = m /\ (~(1 <= m) => m = 0) /\ \A n \in 1..m : 1 + n - 1 = n
    BY <1>7
  <2> QED BY <1>8, <2>2, <2>3
<1>10. DOMAIN z = 1..m
  BY <1>9
<1>11. \A a, b \in 1..K : Nth(I, a) = Nth(I, b) => a = b
  <2> SUFFICES ASSUME NEW a \in 1..K, NEW b \in 1..K, Nth(I, a) = Nth(I, b) PROVE a = b
    OBVIOUS
  <2> DEFINE x == Nth(I, a)
             y == Nth(I, b)
  <2>1. x \in Int /\ y \in Int /\ x = y /\ (a < b => x < y) /\ (b < a => y < x)
    BY <1>4, <1>6
  <2> HIDE DEF x, y
  <2> QED BY <2>1
<1>12. ASSUME NEW w \in Range(c)
       PROVE  w \in Range(z) <=> Cardinality(InFront(c, r, w)) < limit
  <2> DEFINE t == Turn(c, r, w)
             n == Cardinality(Until(I, t))
             b == Cardinality(InFront(c, r, w))
  <2>1. t \in I /\ o[t] = w /\ n \in 1..K /\ Nth(I, n) = t /\ b \in Nat /\ n = b + 1
    BY <1>1, <1>3, <1>5
  <2>2. ASSUME NEW i \in 1..m, z[i] = w PROVE i = n
    <3>1. i \in 1..K /\ o[Nth(I, i)] = w /\ Nth(I, i) \in I
      BY <1>4, <1>7, <1>9, <2>2
    <3>2. Nth(I, i) = t
      BY <1>1, <3>1
    <3> HIDE DEF t, n, b
    <3> QED BY <1>11, <2>1, <3>1, <3>2
  <2> HIDE DEF t, n, b
  <2>3. n \in 1..m => z[n] = w
    BY <1>4, <1>9, <2>1
  <2>4. w \in Range(z) <=> n \in 1..m
    BY <1>10, <2>2, <2>3 DEF Range
  <2>5. n <= limit <=> n \in 1..m
    BY <1>7, <2>1
  <2>6. n <= limit <=> b < limit
    BY <2>1
  <2> QED BY <2>4, <2>5, <2>6 DEF b
<1> QED BY <1>12 DEF Loaded, z

-------------------------------------------------------------------------------
(* VoiceUsage: the inductive invariant.                                      *)

\* A list as a server may write it or read it.
Sound(list) == /\ list \in Seq(VoiceNames) /\ IsInjective(list)
               /\ Range(list) \subseteq Range(used) /\ Len(list) <= MaxRecent

\* Alone: the server that records holds the true order of use, and nobody else records.
DraftExact ==
  ~overlap => \A p \in Recorders : asked[p] # NoVoice
                => draft[p] = Truncated(used) /\ \A q \in Recorders : asked[q] # NoVoice => q = p

UsageInv ==
  /\ used \in Seq(VoiceNames) /\ IsInjective(used)
  /\ recent = BadFile \/ recent \in Seq(VoiceNames)
  /\ Sound(get_recent)
  /\ draft \in [Recorders -> Seq(VoiceNames)] /\ asked \in [Recorders -> VoiceNames \cup {NoVoice}]
  /\ \A p \in Recorders : Sound(draft[p])
  /\ DraftExact
  /\ ExactAlone
  /\ RecentLoaded

\* RecentLoaded is about the server that started last.
LEMMA LoadedIsLoaded ==
  RecentLoaded <=> Loaded(startup.configured, startup.from, startup.limit, startup.chosen)
BY DEF RecentLoaded, Loaded, InFront, Earlier, Rank

\* It stays true until the next one does.
LEMMA LoadedStays ==
  ASSUME RecentLoaded, startup' = startup
  PROVE  RecentLoaded'
<1>1. Loaded(startup.configured, startup.from, startup.limit, startup.chosen)
  BY LoadedIsLoaded
<1>2. RecentLoaded' <=> Loaded(startup'.configured, startup'.from, startup'.limit, startup'.chosen)
  BY DEF RecentLoaded, Loaded, InFront, Earlier, Rank
<1> QED BY <1>1, <1>2

\* Nothing is recorded yet.
LEMMA EmptyIsSound == /\ <<>> \in Seq(VoiceNames) /\ IsInjective(<<>>) /\ Range(<<>>) = {}
                      /\ Len(<<>>) = 0 /\ Truncated(<<>>) = <<>> /\ Sound(<<>>)
<1>1. <<>> \in Seq(VoiceNames) /\ DOMAIN <<>> = {} /\ Len(<<>>) = 0
  OBVIOUS
<1>2. IsInjective(<<>>) /\ Range(<<>>) = {}
  BY <1>1 DEF IsInjective, Range
<1>3. MaxRecent \in Nat
  BY UsageAssumption
<1>4. Truncated(<<>>) = <<>>
  <2> DEFINE t == Truncated(<<>>)
  <2>1. t \in Seq(VoiceNames) /\ Len(t) = IF 0 <= MaxRecent THEN 0 ELSE MaxRecent
    BY <1>1, TruncatedFacts
  <2> HIDE DEF t
  <2>2. Len(t) = 0
    BY <1>3, <2>1
  <2>3. t = <<>>
    BY <2>1, <2>2
  <2> QED BY <2>3 DEF t
<1>5. Sound(<<>>)
  BY <1>1, <1>2, <1>3 DEF Sound
<1> QED BY <1>1, <1>2, <1>4, <1>5

\* A start finds nothing, or a file that it cannot read.
LEMMA UsageInitInv == UsageInit => UsageInv
<1> SUFFICES ASSUME UsageInit PROVE UsageInv
  OBVIOUS
<1>1. /\ used = <<>> /\ startup = NotStarted /\ recent \in {<<>>, BadFile}
      /\ draft = [p \in Recorders |-> <<>>] /\ asked = [p \in Recorders |-> NoVoice]
  BY DEF UsageInit
<1>2. get_recent = <<>>
  BY <1>1 DEF get_recent
<1>3. \A p \in Recorders : draft[p] = <<>> /\ asked[p] = NoVoice
  BY <1>1
<1>4. /\ draft \in [Recorders -> Seq(VoiceNames)]
      /\ asked \in [Recorders -> VoiceNames \cup {NoVoice}]
  BY <1>1, EmptyIsSound
<1>5. RecentLoaded
  <2>1. Range(startup.configured) = {}
    BY <1>1, EmptyIsSound DEF NotStarted
  <2> QED BY <2>1, LoadedIsLoaded DEF Loaded
<1>6. DraftExact /\ ExactAlone
  BY <1>1, <1>2, <1>3, EmptyIsSound DEF DraftExact, ExactAlone
<1>7. Sound(get_recent) /\ \A p \in Recorders : Sound(draft[p])
  BY <1>2, <1>3, EmptyIsSound
<1> QED BY <1>1, <1>4, <1>5, <1>6, <1>7, EmptyIsSound DEF UsageInv

\* A server records a voice.
LEMMA RecordKeeps ==
  ASSUME UsageInv, NEW p \in Recorders, NEW v \in VoiceNames, record(p, v)
  PROVE  UsageInv'
<1> DEFINE g == get_recent
           n == NewList(v)
<1>1. /\ asked[p] = NoVoice /\ recent' = recent /\ startup' = startup
      /\ used' = MovedToFront(v, used)
      /\ overlap' = (overlap \/ \E q \in Recorders : asked[q] # NoVoice)
  BY DEF record
<1>2. /\ used \in Seq(VoiceNames) /\ IsInjective(used)
      /\ draft \in [Recorders -> Seq(VoiceNames)] /\ asked \in [Recorders -> VoiceNames \cup {NoVoice}]
      /\ Sound(g) /\ \A q \in Recorders : Sound(draft[q])
  BY DEF UsageInv
<1>3. /\ used' \in Seq(VoiceNames) /\ IsInjective(used')
      /\ Range(used') = Range(used) \cup {v}
      /\ Len(used) # 0 /\ used[1] = v => used' = used
  <2> DEFINE t == MovedToFront(v, used)
  <2>1. /\ t \in Seq(VoiceNames) /\ IsInjective(t) /\ Range(t) = Range(used) \cup {v}
        /\ Len(used) # 0 /\ used[1] = v => t = used
    BY <1>2, FrontKeeps
  <2> QED BY <1>1, <2>1
<1>4. get_recent' = g
  BY <1>1 DEF get_recent
<1>5. Sound(get_recent)'
  <2>1. g \in Seq(VoiceNames) /\ IsInjective(g) /\ Range(g) \subseteq Range(used) /\ Len(g) <= MaxRecent
    BY <1>2 DEF Sound
  <2> QED BY <1>2, <1>3, <1>4, <2>1 DEF Sound
<1>6. RecentLoaded'
  BY <1>1, LoadedStays DEF UsageInv
<1>7. recent' = BadFile \/ recent' \in Seq(VoiceNames)
  BY <1>1 DEF UsageInv
<1>8. ~overlap' => ~overlap /\ (\A q \in Recorders : asked[q] = NoVoice) /\ g = Truncated(used)
  BY <1>1 DEF UsageInv, ExactAlone
<1> HIDE DEF g
<1>9. CASE g # <<>> /\ Head(g) = v
  <2>1. draft' = draft /\ asked' = asked
    BY <1>9 DEF record, g
  <2>2. ~overlap' => used' = used
    <3> SUFFICES ASSUME ~overlap' PROVE used' = used
      OBVIOUS
    <3>1. g = Truncated(used) /\ g \in Seq(VoiceNames)
      BY <1>2, <1>8 DEF Sound
    <3>2. g[1] = v /\ 1 \in 1..Len(g)
      BY <1>9, <3>1
    <3>3. 1 \in 1..Len(used) /\ used[1] = v
      BY <1>2, <3>1, <3>2, TruncatedFacts
    <3>4. Len(used) # 0
      BY <1>2, <3>3
    <3> QED BY <1>3, <3>3, <3>4
  <2>3. DraftExact' /\ ExactAlone'
    BY <1>4, <1>8, <2>1, <2>2 DEF DraftExact, ExactAlone
  <2>4. \A q \in Recorders : Sound(draft[q])'
    BY <1>2, <1>3, <2>1 DEF Sound
  <2> QED BY <1>2, <1>3, <1>4, <1>5, <1>6, <1>7, <2>1, <2>3, <2>4 DEF UsageInv, Sound
<1>10. CASE ~(g # <<>> /\ Head(g) = v)
  <2>1. draft' = [draft EXCEPT ![p] = n] /\ asked' = [asked EXCEPT ![p] = v]
    BY <1>10 DEF record, g
  <2>2. n = Truncated(MovedToFront(v, g))
    BY DEF NewList, g
  <2>3. /\ n \in Seq(VoiceNames) /\ IsInjective(n) /\ Len(n) <= MaxRecent
        /\ Range(n) \subseteq Range(used) \cup {v}
    <3>1. g \in Seq(VoiceNames) /\ IsInjective(g) /\ Range(g) \subseteq Range(used)
      BY <1>2 DEF Sound
    <3> DEFINE t == MovedToFront(v, g)
    <3>2. t \in Seq(VoiceNames) /\ IsInjective(t) /\ Range(t) = Range(g) \cup {v}
      BY <3>1, FrontKeeps
    <3> HIDE DEF t
    <3>3. n = Truncated(t)
      BY <2>2 DEF t
    <3>4. /\ Truncated(t) \in Seq(VoiceNames) /\ Len(Truncated(t)) <= MaxRecent
          /\ IsInjective(Truncated(t)) /\ Range(Truncated(t)) \subseteq Range(t)
      BY <3>2, TruncatedFacts, CutKeeps
    <3> QED BY <3>1, <3>2, <3>3, <3>4
  <2>4. ~overlap' => n = Truncated(used')
    BY <1>1, <1>2, <1>8, <2>2, CutBeforeOrAfter
  <2> HIDE DEF n
  <2>5. /\ draft' \in [Recorders -> Seq(VoiceNames)]
        /\ asked' \in [Recorders -> VoiceNames \cup {NoVoice}]
        /\ draft'[p] = n /\ asked'[p] = v
        /\ \A q \in Recorders \ {p} : draft'[q] = draft[q] /\ asked'[q] = asked[q]
    BY <1>2, <2>1, <2>3
  <2>6. DraftExact'
    <3>1. ASSUME ~overlap', NEW q \in Recorders, asked'[q] # NoVoice PROVE q = p
      BY <1>8, <2>5, <3>1
    <3> QED BY <2>4, <2>5, <3>1 DEF DraftExact
  <2>7. ExactAlone'
    BY <2>5, UsageAssumption DEF ExactAlone
  <2>8. \A q \in Recorders : Sound(draft[q])'
    <3>1. ASSUME NEW q \in Recorders PROVE Sound(draft[q])'
      <4>1. CASE q = p
        BY <1>3, <2>3, <2>5, <4>1 DEF Sound
      <4>2. CASE q # p
        BY <1>2, <1>3, <2>5, <4>2 DEF Sound
      <4> QED BY <4>1, <4>2
    <3> QED BY <3>1
  <2> QED BY <1>3, <1>4, <1>5, <1>6, <1>7, <2>5, <2>6, <2>7, <2>8 DEF UsageInv, Sound
<1> QED BY <1>9, <1>10

\* It replaces the file, or fails to.
LEMMA PersistKeeps ==
  ASSUME UsageInv, NEW p \in Recorders, Persist(p)
  PROVE  UsageInv'
<1>1. /\ asked[p] # NoVoice /\ startup' = startup /\ used' = used
      /\ asked' = [asked EXCEPT ![p] = NoVoice] /\ draft' = [draft EXCEPT ![p] = <<>>]
      /\ \/ recent' = draft[p] /\ overlap' = overlap
         \/ overlap' = TRUE /\ recent' = recent
  BY DEF Persist
<1>2. /\ used \in Seq(VoiceNames) /\ IsInjective(used)
      /\ recent = BadFile \/ recent \in Seq(VoiceNames)
      /\ draft \in [Recorders -> Seq(VoiceNames)] /\ asked \in [Recorders -> VoiceNames \cup {NoVoice}]
      /\ Sound(get_recent) /\ \A q \in Recorders : Sound(draft[q])
  BY DEF UsageInv
<1>3. /\ draft' \in [Recorders -> Seq(VoiceNames)]
      /\ asked' \in [Recorders -> VoiceNames \cup {NoVoice}]
      /\ draft'[p] = <<>> /\ asked'[p] = NoVoice
      /\ \A q \in Recorders \ {p} : draft'[q] = draft[q] /\ asked'[q] = asked[q]
  BY <1>1, <1>2, EmptyIsSound
<1>4. \A q \in Recorders : Sound(draft[q])'
  <2>1. ASSUME NEW q \in Recorders PROVE Sound(draft[q])'
    <3>1. CASE q = p
      BY <1>1, <1>3, <3>1, EmptyIsSound DEF Sound
    <3>2. CASE q # p
      BY <1>1, <1>2, <1>3, <3>2 DEF Sound
    <3> QED BY <3>1, <3>2
  <2> QED BY <2>1
<1>5. RecentLoaded'
  BY <1>1, LoadedStays DEF UsageInv
<1>6. \A q \in Recorders : ~overlap /\ asked[q] # NoVoice => draft[q] = Truncated(used) /\ q = p
  BY <1>1 DEF UsageInv, DraftExact
<1>7. DraftExact'
  BY <1>1, <1>3, <1>6 DEF DraftExact
<1>8. CASE recent' = draft[p] /\ overlap' = overlap
  <2>1. get_recent' = draft[p]
    <3>1. draft[p] \in Seq(VoiceNames)
      BY <1>2
    <3>2. draft[p] # BadFile
      <4>1. BadFile \notin Seq(VoiceNames)
        <5> SUFFICES ASSUME BadFile \in Seq(VoiceNames) PROVE FALSE
          OBVIOUS
        <5>1. BadFile[1] = NoVoice /\ 1 \in 1..Len(BadFile)
          BY DEF BadFile
        <5>2. BadFile[1] \in VoiceNames
          BY <5>1
        <5> QED BY <5>1, <5>2, UsageAssumption
      <4> QED BY <3>1, <4>1
    <3> QED BY <1>8, <3>2 DEF get_recent, BadFile
  <2>2. Sound(get_recent)'
    BY <1>1, <1>2, <2>1 DEF Sound
  <2>3. ExactAlone'
    BY <1>1, <1>6, <1>8, <2>1 DEF ExactAlone
  <2>4. recent' \in Seq(VoiceNames)
    BY <1>2, <1>8
  <2> QED BY <1>1, <1>2, <1>3, <1>4, <1>5, <1>7, <2>2, <2>3, <2>4 DEF UsageInv
<1>9. CASE overlap' = TRUE /\ recent' = recent
  <2>1. get_recent' = get_recent
    BY <1>9 DEF get_recent
  <2>2. Sound(get_recent)'
    BY <1>1, <1>2, <2>1 DEF Sound
  <2>3. ExactAlone'
    BY <1>9 DEF ExactAlone
  <2> QED BY <1>1, <1>2, <1>3, <1>4, <1>5, <1>7, <1>9, <2>2, <2>3 DEF UsageInv, BadFile
<1> QED BY <1>1, <1>8, <1>9

\* A configuration names different voices.
LEMMA ConfiguredFacts ==
  ASSUME NEW c \in SetToSeqs(VoiceNames) \cup {<<v>> : v \in VoiceNames}
  PROVE  c \in Seq(VoiceNames) /\ IsInjective(c)
<1>1. CASE c \in SetToSeqs(VoiceNames)
  <2> DEFINE D == 1..Cardinality(VoiceNames)
  <2>1. Cardinality(VoiceNames) \in Nat
    BY UsageAssumption, FS_CardinalityType
  <2>2. c \in [D -> VoiceNames] /\ \A i, j \in D : i # j => c[i] # c[j]
    BY <1>1 DEF SetToSeqs
  <2>3. c \in Seq(VoiceNames)
    BY <2>1, <2>2
  <2>4. IsInjective(c)
    BY <2>2 DEF IsInjective
  <2> QED BY <2>3, <2>4
<1>2. CASE c \in {<<v>> : v \in VoiceNames}
  <2>1. PICK v \in VoiceNames : c = <<v>>
    BY <1>2
  <2>2. c \in Seq(VoiceNames) /\ DOMAIN c = {1}
    BY <2>1
  <2> QED BY <2>2 DEF IsInjective
<1> QED BY <1>1, <1>2

\* A server starts.
LEMMA StartKeeps ==
  ASSUME UsageInv, StartServer
  PROVE  UsageInv'
<1>1. UNCHANGED <<recent, draft, asked, used, overlap>>
  BY DEF StartServer
<1>2. PICK c \in SetToSeqs(VoiceNames) \cup {<<v>> : v \in VoiceNames} :
        \E limit \in 0..Len(c) :
          startup' = [configured |-> c, limit |-> limit, from |-> get_recent,
                      chosen |-> _select_startup_voices(c, get_recent, limit)]
  BY DEF StartServer
<1>3. c \in Seq(VoiceNames) /\ IsInjective(c)
  BY ConfiguredFacts
<1>4. PICK limit \in 0..Len(c) :
        startup' = [configured |-> c, limit |-> limit, from |-> get_recent,
                    chosen |-> _select_startup_voices(c, get_recent, limit)]
  BY <1>2
<1>5. limit \in Nat
  BY <1>3
<1>6. get_recent \in Seq(VoiceNames) /\ IsInjective(get_recent)
  BY DEF UsageInv, Sound
<1>7. Loaded(c, get_recent, limit, _select_startup_voices(c, get_recent, limit))
  BY <1>3, <1>5, <1>6, SelectedFacts
<1>8. /\ startup'.configured = c /\ startup'.from = get_recent /\ startup'.limit = limit
      /\ startup'.chosen = _select_startup_voices(c, get_recent, limit)
  BY <1>4
<1>9. RecentLoaded'
  <2>1. Loaded(startup'.configured, startup'.from, startup'.limit, startup'.chosen)
    BY <1>7, <1>8
  <2> QED BY <2>1 DEF RecentLoaded, Loaded, InFront, Earlier, Rank
<1>10. get_recent' = get_recent
  BY <1>1 DEF get_recent
<1>11. DraftExact' /\ ExactAlone' /\ Sound(get_recent)' /\ \A p \in Recorders : Sound(draft[p])'
  BY <1>1, <1>10 DEF UsageInv, DraftExact, ExactAlone, Sound
<1> QED BY <1>1, <1>9, <1>11 DEF UsageInv

\* The invariant holds for any servers, voices and number of uses.
LEMMA UsageKeepsInv == UsageSpec => []UsageInv
<1>1. ASSUME UsageInv, [UsageNext]_usage_vars PROVE UsageInv'
  <2>1. CASE UNCHANGED usage_vars
    <3>1. UNCHANGED <<recent, draft, asked, startup, used, overlap>>
      BY <2>1 DEF usage_vars
    <3>2. get_recent' = get_recent
      BY <3>1 DEF get_recent
    <3>3. RecentLoaded'
      BY <1>1, <3>1, LoadedStays DEF UsageInv
    <3>4. DraftExact' /\ ExactAlone' /\ Sound(get_recent)' /\ \A p \in Recorders : Sound(draft[p])'
      BY <1>1, <3>1, <3>2 DEF UsageInv, DraftExact, ExactAlone, Sound
    <3> QED BY <1>1, <3>1, <3>3, <3>4 DEF UsageInv
  <2>2. CASE UsageNext
    BY <1>1, <2>2, RecordKeeps, PersistKeeps, StartKeeps DEF UsageNext
  <2> QED BY <1>1, <2>1, <2>2
<1> QED BY <1>1, UsageInitInv, PTL DEF UsageSpec

\* However servers overlap, the file is a list of different voices that were used; alone it is
\* the true order of use; and a start loads the voices used last, up to its limit (record,
\* _select_startup_voices).
THEOREM UsageStaysTrue == UsageSpec => []UsageTrue
<1>1. UsageInv => UsageTrue
  BY DEF UsageInv, UsageTrue, RecordSound, Sound
<1> QED BY <1>1, UsageKeepsInv, PTL
===============================================================================
