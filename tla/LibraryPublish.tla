---------------------------- MODULE LibraryPublish ----------------------------
(***************************************************************************)
(* Building and publishing the native ZeroTTS libraries: those of every    *)
(* supported processor variant (tools/build_zerotts.py,                    *)
(* build_all_zerotts_variants), where variants the compiler no longer      *)
(* supports are put aside first, or those of one variant in a process of   *)
(* the server (zerotts_engine.py, _run_zerotts_build_script).  A variant   *)
(* is compiled by a cmake process tree, a session of its own, and          *)
(* published file by file over the files of the earlier build, with a      *)
(* backup of each under the builder's pid.  Any step may fail or be        *)
(* interrupted by SIGTERM, which Python turns into an exception; the       *)
(* builder may also be killed, and another started, with any pid.          *)
(***************************************************************************)
EXTENDS Integers, Sequences, FiniteSets, SequencesExt

CONSTANTS Variants,       \* supported variants, in the order they are built
          Unsupported,    \* variants the compiler no longer supports
          Pids,           \* process ids the builders may have
          MaxBuilds,      \* bound on the builds
          MaxFaults       \* bound on the failures, signals and kills

\* No build starts without a supported variant, and none is built twice.
ASSUME PublishAssumption ==
  /\ {MaxBuilds, MaxFaults} \subseteq Nat
  /\ Variants \in Seq(Range(Variants)) /\ Variants # <<>> /\ IsInjective(Variants)
  /\ {"there", "gone"} \cap Pids = {}

VARIABLES dst,             \* <<variant, file>> -> the build its contents are of, or None
          bak,             \* <<variant, file>> -> pid -> the same of its backup
          tmp,             \* pairs of a file and a pid: copies that wait beside the file
          place,           \* unsupported variant -> "there", "gone", or the pid it is aside for
          torn,            \* unsupported variants that have lost some of their files
          compat,          \* the link to the compat library is there
          tree,            \* the build's cmake process tree: "none", "runs" or "stubborn"
          bp,              \* where the build is
          pid, all,        \* its process id; it builds all variants, not one for the server
          var, entry,      \* the variant, and the file of it, that is being published
          backups, newly,  \* what _publish_libraries has to roll back
          aside,           \* the variants a failure restores
          before,          \* history: the target and the variants when the build began
          hit,             \* history: where faults came in this build
          more             \* builds and faults that are left

target == <<dst, bak, tmp>>
variants == <<place, torn>>
builder == <<pid, all>>
publishing == <<var, entry, backups, newly>>
history == <<before, hit>>
publish_vars == <<target, variants, compat, tree, bp, builder, publishing, aside, history, more>>

None == 0
Main == "libzerotts.so"
Staged == {[name |-> "libggml.so", link |-> TRUE], [name |-> "libggml.so.0", link |-> FALSE],
           [name |-> Main, link |-> FALSE]}
Names == {e.name : e \in Staged}
Slots == Range(Variants) \X Names
Build == MaxBuilds - more.builds + 1     \* the number of this build; 1 is the image's

\* Faulty: links last, so that the main library comes before them.
LinksLast(e) == IF e.link THEN 1 ELSE 0
_library_sort_key(e) == (IF e.name = Main THEN 2 ELSE 0) + (IF e.link THEN 1 ELSE 0)
Sorted == CHOOSE files \in [1..Cardinality(Staged) -> Staged] :
            /\ Range(files) = Staged
            /\ \A i, j \in DOMAIN files :
                 i < j => _library_sort_key(files[i]) <= _library_sort_key(files[j])

PublishInit ==
  /\ \E old \in {{}, {Main}, Names} :
       dst = [s \in Slots |-> IF s[2] \in old THEN 1 ELSE None]
  /\ bak = [s \in Slots |-> [p \in Pids |-> None]] /\ tmp = {}
  /\ place \in [Unsupported -> {"there", "gone"}] /\ torn = {}
  /\ compat \in BOOLEAN
  /\ tree = "none" /\ bp = "off" /\ pid \in Pids /\ all = TRUE
  /\ var = 1 /\ entry = 1 /\ backups = <<>> /\ newly = {} /\ aside = {}
  /\ before = [dst |-> dst, bak |-> bak, place |-> place, torn |-> torn] /\ hit = {}
  /\ more = [builds |-> MaxBuilds, faults |-> MaxFaults]

At(p) == bp = p
Go(p) == bp' = p
Here == <<Variants[var], Sorted[entry].name>>
Mine(s) == bak[s][pid]
Faulty == more.faults > 0 /\ more' = [more EXCEPT !.faults = @ - 1]
Hit == hit' = hit \cup {bp}

\* tree, from here on, is that of the new build: one a killed build has left only writes
\* to the workspace it was started in.
StartBuild ==
  /\ At("off") /\ more.builds > 0 /\ more' = [more EXCEPT !.builds = @ - 1]
  /\ pid' \in Pids
  /\ \/ all' = TRUE /\ var' = 1 /\ Go("quarantine")
     \/ all' = FALSE /\ var' \in DOMAIN Variants /\ Go("checkout")
  /\ before' = [dst |-> dst, bak |-> bak, place |-> place, torn |-> torn] /\ hit' = {}
  /\ tree' = "none" /\ entry' = 1 /\ backups' = <<>> /\ newly' = {} /\ aside' = {}
  /\ UNCHANGED <<target, variants, compat>>

-------------------------------------------------------------------------------
(* Before and after the variants.                                          *)

_quarantine_stale_variants ==
  /\ At("quarantine")
  /\ \E u \in Unsupported :
       /\ place[u] = "there"
       /\ place' = [place EXCEPT ![u] = pid] /\ aside' = aside \cup {u}
  /\ UNCHANGED <<target, torn, compat, tree, bp, builder, publishing, history, more>>

\* The workspace is made; from here on failures restore what was put aside.
_checkout_repo ==
  /\ At("quarantine") /\ \A u \in Unsupported : place[u] # "there"
  /\ Go("checkout")
  /\ UNCHANGED <<target, variants, compat, tree, builder, publishing, aside, history, more>>

LinkCompat ==
  /\ At("compat") /\ compat' = ~compat
  /\ Go(IF compat THEN "compat" ELSE "purge")
  /\ UNCHANGED <<target, variants, tree, builder, publishing, aside, history, more>>

\* Variants that are still where this build has put them.
Waiting == {u \in aside : place[u] = pid}

\* A variant's directory is removed file by file, and failures of that are ignored.
_cleanup_quarantined_variants ==
  /\ At("purge")
  /\ \/ \E u \in Waiting \ torn :
          torn' = torn \cup {u} /\ UNCHANGED <<place, bp, hit, more>>
     \/ \E u \in Waiting :
          /\ place' = [place EXCEPT ![u] = "gone"] /\ torn' = torn \ {u}
          /\ UNCHANGED <<bp, hit, more>>
     \/ Waiting = {} /\ Go("done") /\ UNCHANGED <<variants, hit, more>>
     \/ Waiting # {} /\ Faulty /\ Hit /\ Go("done") /\ UNCHANGED variants
  /\ UNCHANGED <<target, compat, tree, builder, publishing, aside, before>>

\* Faulty: what was put aside is forgotten.
RestoresNone == {}
Restores == Waiting

\* A rename that fails is passed over, as if the fault came after the others (Fault).
_restore_quarantined_variants ==
  /\ At("restore")
  /\ \/ \E u \in Restores : place' = [place EXCEPT ![u] = "there"] /\ UNCHANGED bp
     \/ Restores = {} /\ Go("failed") /\ UNCHANGED place
  /\ UNCHANGED <<target, torn, compat, tree, builder, publishing, aside, history, more>>

-------------------------------------------------------------------------------
(* Compiling one variant.                                                  *)

\* After a failure, build_all_zerotts_variants restores what it has put aside.
Onward == IF all THEN "restore" ELSE "failed"

\* Popen, before the handler knows of the process.
_compile_libraries ==
  /\ At("checkout") /\ tree' \in {"runs", "stubborn"} /\ Go("spawned")
  /\ UNCHANGED <<target, variants, compat, builder, publishing, aside, history, more>>

_run_cmake_build ==
  /\ At("spawned") /\ Go("compile")
  /\ UNCHANGED <<target, variants, compat, tree, builder, publishing, aside, history, more>>

\* Faulty: SIGTERM only, which a stubborn tree survives.
TermOnly == IF tree = "stubborn" THEN tree ELSE "none"
\* SIGTERM, and SIGKILL for what is left of the group.
_terminate_cmake_process_tree == "none"

\* Faulty: what the variant before it published is still to be rolled back.
Carried == newly
Fresh == {}

\* All of the tree ends by itself, and the library that was linked loads.
_verify_library_loadable ==
  /\ At("compile") /\ tree' = "none" /\ Go("backup")
  /\ entry' = 1 /\ backups' = <<>> /\ newly' = Fresh
  /\ UNCHANGED <<target, variants, compat, builder, var, aside, history, more>>

\* A failure, a timeout or a signal: the tree is terminated on the way out.
CompileStopped ==
  /\ At("compile") /\ Faulty /\ Hit
  /\ tree' = _terminate_cmake_process_tree /\ Go(Onward)
  /\ UNCHANGED <<target, variants, compat, builder, publishing, aside, before>>

-------------------------------------------------------------------------------
(* Publishing it.                                                          *)

\* dst.replace(backup), over what an earlier build left under that name.
BackUp ==
  /\ At("backup") /\ dst[Here] # None
  /\ bak' = [bak EXCEPT ![Here][pid] = dst[Here]] /\ dst' = [dst EXCEPT ![Here] = None]
  /\ Go("backed")
  /\ UNCHANGED <<tmp, variants, compat, tree, builder, publishing, aside, history, more>>

Note ==
  /\ At("backed") /\ backups' = Append(backups, Here) /\ Go("publish")
  /\ UNCHANGED <<target, variants, compat, tree, builder, var, entry, newly, aside, history, more>>

\* Faulty: the leftover of an earlier build goes, whether or not there is a file to back up.
ClearedFirst(s) == [bak EXCEPT ![s][pid] = None]
Leftover(s) == bak
\* Faulty: what was not there before is not recorded.
Unrecorded(s) == newly
Recorded(s) == newly \cup {s}

NewFile ==
  /\ At("backup") /\ dst[Here] = None
  /\ newly' = Recorded(Here) /\ bak' = Leftover(Here) /\ Go("publish")
  /\ UNCHANGED <<dst, tmp, variants, compat, tree, builder, var, entry, backups, aside, history, more>>

NextEntry == IF entry < Len(Sorted) THEN Go("backup") /\ entry' = entry + 1
                                    ELSE Go("clean") /\ UNCHANGED entry
Unlinked == tmp' = tmp \ {<<Here, pid>>}

_publish_single_file ==
  /\ At("publish") /\ dst' = [dst EXCEPT ![Here] = Build] /\ Unlinked /\ NextEntry
  /\ UNCHANGED <<bak, variants, compat, tree, builder, var, backups, newly, aside, history, more>>

\* The variant is on another file system: a copy beside the file, then the rename.
CopyBeside ==
  /\ At("publish") /\ tmp' = tmp \cup {<<Here, pid>>} /\ Go("copied")
  /\ UNCHANGED <<dst, bak, variants, compat, tree, builder, publishing, aside, history, more>>

MoveCopy ==
  /\ At("copied") /\ dst' = [dst EXCEPT ![Here] = Build] /\ Unlinked /\ NextEntry
  /\ UNCHANGED <<bak, variants, compat, tree, builder, var, backups, newly, aside, history, more>>

_cleanup_backups ==
  /\ At("clean")
  /\ IF backups # <<>>
     THEN /\ bak' = [bak EXCEPT ![Head(backups)][pid] = None]
          /\ backups' = Tail(backups) /\ UNCHANGED <<bp, var>>
     ELSE /\ IF all /\ var < Len(Variants) THEN Go("checkout") /\ var' = var + 1
             ELSE Go(IF all THEN "compat" ELSE "done") /\ UNCHANGED var
          /\ UNCHANGED <<bak, backups>>
  /\ UNCHANGED <<dst, tmp, variants, compat, tree, builder, entry, newly, aside, history, more>>

\* First the files that were not there before, then the backups, the last one first.
_rollback_published ==
  /\ At("rollback")
  /\ \/ \E s \in newly :
          /\ dst' = [dst EXCEPT ![s] = None] /\ newly' = newly \ {s}
          /\ UNCHANGED <<bak, backups, bp>>
     \/ /\ newly = {} /\ backups # <<>>
        /\ LET s == Last(backups)
           IN  IF Mine(s) # None
               THEN dst' = [dst EXCEPT ![s] = Mine(s)] /\ bak' = [bak EXCEPT ![s][pid] = None]
               ELSE UNCHANGED <<dst, bak>>
        /\ backups' = Front(backups) /\ UNCHANGED <<newly, bp>>
     \/ newly = {} /\ backups = <<>> /\ Go(Onward) /\ UNCHANGED <<dst, bak, newly, backups>>
  /\ UNCHANGED <<tmp, variants, compat, tree, builder, var, entry, aside, history, more>>

-------------------------------------------------------------------------------
(* Failures and signals, and how the build goes on after them.             *)

Ended == {"off", "done", "failed", "killed", "cleaned"}
Publishing == {"backup", "backed", "publish", "copied"}

\* Outside the try, nothing is restored; a failing cleanup is not rolled back.
Recovery ==
  CASE At("quarantine")  -> "failed"
    [] bp \in Publishing -> "rollback"
    [] At("restore")     -> "failed"
    [] OTHER             -> Onward

Fault ==
  /\ bp \notin Ended \cup {"compile"} /\ Faulty /\ Hit /\ Go(Recovery)
  /\ IF bp \in {"publish", "copied"} THEN Unlinked ELSE UNCHANGED tmp
  /\ UNCHANGED <<dst, bak, variants, compat, tree, builder, publishing, aside, before>>

\* The cmake tree has a session of its own, and lives on.
Kill ==
  /\ bp \notin Ended /\ Faulty /\ Go("killed")
  /\ UNCHANGED <<target, variants, compat, tree, builder, publishing, aside, history>>

\* Faulty: backups are removed like the other files of the build.
BackupGone(s) == dst[s]
_restore_or_remove_rollback(s) == IF dst[s] = None THEN Mine(s) ELSE dst[s]

\* A server that aborts the build it has started cleans up behind it, in the variant's
\* directory and in the one above it, what bears the pid of the builder.
_clean_zerotts_build_workspace ==
  /\ bp \in {"killed", "failed", "done"} /\ ~all /\ Go("cleaned")
  /\ LET built == {s \in Slots : s[1] = Variants[var]}
     IN  /\ dst' = [s \in Slots |-> IF s \in built THEN _restore_or_remove_rollback(s) ELSE dst[s]]
         /\ bak' = [s \in Slots |-> IF s \in built THEN [bak[s] EXCEPT ![pid] = None] ELSE bak[s]]
         /\ tmp' = tmp \ (built \X {pid})
  /\ place' = [u \in Unsupported |-> IF place[u] = pid THEN "there" ELSE place[u]]
  /\ UNCHANGED <<torn, compat, tree, builder, publishing, aside, history, more>>

EndBuild ==
  /\ bp \in {"done", "failed", "killed", "cleaned"} /\ Go("off")
  /\ UNCHANGED <<target, variants, compat, tree, builder, publishing, aside, history, more>>

PublishNext ==
  \/ StartBuild \/ _quarantine_stale_variants \/ _checkout_repo
  \/ _compile_libraries \/ _run_cmake_build \/ _verify_library_loadable \/ CompileStopped
  \/ BackUp \/ Note \/ NewFile \/ _publish_single_file \/ CopyBeside \/ MoveCopy
  \/ _cleanup_backups \/ _rollback_published \/ LinkCompat
  \/ _cleanup_quarantined_variants \/ _restore_quarantined_variants
  \/ Fault \/ Kill \/ _clean_zerotts_build_workspace \/ EndBuild

PublishSpec == PublishInit /\ [][PublishNext]_publish_vars

-------------------------------------------------------------------------------
(* Properties.                                                             *)

PublishTypeOK ==
  /\ {dst[s] : s \in Slots} \cup UNION {{bak[s][p] : p \in Pids} : s \in Slots}
       \subseteq None..MaxBuilds + 1
  /\ DOMAIN dst = Slots /\ tmp \subseteq Slots \X Pids
  /\ DOMAIN bak = Slots /\ \A s \in Slots : DOMAIN bak[s] = Pids
  /\ place \in [Unsupported -> {"there", "gone"} \cup Pids] /\ compat \in BOOLEAN
  /\ tree \in {"none", "runs", "stubborn"} /\ pid \in Pids /\ all \in BOOLEAN
  /\ Range(backups) \cup newly \subseteq Slots /\ aside \cup torn \subseteq Unsupported
  /\ bp \in Publishing \cup {"clean", "rollback"} =>
       \A s \in Range(backups) \cup newly : s[1] = Variants[var]

\* Whatever fails, is interrupted or is killed, and also in a build after that: a library
\* that was there when a build began, or had a backup of any builder then, is there or has
\* one (_publish_libraries).
LibrariesThere ==
  \A s \in Slots : before.dst[s] # None \/ (\E p \in Pids : before.bak[s][p] # None)
                     => dst[s] # None \/ \E p \in Pids : bak[s][p] # None

\* What a server cleans up after a build it has aborted brings every library back that was
\* there before it, or had a backup of the same pid, and leaves no file of the builder's
\* behind (_clean_zerotts_build_workspace).
AbortRestores ==
  At("cleaned") =>
    /\ \A s \in Slots : before.dst[s] # None => dst[s] # None
    /\ \A s \in Slots : s[1] = Variants[var] =>
         /\ before.bak[s][pid] # None => dst[s] # None
         /\ Mine(s) = None /\ <<s, pid>> \notin tmp
    /\ \A u \in Unsupported : place[u] # pid

\* A build that failed leaves every variant as it was, or wholly new: unless the rollback
\* failed too, or a signal came between a move and its record (_rollback_published).
RolledBack ==
  At("failed") /\ hit \cap {"backed", "rollback"} = {} =>
    \A v \in Range(Variants) :
      \/ \A n \in Names : dst[<<v, n>>] = before.dst[<<v, n>>]
      \/ \A n \in Names : dst[<<v, n>>] = Build

\* The library a server loads is put in place only when all it needs is: a server that
\* starts meanwhile never links new against old (_library_sort_key).
MainLast ==
  [][\A v \in Range(Variants) :
       dst[<<v, Main>>] # Build /\ dst'[<<v, Main>>] = Build
         => \A n \in Names : dst'[<<v, n>>] = Build]_publish_vars

\* No cmake process outlives a build that ends by itself or goes on to publish, but for the
\* signal that comes before the handler knows of it (_run_cmake_build, _handle_sigterm).
NoOrphans ==
  bp \in {"restore", "failed", "done"} \cup Publishing /\ "spawned" \notin hit => tree = "none"

\* The variants that were put aside are back, and whole, when the build fails, unless the
\* fault came where nothing is restored, in the restoration, or when their removal had begun:
\* then what is left of them is back. They are gone when it succeeds
\* (build_all_zerotts_variants).
QuarantineUndone ==
  /\ At("failed") /\ hit \cap {"quarantine", "restore"} = {} =>
       /\ "purge" \notin hit => place = before.place /\ torn = before.torn
       /\ \A u \in aside : place[u] \in {"there", "gone"}
  /\ At("done") /\ "purge" \notin hit => \A u \in aside : place[u] = "gone"

\* A build replaces the libraries of a variant together, or gives back those it found.
LibrariesKept == /\ [](PublishTypeOK /\ LibrariesThere /\ AbortRestores)
                 /\ [](RolledBack /\ NoOrphans /\ QuarantineUndone)
                 /\ MainLast
===============================================================================
