------------------------------- MODULE PinUpdate -------------------------------
(***************************************************************************)
(* check_models.py --update: the pins of the speech models are compared    *)
(* with what the remote sites publish while they move on, an update of the *)
(* two files that hold the pins is computed, and both files are written    *)
(* or neither. Writes and their rollback may fail, and the tool may be     *)
(* interrupted.                                                            *)
(***************************************************************************)
EXTENDS Integers, Sequences, SequencesExt

CONSTANT MaxWriteFaults      \* bound on the failures and interrupts

ASSUME PinAssumption == MaxWriteFaults \in Nat

VARIABLES published,     \* artifact -> its digest at revision 2 of its repository
          head,          \* repository -> the revision it is at
          asset,         \* the digest of the codec that comes with the sources
          pins,          \* file -> pin -> what it holds
          meta,          \* file -> its mode and times: "kept", "fresh" or "unknown"
          tempf,         \* file -> its temporary file is there
          hash,          \* this run hashes the files the repositories give no digest of
          seen,          \* the report: pin -> remote revision or digest
          up,            \* where the run is
          saved,         \* the files whose writing began, for the rollback
          failures,      \* files whose rollback failed, as reported
          orig,          \* the pins the run has imported
          rerun,         \* the tool may be run once more
          faults         \* what is left of the bound

remote == <<published, head, asset>>
pin_disk == <<pins, meta, tempf>>
pin_vars == <<remote, pin_disk, hash, seen, up, saved, failures, orig, rerun, faults>>

\* Digests are numbers.
Unknown == 0          \* no digest to compare with
Gone    == -1         \* not there
Digests == {Gone, Unknown, 1, 2, 3, 4}

SttPins == {"encoder"}
ZeroPins == {"gguf", "config", "zvoice"}
\* The configurations of the voices share two constants, "common" and "south".
ConstantOf == [configA |-> "common", configS |-> "south",
               configB |-> "common", configT |-> "south"]
Configs == DOMAIN ConstantOf
Constants == {"common", "south"}
NghiPins == {"modelA"} \cup Configs
RepoPins == [stt |-> SttPins, zero |-> ZeroPins]
FileOf == [stt |-> SttPins \cup {"srev"},
           tts |-> ZeroPins \cup {"zrev", "codec", "modelA"} \cup Constants]
RevOf == [stt |-> "srev", zero |-> "zrev"]
Files == <<"stt", "tts">>
Local(f, c) == orig[f][c]

\* At revision 1, what is pinned first.
First(c) == IF c \in {"configS", "configT", "south"} THEN 4 ELSE 1
DigestAt(c, r) == IF r = 1 THEN First(c) ELSE published[c]

Publications ==
  {p \in [SttPins \cup ZeroPins \cup NghiPins -> Digests] :
     /\ p["encoder"] \in {Unknown, 1, 2} /\ p["gguf"] = 2
     /\ p["config"] \in {1, 2} /\ p["zvoice"] \in {Gone, 2} /\ p["modelA"] = 2
     /\ \/ p["configA"] = 2 /\ p["configB"] = 2 /\ p["configS"] = 4 /\ p["configT"] = 4
        \/ /\ p["configA"] \in {2, 4} /\ p["configB"] \in {2, 3, 4}
           /\ p["configS"] = 1 /\ p["configT"] = 3
           /\ p["encoder"] = 2 /\ p["config"] = 2 /\ p["zvoice"] = 2}
PinInit ==
  /\ published \in Publications
  /\ head = [stt |-> 1, zero |-> 1, nghi |-> 1]
  /\ asset \in {1, 2}
  /\ pins = [f \in DOMAIN FileOf |-> [c \in FileOf[f] |-> First(c)]]
  /\ meta = [f \in DOMAIN FileOf |-> "kept"] /\ tempf = [f \in DOMAIN FileOf |-> FALSE]
  /\ hash \in BOOLEAN
  /\ seen = [c \in {} |-> 0]
  /\ up = "voices" /\ saved = <<>> /\ failures = {} /\ orig = pins
  /\ rerun = TRUE /\ faults = MaxWriteFaults

UpTo(place) == up' = place
See(news) == seen' = [c \in DOMAIN news \cup DOMAIN seen |->
                        IF c \in DOMAIN news THEN news[c] ELSE seen[c]]

-------------------------------------------------------------------------------
(* The comparison.                                                         *)

HeadMoves ==
  /\ up \in {"voices", "revision", "tree", "zrevision", "ztree"}
  /\ \E repo \in DOMAIN head : head[repo] = 1 /\ head' = [head EXCEPT ![repo] = 2]
  /\ UNCHANGED <<published, asset, pin_disk, hash, seen, up, saved, failures, orig, rerun, faults>>

\* One by one, in a pool; a voice site has no revisions.
_remote_voice_artifacts ==
  /\ up = "voices"
  /\ IF NghiPins \subseteq DOMAIN seen
     THEN UpTo("revision") /\ UNCHANGED seen
     ELSE /\ \E c \in NghiPins \ DOMAIN seen :
               See([x \in {c} |-> IF hash THEN DigestAt(c, head.nghi) ELSE Unknown])
          /\ UNCHANGED up
  /\ UNCHANGED <<remote, pin_disk, hash, saved, failures, orig, rerun, faults>>

Repo == IF up \in {"revision", "tree"} THEN "stt" ELSE "zero"
_remote_hf_revision ==
  /\ up \in {"revision", "zrevision"}
  /\ See([x \in {RevOf[Repo]} |-> head[Repo]])
  /\ UpTo(IF Repo = "stt" THEN "tree" ELSE "ztree")
  /\ UNCHANGED <<remote, pin_disk, hash, saved, failures, orig, rerun, faults>>

\* Faulty: the tree of the branch.
OfBranch(repo) == head[repo]
OfRevision(repo) == seen[RevOf[repo]]

\* A small file has no digest in the tree: it is fetched, at the same revision.
_remote_hf_tree_entries ==
  /\ up \in {"tree", "ztree"}
  /\ See([c \in RepoPins[Repo] |-> IF c = "config" /\ ~hash THEN Unknown
                                                           ELSE DigestAt(c, OfRevision(Repo))])
  /\ UpTo(IF Repo = "stt" THEN "zrevision" ELSE "bundled")
  /\ UNCHANGED <<remote, pin_disk, hash, saved, failures, orig, rerun, faults>>

\* Faulty: the codec that is there is taken for the published one.
NotRefused == FALSE
Refused == hash /\ asset # Local("tts", "codec")

\* A codec that is not the pinned one ends the run.
_build_zerotts_artifact_comparison ==
  /\ up = "bundled"
  /\ IF ~Refused
     THEN See([x \in {"codec"} |-> IF hash THEN asset ELSE Unknown]) /\ UpTo("plan")
     ELSE UpTo("refused") /\ UNCHANGED seen
  /\ UNCHANGED <<remote, pin_disk, hash, saved, failures, orig, rerun, faults>>

-------------------------------------------------------------------------------
(* The plan.                                                               *)

\* Faulty: also what is not there, or has no digest, is an update.
Differs(f, c, d) == d # Local(f, c)
Changed(f, c, d) == d \notin {Gone, Unknown} /\ d # Local(f, c)
Unresolved(c) == seen[c] \in {Gone, Unknown}

Blocked(f, repo) ==
  seen[RevOf[repo]] # Local(f, RevOf[repo]) /\ \E c \in RepoPins[repo] : Unresolved(c)

\* The text of the two constants, while the voices are gone through.
Holders(u, d) == {k \in Constants : u.held[k] = d}
\* Faulty: a configuration whose digest is not found is taken as updated.
NotFound(u, d) == TRUE
AlreadyUpdated(u, d) == Holders(u, d) # {}

\* The constant that holds the digest the voice is pinned with gets the new one; two that hold
\* it are an error, and one that was given it in this update is left alone. If none holds it,
\* one of the two must hold what the voice wants.
_update_nghitts_config_pin(u, c) ==
  LET found   == Holders(u, Local("tts", ConstantOf[c]))
      settled == \/ ~Changed("tts", ConstantOf[c], seen[c])
                 \/ found = {} /\ AlreadyUpdated(u, seen[c])
                 \/ found \notin {{}, Constants} /\ found \subseteq u.updated
  IN  IF settled THEN u
      ELSE [held    |-> [k \in Constants |-> IF k \in found THEN seen[c] ELSE u.held[k]],
            updated |-> u.updated \cup found,
            failed  |-> u.failed \/ found \in {{}, Constants}]

\* The voices in the order of their table.
_update_nghitts_voices_in_content ==
  LET u == [held |-> [k \in Constants |-> Local("tts", k)], updated |-> {}, failed |-> FALSE]
      a == _update_nghitts_config_pin(u, "configA")
      s == _update_nghitts_config_pin(a, "configS")
      b == _update_nghitts_config_pin(s, "configB")
  IN  _update_nghitts_config_pin(b, "configT")

Updated(f, c) ==
  CASE c \in Constants        -> _update_nghitts_voices_in_content.held[c]
    [] c \in {"srev", "zrev"} -> seen[c]
    [] OTHER                  -> IF Changed(f, c, seen[c]) THEN seen[c] ELSE Local(f, c)

NewPins == [f \in DOMAIN FileOf |-> [c \in FileOf[f] |-> Updated(f, c)]]
\* Both plans are made before the first write.
update_model_pins ==
  /\ up = "plan"
  /\ IF \/ Blocked("stt", "stt") \/ Blocked("tts", "zero")
        \/ _update_nghitts_voices_in_content.failed
     THEN UpTo("refused") ELSE UpTo("write")
  /\ UNCHANGED <<remote, pin_disk, hash, seen, saved, failures, orig, rerun, faults>>

-------------------------------------------------------------------------------
(* Both files are written, or neither.                                     *)

Stale == {f \in Range(Files) : NewPins[f] # orig[f]}
ToWrite == CHOOSE files \in {<<>>, <<Files[1]>>, <<Files[2]>>, Files} : Range(files) = Stale

\* The file is remembered before anything is written beside it; without its times and mode,
\* if they cannot be read.
_snapshot_file ==
  /\ up = "write" /\ Len(saved) < Len(ToWrite)
  /\ LET f == ToWrite[Len(saved) + 1]
     IN  /\ saved' = Append(saved, f) /\ tempf' = [tempf EXCEPT ![f] = TRUE]
         /\ \/ UNCHANGED <<meta, faults>>
            \/ faults > 0 /\ faults' = faults - 1 /\ meta' = [meta EXCEPT ![f] = "unknown"]
  /\ UpTo("replace")
  /\ UNCHANGED <<remote, pins, hash, seen, failures, orig, rerun>>

Rewritten(f) == [meta EXCEPT ![f] = IF @ = "kept" THEN "fresh" ELSE @]
_atomic_write_text ==
  /\ up = "replace"
  /\ LET f == Last(saved)
     IN  /\ pins' = [pins EXCEPT ![f] = NewPins[f]]
         /\ meta' = Rewritten(f) /\ tempf' = [tempf EXCEPT ![f] = FALSE]
  /\ UpTo("write")
  /\ UNCHANGED <<remote, hash, seen, saved, failures, orig, rerun, faults>>

\* Every Exception is rolled back; before the rename, the temporary file is removed.
WriteFault ==
  /\ up = "replace" /\ faults > 0 /\ faults' = faults - 1
  /\ tempf' = [tempf EXCEPT ![Last(saved)] = FALSE]
  /\ UpTo("undo")
  /\ UNCHANGED <<remote, pins, meta, hash, seen, saved, failures, orig, rerun>>

\* An interrupt is not: what is written stays, and so does the temporary file.
Interrupted ==
  /\ up \in {"write", "replace", "undo"} /\ faults > 0 /\ faults' = faults - 1
  /\ UpTo("interrupted")
  /\ UNCHANGED <<remote, pin_disk, hash, seen, saved, failures, orig, rerun>>

\* Faulty: the times and the mode stay as the write made them.
ContentsOnly(f) == Rewritten(f)
_restore_file_metadata(f) == [meta EXCEPT ![f] = IF @ = "fresh" THEN "kept" ELSE @]

\* Contents, then times and mode; either may fail, which is noted, and the next file follows.
_rollback_single_file ==
  /\ up = "undo" /\ saved # <<>>
  /\ LET f == Last(saved)
     IN  \/ /\ pins' = [pins EXCEPT ![f] = orig[f]] /\ meta' = _restore_file_metadata(f)
            /\ UNCHANGED <<failures, faults>>
         \/ /\ faults > 0 /\ faults' = faults - 1 /\ failures' = failures \cup {f}
            /\ pins' \in {pins, [pins EXCEPT ![f] = orig[f]]} /\ UNCHANGED meta
  /\ saved' = Front(saved)
  /\ UNCHANGED <<remote, tempf, hash, seen, up, orig, rerun>>

UpdateEnds ==
  /\ \/ up = "write" /\ Len(saved) = Len(ToWrite) /\ UpTo("done")
     \/ up = "undo" /\ saved = <<>> /\ UpTo("failed")
  /\ UNCHANGED <<remote, pin_disk, hash, seen, saved, failures, orig, rerun, faults>>

RunAgain ==
  /\ up \in {"done", "failed", "interrupted", "refused"} /\ rerun
  /\ rerun' = FALSE /\ UpTo("voices")
  /\ orig' = pins /\ seen' = [c \in {} |-> 0] /\ saved' = <<>> /\ failures' = {}
  /\ meta' = [f \in DOMAIN FileOf |-> "kept"] /\ hash' \in BOOLEAN
  /\ UNCHANGED <<remote, pins, tempf, faults>>

PinNext ==
  \/ HeadMoves \/ _remote_voice_artifacts \/ _remote_hf_revision \/ _remote_hf_tree_entries
  \/ _build_zerotts_artifact_comparison \/ update_model_pins
  \/ _snapshot_file \/ _atomic_write_text \/ WriteFault \/ Interrupted
  \/ _rollback_single_file \/ UpdateEnds \/ RunAgain

PinSpec == PinInit /\ [][PinNext]_pin_vars

-------------------------------------------------------------------------------
(* Properties.                                                             *)

PinTypeOK ==
  /\ \A f \in DOMAIN FileOf : pins[f] \in [FileOf[f] -> 1..4]
  /\ \A i \in DOMAIN saved : saved[i] = ToWrite[i]
  /\ failures \subseteq DOMAIN FileOf
  /\ up = "replace" => tempf[Last(saved)]

\* An update that failed left both files as they were, with the times and mode that
\* could be read, or its error names the file that is not (_apply_transactional_writes).
BothOrNeither ==
  up = "failed" => \A f \in DOMAIN FileOf :
    f \in failures \/ (pins[f] = orig[f] /\ meta[f] # "fresh")

\* At every moment, after any failure or interrupt, and however the remote repositories move
\* during the comparison, the digests that are pinned are those of the revision that is
\* pinned with them (_update_stt_revisions_in_content, _plan_tts_model_updates).
RevisionCoherent ==
  /\ \A c \in SttPins : pins.stt[c] = DigestAt(c, pins.stt.srev)
  /\ \A c \in ZeroPins : pins.tts[c] = DigestAt(c, pins.tts.zrev)

\* An update that succeeds leaves every pin at the digest it has seen; a constant that voices
\* share stays, or gets what one of its own voices has seen changed.  A voice that wants another
\* digest is refused, unless the other constant had or got what it wants, or got what it had
\* (_update_nghitts_config_pin: "verify it was already updated").
Wanted(k) == {seen[c] : c \in {x \in Configs : ConstantOf[x] = k}} \ {Unknown, orig.tts[k]}
PinsFollow ==
  up = "done" =>
    /\ \A f \in DOMAIN FileOf : \A c \in FileOf[f] \ Constants :
         seen[c] \notin {Gone, Unknown} => pins[f][c] = seen[c]
    /\ \A k \in Constants :
         /\ pins.tts[k] \in IF Wanted(k) = {} THEN {orig.tts[k]} ELSE Wanted(k)
         /\ \A d \in Wanted(k) \ {pins.tts[k]} :
              \E other \in Constants \ {k} : \/ d \in {orig.tts[other], pins.tts[other]}
                                            \/ pins.tts[other] = orig.tts[k]

\* The digest of the codec that comes with the sources is never taken from the codec itself
\* (_build_zerotts_artifact_comparison: "refusing to self-certify a modified local asset").
NeverSelfCertified == [][pins'.tts.codec = pins.tts.codec]_pin_vars

\* The pins of both files move together, to what was seen and compared.
PinsCoherent == /\ [](PinTypeOK /\ BothOrNeither /\ RevisionCoherent /\ PinsFollow)
                /\ NeverSelfCertified
===============================================================================
