------------------------------ MODULE ModelStore ------------------------------
(***************************************************************************)
(* The start of server processes that share one model volume (download.py).*)
(* A process sweeps the temporary files of earlier ones, looks whether the *)
(* pinned model is there already, and otherwise fetches it and rebuilds    *)
(* the layout, file by file, each through a temporary file and a rename.   *)
(* Servers may crash anywhere; between two runs the volume may be damaged  *)
(* and the image may be replaced by one that pins another version.         *)
(*                                                                         *)
(* subject tells which model the image serves: an STT model, a ZeroTTS     *)
(* model, or an NghiTTS voice.                                             *)
(***************************************************************************)
EXTENDS Integers, Sequences, Functions

CONSTANTS Servers,        \* server processes, by container
          Pids,           \* process identifiers; two containers may use the same
          Versions,       \* versions an image may pin
          MaxStarts,      \* bound on the starts
          MaxMishaps      \* bound on the crashes, failed writes, damages and upgrades

ASSUME StoreAssumption == /\ Pids \subseteq Nat /\ Pids # {}
                          /\ Versions \subseteq Nat \ {0} /\ Versions # {}
                          /\ {MaxStarts, MaxMishaps} \subseteq Nat
                          /\ "nobody" \notin Servers

VARIABLES subject,  \* "stt", "zero" or "nghi"
          file,     \* file -> the version of its contents, Absent or Bad
          marker,   \* the .prepared.json sidecar
          temp,     \* <<file, pid>> -> contents of the temporary file, or Absent
          snap,     \* version -> "absent", "whole", or the damaged file of the snapshot
          pin,      \* the version the images of today pin
          lock,     \* holder of .structure.lock
          dlock,    \* holder of the voice's .download.lock
          pc, pid,  \* per server: where it is, and its process identifier
          todo,     \* per server: files it has yet to put in place
          target,   \* per server: the ZeroTTS model it wants, then the one it got
          had,      \* per server: a usable model was there when it started, and
                    \* no write has failed since
          left      \* what is left of the bounds

disk == <<file, marker, temp, snap>>
site == <<subject, pin>>
store_vars == <<site, disk, lock, dlock, pc, pid, todo, target, had, left>>

Absent == 0
Bad    == -1          \* contents no version pins
Nobody == "nobody"
AnyPid == CHOOSE n \in Pids : TRUE
Quants == {"q4", "q8"}

Layout == CASE subject = "stt"  -> {"graph", "tokens"}
            [] subject = "zero" -> {"core", "q4", "q8", "int8", "voice"}
            [] subject = "nghi" -> {"source", "config", "ownconfig", "tokens", "model"}
AllFiles == {"graph", "tokens", "core", "q4", "q8", "int8", "voice",
             "source", "config", "ownconfig", "model"}

NoMarker == [of |-> Absent, out |-> Absent]

Verified(f) == file[f] = pin

Live(p) == pc[p] \notin {"off", "failed"}
Working(p) == pc[p] \notin {"off", "failed", "ready"}

(***************************************************************************)
(* What a start accepts without touching the network.                      *)
(***************************************************************************)
TokensReady == marker = [of |-> pin, out |-> file["tokens"]] /\ file["tokens"] # Absent
_stt_layout_ready == TokensReady /\ Verified("graph")

\* The int8 codec may be missing, but not wrong.
_verify_candidate_artifacts == Verified("core") /\ file["int8"] \in {Absent, pin}

_verify_existing_zerotts_candidate(q) ==
  Verified(q) /\ _verify_candidate_artifacts /\ Verified("voice")

\* A marker that matches stands for the digests of the source and of the output: a
\* write to either gives it another time of change, and so clears the marker here.
_is_prepared_for_sherpa == file["model"] # Absent /\ marker = [of |-> file["ownconfig"], out |-> 1]

Usable == CASE subject = "stt"  -> _stt_layout_ready
            [] subject = "zero" -> \E q \in Quants : _verify_existing_zerotts_candidate(q)
            [] subject = "nghi" -> FALSE      \* a voice is rebuilt in part on every start

StoreInit ==
  /\ subject \in {"stt", "zero", "nghi"}
  /\ file = [f \in AllFiles |-> Absent] /\ marker = NoMarker
  /\ temp = [t \in AllFiles \X Pids |-> Absent]
  /\ snap = [v \in Versions |-> "absent"]
  /\ pin = CHOOSE v \in Versions : TRUE
  /\ lock = Nobody /\ dlock = Nobody
  /\ pc = [p \in Servers |-> "off"] /\ pid = [p \in Servers |-> AnyPid]
  /\ todo = [p \in Servers |-> <<>>] /\ target = [p \in Servers |-> "q8"]
  /\ had = [p \in Servers |-> FALSE]
  /\ left = [starts |-> MaxStarts, mishaps |-> MaxMishaps]

-------------------------------------------------------------------------------
(* A start: sweep, look, synchronize, structure.                           *)

To(p, place) == pc' = [pc EXCEPT ![p] = place]
Todo(p, files) == todo' = [todo EXCEPT ![p] = files]
\* Faulty: the lock of a process that ends stays behind.
StillLocked(p) == lock
Unlocked(p) == IF lock = p THEN Nobody ELSE lock

download_models(p) ==
  /\ pc[p] = "off" /\ left.starts > 0
  /\ left' = [left EXCEPT !.starts = @ - 1]
  /\ \E n \in Pids : pid' = [pid EXCEPT ![p] = n]
  /\ IF subject = "zero" THEN \E q \in Quants : target' = [target EXCEPT ![p] = q]
                         ELSE UNCHANGED target
  /\ had' = [had EXCEPT ![p] = Usable]
  /\ To(p, "sweep")
  /\ UNCHANGED <<site, disk, lock, dlock, todo>>

\* Temporary files with the process's own identifier are leftovers of an earlier process.
\* Others are kept if a process with their identifier is seen, which may also be an
\* unrelated one, and which a process of another container never is. Downloads have their
\* temporary files in the cache, which is not swept.
_cleanup_stale_temporary_files(p) ==
  \E seen \in SUBSET (Pids \ {pid[p]}) :
    temp' = [t \in DOMAIN temp |->
               IF t[2] \in seen \/ t[1] \in {"source", "config"} THEN temp[t] ELSE Absent]

\* Faulty: sweeps also while another process rebuilds the layout.
Whenever(p) == TRUE
\* The sweep takes the lock it then gives back.
SweepFree(p) == lock = Nobody
Sweep(p) ==
  /\ pc[p] = "sweep" /\ SweepFree(p)
  /\ _cleanup_stale_temporary_files(p)
  /\ To(p, "look")
  /\ UNCHANGED <<site, file, marker, snap, lock, dlock, pid, todo, target, had, left>>

\* The STT layout is complete, or the ZeroTTS model that is wanted is there.
LookReady(p) ==
  /\ pc[p] = "look"
  /\ IF subject = "stt" THEN _stt_layout_ready
                        ELSE /\ subject = "zero"
                             /\ _verify_existing_zerotts_candidate(target[p])
  /\ IF target[p] = "q4" /\ file["int8"] = Absent
     THEN To(p, "lock") /\ Todo(p, <<"int8">>)       \* _ensure_zerotts_int8_codec
     ELSE To(p, "ready") /\ UNCHANGED todo
  /\ UNCHANGED <<site, disk, lock, dlock, pid, target, had, left>>

LookMissing(p) ==
  /\ pc[p] = "look"
  /\ CASE subject = "stt"  -> ~_stt_layout_ready /\ To(p, "sync") /\ UNCHANGED todo
       [] subject = "zero" -> /\ ~_verify_existing_zerotts_candidate(target[p])
                              /\ To(p, "sync") /\ UNCHANGED todo
       [] subject = "nghi" -> To(p, "fetch") /\ Todo(p, <<"source", "config">>)
  /\ UNCHANGED <<site, disk, lock, dlock, pid, target, had, left>>

\* Faulty: the sidecar is written before what it vouches for.
MarkedFirst(p) ==
  CASE subject = "stt"  -> <<"marker", "graph", "tokens">>
    [] subject = "zero" -> <<"core", target[p], "int8", "voice">>
    [] subject = "nghi" -> <<"ownconfig", "tokens", "marker", "model">>
\* The files of the layout, in the order they are put in place.
StructureOrder(p) ==
  CASE subject = "stt"  -> <<"graph", "tokens", "marker">>
    [] subject = "zero" -> <<"core", target[p], "int8", "voice">>
    [] subject = "nghi" -> <<"ownconfig", "tokens", "model", "marker">>

\* The remote repository completes the snapshot; without it a complete local one serves.
\* Neither looks at the contents of files that are already there.
_sync_repo(p) ==
  /\ pc[p] = "sync"
  /\ snap' = [snap EXCEPT ![pin] = IF @ = "absent" THEN "whole" ELSE @]
  /\ To(p, "lock") /\ Todo(p, StructureOrder(p))
  /\ UNCHANGED <<site, file, marker, temp, lock, dlock, pid, target, had, left>>

\* Faulty: what cannot be had is tried for again, for ever.
Retried(p) == To(p, IF subject = "nghi" THEN "failed" ELSE "sync")
\* Only the attempt to install a ZeroTTS model has a fallback; adding the int8 codec to the
\* model that is there (todo is <<"int8">> then) has none.
Raised(p) ==
  To(p, IF subject = "zero" /\ (pc[p] = "sync" \/ "voice" \in Range(todo[p]))
        THEN "fallback" ELSE "failed")

SyncFails(p) ==
  /\ pc[p] = "sync" /\ snap[pin] = "absent"
  /\ Raised(p)
  /\ UNCHANGED <<site, disk, lock, dlock, pid, todo, target, had, left>>

\* Faulty: only the model that was wanted is looked for.
OnlyWanted(p) == <<target[p], target[p], target[p]>>
\* _find_existing_zerotts_fallback: the wanted model, then q4, then q8.
Candidates(p) == <<target[p], "q4", "q8">>
Fallback(p) ==
  /\ pc[p] = "fallback"
  /\ LET fit == {i \in 1..3 : _verify_existing_zerotts_candidate(Candidates(p)[i])}
     IN  IF fit = {}
         THEN To(p, "failed") /\ UNCHANGED target
         ELSE /\ To(p, "ready")
              /\ target' = [target EXCEPT ![p] =
                   Candidates(p)[CHOOSE i \in fit : \A j \in fit : i <= j]]
  /\ UNCHANGED <<site, disk, lock, dlock, pid, todo, had, left>>

-------------------------------------------------------------------------------
(* The NghiTTS voice in the cache, under its own lock.                     *)

FetchLock(p) ==
  /\ pc[p] = "fetch" /\ dlock = Nobody
  /\ dlock' = p /\ To(p, "fetching")
  /\ UNCHANGED <<site, disk, lock, pid, todo, target, had, left>>

\* A verified file is kept; otherwise it is downloaded, and renamed only if its digest is
\* the pinned one. Everything else raises: offline, no connection, another digest.
_sync_nghitts_model(p) ==
  /\ pc[p] = "fetching" /\ todo[p] # <<>>
  /\ LET f == Head(todo[p])
     IN  \/ /\ Verified(f)
            /\ Todo(p, Tail(todo[p]))
            /\ UNCHANGED <<temp, pc, dlock>>
         \/ /\ ~Verified(f)
            /\ \E got \in {pin, Bad} :
                 temp' = [temp EXCEPT ![<<f, pid[p]>>] = got]
            /\ To(p, "fetched") /\ UNCHANGED <<todo, dlock>>
         \/ /\ ~Verified(f)
            /\ To(p, "failed") /\ dlock' = Nobody /\ UNCHANGED <<temp, todo>>
  /\ UNCHANGED <<site, file, marker, snap, lock, pid, target, had, left>>

Accepts(got) == got = pin
_download_verified_file(p) ==
  /\ pc[p] = "fetched"
  /\ LET f == Head(todo[p])
         t == <<f, pid[p]>>
     IN  /\ IF Accepts(temp[t])
            THEN /\ file' = [file EXCEPT ![f] = temp[t]]
                 /\ marker' = IF f = "source" THEN NoMarker ELSE marker
                 /\ Todo(p, Tail(todo[p])) /\ To(p, "fetching") /\ UNCHANGED dlock
            ELSE /\ To(p, "failed") /\ dlock' = Nobody
                 /\ UNCHANGED <<file, marker, todo>>
         /\ temp' = [temp EXCEPT ![t] = Absent]
  /\ UNCHANGED <<site, snap, lock, pid, target, had, left>>

FetchDone(p) ==
  /\ pc[p] = "fetching" /\ todo[p] = <<>>
  /\ dlock' = Nobody /\ To(p, "lock") /\ Todo(p, StructureOrder(p))
  /\ UNCHANGED <<site, disk, lock, pid, target, had, left>>

-------------------------------------------------------------------------------
(* The layout, under .structure.lock.                                      *)

Damaged(v) == snap[v] \notin {"absent", "whole"}

\* Releases the lock on the way out.
Fail(p) == Raised(p) /\ lock' = Unlocked(p)

\* Every source of an STT model is verified before the first of its files is replaced.
_model_structure_lock(p) ==
  /\ pc[p] = "lock" /\ lock = Nobody
  /\ IF subject = "stt" /\ Damaged(pin)
     THEN To(p, "failed") /\ UNCHANGED lock
     ELSE To(p, "place") /\ lock' = p
  /\ UNCHANGED <<site, disk, dlock, pid, todo, target, had, left>>

\* The verified source of a file, or other files of the layout it is made from; Absent if
\* there is none that verifies. The hybrid is converted from the source of q8; the int8
\* codec comes with the package.
Source(f) ==
  CASE subject = "nghi" /\ f = "ownconfig" -> file["config"]
    [] subject = "nghi" /\ f = "tokens"    -> file["ownconfig"]
    [] subject = "nghi" /\ f = "model"     ->
         IF file["source"] = file["ownconfig"] THEN file["source"] ELSE Bad
    [] f = "q4" -> IF snap[pin] = "q8" THEN Absent ELSE pin
    [] OTHER    -> IF snap[pin] = f THEN Absent ELSE pin

\* Faulty: a hybrid that verifies is made once more.
KeptAlways(f) == f = "int8" /\ Verified(f)
\* The hybrid and the int8 codec that verify are kept; a prepared voice is not read again;
\* the tokens are generated anew; a copy of the source is left where it is.
KeptVerified(f) == Verified(f)
Keeps(f) ==
  CASE f \in {"q4", "int8"} -> KeptVerified(f)
    [] subject = "nghi" /\ f = "model" -> _is_prepared_for_sherpa \/ file[f] = Source(f)
    [] f = "tokens" -> FALSE
    [] OTHER -> file[f] = Source(f) /\ Source(f) # Absent

Placing(p) == pc[p] = "place" /\ todo[p] # <<>> /\ Head(todo[p]) # "marker"

Keep(p) ==
  /\ Placing(p) /\ Keeps(Head(todo[p]))
  /\ Todo(p, Tail(todo[p]))
  /\ UNCHANGED <<site, disk, lock, dlock, pc, pid, target, had, left>>

\* A stale hybrid is removed before its source is looked for.
Cleared(f) == IF f = "q4" THEN [file EXCEPT ![f] = Absent] ELSE file

\* What the conversion writes need not be what is pinned.
Makes(f) == {Source(f)} \cup (IF f = "q4" THEN {Bad} ELSE {})

Write(p) ==
  /\ Placing(p) /\ ~Keeps(Head(todo[p]))
  /\ LET f == Head(todo[p])
     IN  /\ Source(f) # Absent
         /\ file' = Cleared(f)
         /\ \E made \in Makes(f) : temp' = [temp EXCEPT ![<<f, pid[p]>>] = made]
  /\ To(p, "rename")
  /\ UNCHANGED <<site, marker, snap, lock, dlock, pid, todo, target, had, left>>

NoSource(p) ==
  /\ Placing(p) /\ ~Keeps(Head(todo[p]))
  /\ LET f == Head(todo[p]) IN Source(f) = Absent /\ file' = Cleared(f)
  /\ Fail(p)
  /\ UNCHANGED <<site, marker, temp, snap, dlock, pid, todo, target, had, left>>

\* Writing, or the rename, fails: no space, or no right to. The temporary file is removed.
WriteFails(p) ==
  /\ pc[p] = "rename" \/ (pc[p] = "place" /\ todo[p] # <<>> /\ Head(todo[p]) = "marker")
  /\ left.mishaps > 0 /\ left' = [left EXCEPT !.mishaps = @ - 1]
  /\ temp' = IF pc[p] = "rename" THEN [temp EXCEPT ![<<Head(todo[p]), pid[p]>>] = Absent]
                                ELSE temp
  /\ Fail(p) /\ had' = [had EXCEPT ![p] = FALSE]
  /\ UNCHANGED <<site, file, marker, snap, dlock, pid, todo, target>>

\* os.replace; a ZeroTTS file is verified once more in its place.
Rename(p) ==
  /\ pc[p] = "rename"
  /\ LET f == Head(todo[p])
         t == <<f, pid[p]>>
     IN  /\ file' = [file EXCEPT ![f] = temp[t]]
         /\ marker' = IF f = "model" THEN NoMarker ELSE marker
         /\ temp' = [temp EXCEPT ![t] = Absent]
         /\ IF subject = "zero" /\ temp[t] # pin
            THEN To(p, "wrong") /\ UNCHANGED todo
            ELSE To(p, "place") /\ Todo(p, Tail(todo[p]))
  /\ UNCHANGED <<site, snap, lock, dlock, pid, target, had, left>>

\* A hybrid that came out wrong is removed.
Wrong(p) ==
  /\ pc[p] = "wrong"
  /\ file' = Cleared(Head(todo[p])) /\ Fail(p)
  /\ UNCHANGED <<site, marker, temp, snap, dlock, pid, todo, target, had, left>>

\* The sidecar is written once everything it vouches for is in place.
Record(p) ==
  /\ pc[p] = "place" /\ todo[p] # <<>> /\ Head(todo[p]) = "marker"
  /\ marker' = IF subject = "stt" THEN [of |-> pin, out |-> file["tokens"]]
                                  ELSE [of |-> file["ownconfig"], out |-> 1]
  /\ Todo(p, Tail(todo[p]))
  /\ UNCHANGED <<site, file, temp, snap, lock, dlock, pc, pid, target, had, left>>

Placed(p) ==
  /\ pc[p] = "place" /\ todo[p] = <<>>
  /\ To(p, "ready") /\ lock' = Nobody
  /\ UNCHANGED <<site, disk, dlock, pid, todo, target, had, left>>

-------------------------------------------------------------------------------
(* The world around.                                                       *)

\* The locks of a process go with it; its temporary files stay.
Ends(p) ==
  /\ To(p, "off") /\ Todo(p, <<>>) /\ had' = [had EXCEPT ![p] = FALSE]
  /\ pid' = [pid EXCEPT ![p] = AnyPid] /\ target' = [target EXCEPT ![p] = "q8"]

Crash(p) ==
  /\ Working(p) /\ left.mishaps > 0
  /\ left' = [left EXCEPT !.mishaps = @ - 1]
  /\ lock' = Unlocked(p) /\ dlock' = IF dlock = p THEN Nobody ELSE dlock
  /\ Ends(p)
  /\ UNCHANGED <<site, disk>>

Stop(p) ==
  /\ pc[p] \in {"ready", "failed"}
  /\ Ends(p)
  /\ UNCHANGED <<site, disk, lock, dlock, left>>

AllOff == \A p \in Servers : pc[p] = "off"

Damage ==
  /\ AllOff /\ left.mishaps > 0
  /\ left' = [left EXCEPT !.mishaps = @ - 1]
  /\ \/ \E f \in Layout :
          /\ file[f] # Absent
          /\ \E with \in {Absent, Bad} : file' = [file EXCEPT ![f] = with]
          /\ marker' = IF f \in {"source", "model"} THEN NoMarker ELSE marker
          /\ UNCHANGED snap
     \/ \E v \in Versions, f \in Layout \cap {"graph", "core", "q8", "voice"} :
          /\ snap[v] = "whole"
          /\ snap' = [snap EXCEPT ![v] = f] /\ UNCHANGED <<file, marker>>
  /\ UNCHANGED <<site, temp, lock, dlock, pc, pid, todo, target, had>>

\* An image that pins another version.
Upgrade ==
  /\ AllOff /\ left.mishaps > 0
  /\ left' = [left EXCEPT !.mishaps = @ - 1]
  /\ pin' \in Versions \ {pin}
  /\ UNCHANGED <<subject, disk, lock, dlock, pc, pid, todo, target, had>>

Step(p) == \/ Sweep(p) \/ LookReady(p) \/ LookMissing(p)
           \/ _sync_repo(p) \/ SyncFails(p) \/ Fallback(p)
           \/ FetchLock(p) \/ _sync_nghitts_model(p) \/ _download_verified_file(p) \/ FetchDone(p)
           \/ _model_structure_lock(p) \/ Keep(p) \/ Write(p) \/ NoSource(p) \/ Rename(p)
           \/ Wrong(p) \/ Record(p) \/ Placed(p)

StoreNext == \/ \E p \in Servers : download_models(p) \/ Step(p) \/ WriteFails(p) \/ Crash(p) \/ Stop(p)
             \/ Damage \/ Upgrade

StoreSpec == StoreInit /\ [][StoreNext]_store_vars /\ \A p \in Servers : WF_store_vars(Step(p))

-------------------------------------------------------------------------------
(* Properties.                                                             *)

StoreTypeOK ==
  /\ file \in [AllFiles -> Versions \cup {Absent, Bad}]
  /\ temp \in [AllFiles \X Pids -> Versions \cup {Absent, Bad}]
  /\ marker.of \in Versions \cup {Absent} /\ marker.out \in Int
  /\ pin \in Versions
  /\ \A p \in Servers :
       /\ pid[p] \in Pids /\ target[p] \in Quants
       /\ (lock = p) <=> pc[p] \in {"place", "rename", "wrong"}
       /\ (dlock = p) <=> pc[p] \in {"fetching", "fetched"}

\* A rename always finds the file the process has written, whatever other processes start,
\* sweep or crash at that time and whatever identifiers they have (the locks of download.py).
TempIntact == \A p \in Servers : pc[p] \in {"rename", "fetched"} =>
                temp[<<Head(todo[p]), pid[p]>>] # Absent

\* A server that is ready has, on the volume, files of the version it pins: all of the STT
\* model or the voice, or the ZeroTTS model it settled for.
ReadyIsWhole == \A p \in Servers : pc[p] = "ready" =>
  CASE subject = "stt"  -> Verified("graph") /\ Verified("tokens")
    [] subject = "zero" -> _verify_existing_zerotts_candidate(target[p])
    [] subject = "nghi" -> \A f \in {"ownconfig", "tokens", "model"} : Verified(f)

\* A sidecar that matches tells the truth after any crash: the tokens are those of the
\* tokenizer, and the prepared model is that of the source and its configuration.
MarkerTells ==
  /\ subject = "stt" /\ file["tokens"] # Absent /\ marker.out = file["tokens"]
       => file["tokens"] = marker.of
  /\ subject = "nghi" /\ _is_prepared_for_sherpa
       => file["model"] = file["ownconfig"] /\ file["model"] = file["source"]

\* A usable model that was there when a start began is never lost to it: the start does not
\* fail, with or without the network, unless a write did.
UsableIsUsed == \A p \in Servers : pc[p] = "failed" => ~had[p]

\* What makes the looks without a lock sound: while a server runs, a file of the pinned
\* version is not replaced by, or removed for, anything else.
VerifiedStays ==
  [][\A f \in AllFiles : ~AllOff /\ Verified(f) => file'[f] = pin]_store_vars

\* Every start ends, ready or with an error, also when other processes crash with the lock.
StartsEnd == \A p \in Servers : Working(p) ~> ~Working(p)

\* The volume tells every process the truth about its files.
FilesTrue == StoreTypeOK /\ TempIntact /\ ReadyIsWhole /\ MarkerTells

\* What works is kept: by a start that begins, and while a server runs.
WorkKept == []UsableIsUsed /\ VerifiedStays

-------------------------------------------------------------------------------
(* The invariant behind the safety properties.                             *)

TypeInv ==
  /\ StoreTypeOK /\ subject \in {"stt", "zero", "nghi"}
  /\ pc \in [Servers -> {"off", "sweep", "look", "sync", "fallback", "fetch", "fetching", "fetched",
                         "lock", "place", "rename", "wrong", "ready", "failed"}]
  /\ pid \in [Servers -> Pids] /\ target \in [Servers -> Quants] /\ had \in [Servers -> BOOLEAN]
  /\ todo \in [Servers -> Seq(AllFiles \cup {"marker"})]
  /\ snap \in [Versions -> {"absent", "whole", "graph", "core", "q8", "voice"}]

\* What a process has left of its work is the rest of the order it follows.
OrderInv(p) ==
  /\ subject # "zero" => target[p] = "q8"
  /\ subject = "stt" =>
       /\ pc[p] \notin {"fallback", "fetch", "fetching", "fetched", "wrong"}
       /\ pc[p] = "lock" => todo[p] = StructureOrder(p)
       /\ pc[p] = "place" => todo[p] \in {StructureOrder(p), <<"tokens", "marker">>, <<"marker">>, <<>>}
       /\ pc[p] = "rename" => todo[p] \in {StructureOrder(p), <<"tokens", "marker">>}
  /\ subject = "zero" =>
       LET rest == <<target[p], "int8", "voice">>
       IN /\ pc[p] \notin {"fetch", "fetching", "fetched"}
          /\ pc[p] = "lock" => todo[p] \in {StructureOrder(p), <<"int8">>}
          /\ pc[p] \in {"place", "rename"} =>
               todo[p] \in {StructureOrder(p), rest, <<"int8", "voice">>, <<"voice">>, <<"int8">>, <<>>}
          /\ pc[p] = "rename" => todo[p] # <<>>
          /\ pc[p] = "wrong" => todo[p] = rest /\ target[p] = "q4"
  /\ subject = "nghi" =>
       /\ pc[p] \notin {"fallback", "sync", "wrong"}
       /\ pc[p] = "fetch" => todo[p] = <<"source", "config">>
       /\ pc[p] \in {"fetching", "fetched"} => todo[p] \in {<<"source", "config">>, <<"config">>, <<>>}
       /\ pc[p] = "fetched" => todo[p] # <<>>
       /\ pc[p] = "lock" => todo[p] = StructureOrder(p)
       /\ pc[p] \in {"place", "rename"} =>
            todo[p] \in {StructureOrder(p), <<"tokens", "model", "marker">>, <<"model", "marker">>,
                         <<"marker">>, <<>>}
       /\ pc[p] = "rename" => todo[p] \notin {<<"marker">>, <<>>}

\* The files a process has put in place, or has seen there, so far.
Installed(p) ==
  LET parts == CASE subject = "stt"  -> {"graph", "tokens"}
                 [] subject = "zero" -> {"core", target[p], "int8", "voice"}
                 [] subject = "nghi" -> {"ownconfig", "tokens", "model"}
      base  == IF subject = "nghi" THEN {"source", "config"} ELSE {}
  IN CASE pc[p] \in {"fetching", "fetched"}              -> base \ Range(todo[p])
       [] pc[p] \in {"lock", "place", "rename", "wrong"} -> base \cup (parts \ Range(todo[p]))
       [] pc[p] = "ready"                                -> parts \ {"int8"}
       [] OTHER                                          -> {}

\* They stay as the image pins them, and the codec that is not needed is not wrong.
PlacedInv(p) ==
  /\ \A f \in Installed(p) : Verified(f)
  /\ pc[p] = "ready" /\ subject = "zero" => file["int8"] \in {Absent, pin}

\* What a process wrote is still there when it is renamed: what is pinned, or what may
\* have been downloaded or converted wrongly and replaces nothing of use.
WrittenInv(p) ==
  /\ pc[p] \in {"rename", "fetched"} =>
       LET f == Head(todo[p])
       IN \/ temp[<<f, pid[p]>>] = pin
          \/ temp[<<f, pid[p]>>] = Bad /\ (pc[p] = "fetched" \/ (f = "q4" /\ ~Verified("q4")))
  /\ pc[p] = "wrong" => ~Verified("q4")

\* A usable model that a start has found stays usable, and the start does not fail.
HadInv(p) == had[p] =>
  /\ Usable /\ pc[p] \notin {"off", "failed"}
  /\ subject = "stt" => pc[p] \in {"sweep", "look", "ready"}

\* What the sidecar says of files that are not of the pinned version either.
MarkerInv ==
  /\ subject = "stt" => marker.of = marker.out
  /\ subject = "nghi" /\ marker.out = 1 => file["model"] = marker.of /\ file["source"] = marker.of

ServerInv(p) == OrderInv(p) /\ PlacedInv(p) /\ WrittenInv(p) /\ HadInv(p)

StoreInv == TypeInv /\ MarkerInv /\ \A p \in Servers : ServerInv(p)
================================================================================
