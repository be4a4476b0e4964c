---------------------------- MODULE ModelStoreProofs ----------------------------
(***************************************************************************)
(* Proofs about ModelStore, for any servers that share a volume, whatever  *)
(* their process identifiers, any versions of the images, and any number   *)
(* of starts, crashes, failed writes and damages.                          *)
(***************************************************************************)
EXTENDS ModelStore, TLAPS

--------------------------------------------------------------------------------
(* What the files and the processes may be.                                *)

Contents == Versions \cup {Absent, Bad}
Places == {"off", "sweep", "look", "sync", "fallback", "fetch", "fetching", "fetched",
           "lock", "place", "rename", "wrong", "ready", "failed"}
Structuring == {"place", "rename", "wrong"}
Fetching == {"fetching", "fetched"}

DiskTypes ==
  /\ subject \in {"stt", "zero", "nghi"} /\ pin \in Versions
  /\ file \in [AllFiles -> Contents] /\ temp \in [AllFiles \X Pids -> Contents]
  /\ marker.of \in Versions \cup {Absent} /\ marker.out \in Int
  /\ snap \in [Versions -> {"absent", "whole", "graph", "core", "q8", "voice"}]

ProcessTypes ==
  /\ pc \in [Servers -> Places] /\ pid \in [Servers -> Pids] /\ target \in [Servers -> Quants]
  /\ had \in [Servers -> BOOLEAN] /\ todo \in [Servers -> Seq(AllFiles \cup {"marker"})]

LockTypes ==
  \A p \in Servers : /\ (lock = p) <=> pc[p] \in Structuring
                     /\ (dlock = p) <=> pc[p] \in Fetching

LEMMA TypesAre == TypeInv <=> DiskTypes /\ ProcessTypes /\ LockTypes
BY DEF TypeInv, StoreTypeOK, DiskTypes, ProcessTypes, LockTypes, Contents, Places, Structuring, Fetching

LEMMA TypesNext == TypeInv' <=> DiskTypes' /\ ProcessTypes' /\ LockTypes'
BY TypesAre, PTL

\* No version is the mark of a missing or of a damaged file, and no server is nobody.
LEMMA Marks ==
  /\ Absent \notin Versions /\ Bad \notin Versions /\ Absent # Bad
  /\ Nobody \notin Servers /\ AnyPid \in Pids
<1>1. Absent \notin Versions /\ Bad \notin Versions /\ Absent # Bad
  BY StoreAssumption DEF Absent, Bad
<1>2. Nobody \notin Servers /\ AnyPid \in Pids
  BY StoreAssumption DEF Nobody, AnyPid
<1> QED BY <1>1, <1>2

--------------------------------------------------------------------------------
(* Steps of one process, as the others see them.                           *)

\* Process q does not move.
Still(q) ==
  /\ pc'[q] = pc[q] /\ todo'[q] = todo[q] /\ pid'[q] = pid[q]
  /\ target'[q] = target[q] /\ had'[q] = had[q]

\* Process p goes to place a; a lock is held in the places it is for.
Turn(p, a) ==
  /\ ProcessTypes' /\ pc'[p] = a /\ a \in Places
  /\ \A q \in Servers \ {p} : Still(q)
  /\ lock' = (IF a \in Structuring THEN p ELSE Unlocked(p))
  /\ a \in Structuring /\ pc[p] \notin Structuring => lock = Nobody
  /\ dlock' = (IF a \in Fetching THEN p ELSE IF dlock = p THEN Nobody ELSE dlock)
  /\ a \in Fetching /\ pc[p] \notin Fetching => dlock = Nobody

\* The volume keeps what is as pinned.
Gentle ==
  /\ subject' = subject /\ pin' = pin
  /\ \A f \in AllFiles : Verified(f) => file'[f] = pin
  /\ file["int8"] \in {Absent, pin} => file'["int8"] \in {Absent, pin}
  /\ subject = "stt" => marker' = marker \/ marker' = [of |-> pin, out |-> file["tokens"]]

\* What process q wrote is not touched.
Spared(q) ==
  /\ pc[q] \in {"rename", "fetched"} =>
       temp'[<<Head(todo[q]), pid[q]>>] = temp[<<Head(todo[q]), pid[q]>>]
  /\ pc[q] \in {"rename", "wrong"} => file'["q4"] = file["q4"]

LEMMA LocksTurn ==
  ASSUME LockTypes, NEW p \in Servers, NEW a, Turn(p, a)
  PROVE  LockTypes'
<1>1. \A q \in Servers \ {p} : pc'[q] = pc[q]
  BY DEF Turn, Still
<1>2. pc'[p] = a /\ lock' = (IF a \in Structuring THEN p ELSE Unlocked(p))
      /\ (a \in Structuring /\ pc[p] \notin Structuring => lock = Nobody)
      /\ dlock' = (IF a \in Fetching THEN p ELSE IF dlock = p THEN Nobody ELSE dlock)
      /\ (a \in Fetching /\ pc[p] \notin Fetching => dlock = Nobody)
  BY DEF Turn
<1>3. Nobody \notin Servers
  BY Marks
<1>4. ASSUME NEW q \in Servers
      PROVE  (lock' = q) <=> pc'[q] \in Structuring
  <2>0. ((lock = p) <=> pc[p] \in Structuring) /\ ((lock = q) <=> pc[q] \in Structuring)
    BY DEF LockTypes
  <2>1. CASE q = p
    BY <1>2, <1>3, <2>0, <2>1 DEF Unlocked
  <2>2. CASE q # p
    BY <1>1, <1>2, <1>3, <2>0, <2>2 DEF Unlocked
  <2> QED BY <2>1, <2>2
<1>5. ASSUME NEW q \in Servers
      PROVE  (dlock' = q) <=> pc'[q] \in Fetching
  <2>0. ((dlock = p) <=> pc[p] \in Fetching) /\ ((dlock = q) <=> pc[q] \in Fetching)
    BY DEF LockTypes
  <2>1. CASE q = p
    BY <1>2, <1>3, <2>0, <2>1
  <2>2. CASE q # p
    BY <1>1, <1>2, <1>3, <2>0, <2>2
  <2> QED BY <2>1, <2>2
<1> QED BY <1>4, <1>5 DEF LockTypes

\* A ZeroTTS model that is there stays there.
LEMMA CandidateStays ==
  ASSUME Gentle, NEW q \in Quants, _verify_existing_zerotts_candidate(q)
  PROVE  _verify_existing_zerotts_candidate(q)'
<1>1. q \in AllFiles /\ "core" \in AllFiles /\ "voice" \in AllFiles
  BY DEF Quants, AllFiles
<1>2. file'[q] = pin /\ file'["core"] = pin /\ file'["voice"] = pin /\ pin' = pin
      /\ file'["int8"] \in {Absent, pin}
  BY <1>1 DEF Gentle, _verify_existing_zerotts_candidate, _verify_candidate_artifacts, Verified
<1> QED BY <1>2 DEF _verify_existing_zerotts_candidate, _verify_candidate_artifacts, Verified

\* What makes a model usable stays.
LEMMA UsableStays ==
  ASSUME DiskTypes, MarkerInv, Gentle, Usable
  PROVE  Usable'
<1>1. CASE subject = "stt"
  <2>1. _stt_layout_ready
    BY <1>1 DEF Usable
  <2>2. /\ marker = [of |-> pin, out |-> file["tokens"]] /\ file["tokens"] # Absent /\ Verified("graph")
    BY <2>1 DEF _stt_layout_ready, TokensReady
  <2>3. Verified("tokens")
    <3>1. marker.of = pin /\ marker.out = file["tokens"] /\ marker.of = marker.out
      BY <1>1, <2>2 DEF MarkerInv
    <3> QED BY <3>1 DEF Verified
  <2>4. "graph" \in AllFiles /\ "tokens" \in AllFiles
    BY DEF AllFiles
  <2>5. file'["graph"] = pin /\ file'["tokens"] = pin /\ pin' = pin /\ subject' = "stt"
    BY <1>1, <2>2, <2>3, <2>4 DEF Gentle
  <2>6. marker' = [of |-> pin, out |-> pin]
    BY <1>1, <2>2, <2>3 DEF Gentle, Verified
  <2>7. pin # Absent
    BY Marks DEF DiskTypes
  <2>8. _stt_layout_ready'
    BY <2>5, <2>6, <2>7 DEF _stt_layout_ready, TokensReady, Verified
  <2> QED BY <2>5, <2>8 DEF Usable
<1>2. CASE subject = "zero"
  <2>1. PICK q \in Quants : _verify_existing_zerotts_candidate(q)
    BY <1>2 DEF Usable
  <2>2. _verify_existing_zerotts_candidate(q)'
    BY <2>1, CandidateStays
  <2>3. subject' = "zero"
    BY <1>2 DEF Gentle
  <2> QED BY <2>2, <2>3 DEF Usable
<1>3. CASE subject = "nghi"
  BY <1>3 DEF Usable
<1> QED BY <1>1, <1>2, <1>3 DEF DiskTypes

\* The others keep what they rely on.
LEMMA OthersKeep ==
  ASSUME DiskTypes, MarkerInv, Gentle, NEW q \in Servers, target[q] \in Quants, ServerInv(q), Still(q), Spared(q)
  PROVE  ServerInv(q)'
<1>1. pc'[q] = pc[q] /\ todo'[q] = todo[q] /\ pid'[q] = pid[q] /\ target'[q] = target[q]
      /\ had'[q] = had[q] /\ subject' = subject /\ pin' = pin
  BY DEF Still, Gentle
<1>2. OrderInv(q)'
  <2>1. StructureOrder(q)' = StructureOrder(q)
    BY <1>1 DEF StructureOrder
  <2> QED BY <1>1, <2>1 DEF ServerInv, OrderInv
<1>3. PlacedInv(q)'
  <2>1. Installed(q)' = Installed(q)
    BY <1>1 DEF Installed
  <2>2. Installed(q) \subseteq AllFiles
    BY DEF Installed, AllFiles, Quants, DiskTypes
  <2>3. ASSUME NEW f \in Installed(q)
        PROVE  file'[f] = pin
    BY <2>2 DEF ServerInv, PlacedInv, Gentle
  <2>4. \A f \in Installed(q)' : Verified(f)'
    BY <1>1, <2>1, <2>3 DEF Verified
  <2>5. pc'[q] = "ready" /\ subject' = "zero" => file'["int8"] \in {Absent, pin'}
    BY <1>1 DEF ServerInv, PlacedInv, Gentle
  <2> QED BY <2>4, <2>5 DEF PlacedInv
<1>4. WrittenInv(q)'
  <2>1. WrittenInv(q)
    BY DEF ServerInv
  <2> QED BY <1>1, <2>1 DEF WrittenInv, Spared, Verified
<1>5. HadInv(q)'
  <2>1. had[q] => Usable
    BY DEF ServerInv, HadInv
  <2>2. had[q] => Usable'
    BY <2>1, UsableStays
  <2> QED BY <1>1, <2>2 DEF ServerInv, HadInv
<1> QED BY <1>2, <1>3, <1>4, <1>5 DEF ServerInv

\* What is left to show of a step.
LEMMA TurnKeeps ==
  ASSUME StoreInv, NEW p \in Servers, NEW a, Turn(p, a), Gentle, DiskTypes', MarkerInv', ServerInv(p)',
         \A q \in Servers \ {p} : Spared(q)
  PROVE  StoreInv'
<1>1. DiskTypes /\ ProcessTypes /\ LockTypes /\ MarkerInv /\ \A q \in Servers : ServerInv(q)
  BY TypesAre DEF StoreInv
<1>2. LockTypes'
  BY <1>1, LocksTurn
<1>3. ProcessTypes' /\ \A q \in Servers \ {p} : Still(q)
  BY DEF Turn
<1>4. TypeInv'
  BY <1>2, <1>3, TypesNext
<1>5. ASSUME NEW q \in Servers
      PROVE  ServerInv(q)'
  <2>1. CASE q = p
    BY <2>1
  <2>2. CASE q # p
    <3>1. target[q] \in Quants
      BY <1>1 DEF ProcessTypes
    <3> QED BY <1>1, <1>3, <2>2, <3>1, OthersKeep
  <2> QED BY <2>1, <2>2
<1> QED BY <1>4, <1>5 DEF StoreInv

\* A step that leaves the volume alone.
LEMMA QuietKeeps ==
  ASSUME StoreInv, NEW p \in Servers, NEW a, Turn(p, a), UNCHANGED <<site, disk>>, ServerInv(p)'
  PROVE  StoreInv' /\ Gentle
<1>1. UNCHANGED <<subject, pin, file, marker, temp, snap>>
  BY DEF site, disk
<1>2. DiskTypes /\ MarkerInv
  BY TypesAre DEF StoreInv
<1>3. DiskTypes' /\ MarkerInv'
  BY <1>1, <1>2 DEF DiskTypes, MarkerInv
<1>4. Gentle
  BY <1>1 DEF Gentle, Verified
<1>5. \A q \in Servers \ {p} : Spared(q)
  BY <1>1 DEF Spared
<1> QED BY <1>3, <1>4, <1>5, TurnKeeps

--------------------------------------------------------------------------------
(* A process on its own.                                                   *)

\* f changes at p alone, to v.
Sets(g, f, p, v) == g = [f EXCEPT ![p] = v]

\* A process moves on: what it sets, and what it may hold from now on.
LEMMA TurnMakes ==
  ASSUME ProcessTypes, LockTypes, NEW p \in Servers, NEW a \in Places,
         NEW b \in Seq(AllFiles \cup {"marker"}), NEW c \in Pids, NEW d \in Quants, NEW e \in BOOLEAN,
         Sets(pc', pc, p, a), Sets(todo', todo, p, b), Sets(pid', pid, p, c),
         Sets(target', target, p, d), Sets(had', had, p, e),
         \/ lock' = lock /\ (a \in Structuring <=> pc[p] \in Structuring)
         \/ lock = Nobody /\ lock' = p /\ a \in Structuring
         \/ lock' = Unlocked(p) /\ a \notin Structuring,
         \/ dlock' = dlock /\ (a \in Fetching <=> pc[p] \in Fetching)
         \/ dlock = Nobody /\ dlock' = p /\ a \in Fetching
         \/ dlock' = (IF dlock = p THEN Nobody ELSE dlock) /\ a \notin Fetching
  PROVE  /\ Turn(p, a) /\ pc'[p] = a /\ todo'[p] = b /\ pid'[p] = c /\ target'[p] = d /\ had'[p] = e
<1>1. /\ pc \in [Servers -> Places] /\ pid \in [Servers -> Pids] /\ target \in [Servers -> Quants]
      /\ had \in [Servers -> BOOLEAN] /\ todo \in [Servers -> Seq(AllFiles \cup {"marker"})]
  BY DEF ProcessTypes
<1>2. pc' \in [Servers -> Places] /\ pc'[p] = a /\ \A q \in Servers \ {p} : pc'[q] = pc[q]
  BY <1>1 DEF Sets
<1>3. todo' \in [Servers -> Seq(AllFiles \cup {"marker"})] /\ todo'[p] = b
      /\ \A q \in Servers \ {p} : todo'[q] = todo[q]
  BY <1>1 DEF Sets
<1>4. pid' \in [Servers -> Pids] /\ pid'[p] = c /\ \A q \in Servers \ {p} : pid'[q] = pid[q]
  BY <1>1 DEF Sets
<1>5. target' \in [Servers -> Quants] /\ target'[p] = d /\ \A q \in Servers \ {p} : target'[q] = target[q]
  BY <1>1 DEF Sets
<1>6. had' \in [Servers -> BOOLEAN] /\ had'[p] = e /\ \A q \in Servers \ {p} : had'[q] = had[q]
  BY <1>1 DEF Sets
<1>7. ProcessTypes' /\ \A q \in Servers \ {p} : Still(q)
  BY <1>2, <1>3, <1>4, <1>5, <1>6 DEF ProcessTypes, Still
<1>8. ((lock = p) <=> pc[p] \in Structuring) /\ ((dlock = p) <=> pc[p] \in Fetching)
  BY DEF LockTypes
<1>9. /\ lock' = (IF a \in Structuring THEN p ELSE Unlocked(p))
      /\ a \in Structuring /\ pc[p] \notin Structuring => lock = Nobody
  BY <1>8 DEF Unlocked
<1>10. /\ dlock' = (IF a \in Fetching THEN p ELSE IF dlock = p THEN Nobody ELSE dlock)
       /\ a \in Fetching /\ pc[p] \notin Fetching => dlock = Nobody
  BY <1>8
<1> QED BY <1>2, <1>3, <1>4, <1>5, <1>6, <1>7, <1>9, <1>10 DEF Turn

\* In these places a process relies on nothing yet, or no more.
Resting == {"off", "sweep", "look", "sync", "fallback", "fetch", "failed"}

LEMMA RestingHolds ==
  ASSUME NEW p \in Servers, pc'[p] \in Resting, HadInv(p)',
         pc'[p] = "fallback" => subject' = "zero",
         pc'[p] = "sync" => subject' # "nghi",
         pc'[p] = "fetch" => subject' = "nghi" /\ todo'[p] = <<"source", "config">>,
         subject' # "zero" => target'[p] = "q8"
  PROVE  ServerInv(p)'
<1>1. OrderInv(p)'
  BY DEF OrderInv, Resting
<1>2. Installed(p)' = {}
  BY DEF Installed, Resting
<1>3. PlacedInv(p)' /\ WrittenInv(p)'
  BY <1>2 DEF PlacedInv, WrittenInv, Resting
<1> QED BY <1>1, <1>3 DEF ServerInv

\* What is had is kept, unless the process gives it up.
LEMMA HadKept ==
  ASSUME DiskTypes, MarkerInv, Gentle, NEW p \in Servers, HadInv(p), had'[p] => had[p],
         had'[p] => pc'[p] \notin {"off", "failed"},
         had'[p] /\ subject = "stt" => pc'[p] \in {"sweep", "look", "ready"}
  PROVE  HadInv(p)'
<1>1. had'[p] => Usable
  BY DEF HadInv
<1>2. had'[p] => Usable'
  BY <1>1, UsableStays
<1>3. subject' = subject
  BY DEF Gentle
<1> QED BY <1>2, <1>3 DEF HadInv

\* A step that leaves the volume alone leaves what is usable alone.
LEMMA QuietHad ==
  ASSUME UNCHANGED <<site, disk>>
  PROVE  Usable' = Usable /\ subject' = subject
BY DEF site, disk, Usable, _stt_layout_ready, TokensReady, Verified, _verify_existing_zerotts_candidate,
       _verify_candidate_artifacts

LEMMA Unset ==
  ASSUME ProcessTypes, NEW p \in Servers
  PROVE  /\ Sets(pid, pid, p, pid[p]) /\ Sets(target, target, p, target[p]) /\ Sets(had, had, p, had[p])
         /\ Sets(todo, todo, p, todo[p])
         /\ pid[p] \in Pids /\ target[p] \in Quants /\ had[p] \in BOOLEAN /\ pc[p] \in Places
         /\ todo[p] \in Seq(AllFiles \cup {"marker"})
BY DEF ProcessTypes, Sets

\* A process goes on with its work.
LEMMA TurnTo ==
  ASSUME ProcessTypes, LockTypes, NEW p \in Servers, NEW a \in Places,
         NEW b \in Seq(AllFiles \cup {"marker"}),
         Sets(pc', pc, p, a), Sets(todo', todo, p, b), UNCHANGED <<pid, target, had>>,
         \/ lock' = lock /\ (a \in Structuring <=> pc[p] \in Structuring)
         \/ lock = Nobody /\ lock' = p /\ a \in Structuring
         \/ lock' = Unlocked(p) /\ a \notin Structuring,
         \/ dlock' = dlock /\ (a \in Fetching <=> pc[p] \in Fetching)
         \/ dlock = Nobody /\ dlock' = p /\ a \in Fetching
         \/ dlock' = (IF dlock = p THEN Nobody ELSE dlock) /\ a \notin Fetching
  PROVE  /\ Turn(p, a) /\ pc'[p] = a /\ todo'[p] = b
         /\ pid'[p] = pid[p] /\ target'[p] = target[p] /\ had'[p] = had[p]
<1>1. /\ Sets(pid', pid, p, pid[p]) /\ Sets(target', target, p, target[p]) /\ Sets(had', had, p, had[p])
      /\ pid[p] \in Pids /\ target[p] \in Quants /\ had[p] \in BOOLEAN
  BY Unset
<1> QED BY <1>1, TurnMakes

\* What is known of a process before it moves.
LEMMA Before ==
  ASSUME StoreInv, NEW p \in Servers
  PROVE  /\ DiskTypes /\ ProcessTypes /\ LockTypes /\ MarkerInv
         /\ OrderInv(p) /\ PlacedInv(p) /\ WrittenInv(p) /\ HadInv(p)
         /\ pid[p] \in Pids /\ target[p] \in Quants /\ had[p] \in BOOLEAN /\ pc[p] \in Places
         /\ todo[p] \in Seq(AllFiles \cup {"marker"})
         /\ (lock = p) <=> pc[p] \in Structuring
         /\ (dlock = p) <=> pc[p] \in Fetching
         /\ subject \in {"stt", "zero", "nghi"} /\ pin \in Versions /\ pin # Absent /\ pin # Bad
<1>1. DiskTypes /\ ProcessTypes /\ LockTypes /\ MarkerInv /\ ServerInv(p)
  BY TypesAre DEF StoreInv
<1>2. pin \in Versions /\ pin # Absent /\ pin # Bad
  BY <1>1, Marks DEF DiskTypes
<1> QED BY <1>1, <1>2, Unset DEF ServerInv, LockTypes, DiskTypes

--------------------------------------------------------------------------------
(* A start, before it puts anything in place.                              *)

LEMMA StartKeeps ==
  ASSUME StoreInv, NEW p \in Servers, download_models(p)
  PROVE  StoreInv' /\ Gentle
<1>1. /\ DiskTypes /\ ProcessTypes /\ LockTypes /\ MarkerInv /\ subject \in {"stt", "zero", "nghi"}
  BY Before
<1>2. /\ pc[p] = "off" /\ pc' = [pc EXCEPT ![p] = "sweep"] /\ UNCHANGED <<site, disk, lock, dlock, todo>>
      /\ had' = [had EXCEPT ![p] = Usable]
  BY DEF download_models, To
<1>3. PICK c \in Pids : pid' = [pid EXCEPT ![p] = c]
  BY DEF download_models
<1>4. \E d \in Quants : Sets(target', target, p, d)
  <2>1. CASE subject = "zero"
    BY <2>1 DEF download_models, Sets
  <2>2. CASE subject # "zero"
    BY <1>1, <2>2, Unset DEF download_models
  <2> QED BY <2>1, <2>2
<1>5. PICK d \in Quants : Sets(target', target, p, d)
  BY <1>4
<1>6. /\ Sets(pc', pc, p, "sweep") /\ Sets(pid', pid, p, c) /\ Sets(had', had, p, Usable)
      /\ Sets(todo', todo, p, todo[p]) /\ todo[p] \in Seq(AllFiles \cup {"marker"})
  BY <1>1, <1>2, <1>3, Unset DEF Sets
<1>7. Usable \in BOOLEAN
  BY <1>1 DEF Usable, _stt_layout_ready, TokensReady, _verify_existing_zerotts_candidate
<1>8. "sweep" \in Places /\ "sweep" \notin Structuring /\ "sweep" \notin Fetching /\ pc[p] \notin Structuring
      /\ pc[p] \notin Fetching
  BY <1>2 DEF Places, Structuring, Fetching
<1>9. Turn(p, "sweep") /\ pc'[p] = "sweep" /\ had'[p] = Usable
  BY <1>1, <1>2, <1>5, <1>6, <1>7, <1>8, TurnMakes
<1>10. HadInv(p)'
  <2>1. Usable' = Usable
    BY <1>2, QuietHad
  <2>2. had'[p] => Usable'
    BY <1>9, <2>1
  <2> QED BY <1>9, <2>2 DEF HadInv
<1>11. ServerInv(p)'
  <2>1. subject' # "zero" => target'[p] = "q8"
    <3>1. subject # "zero" => target[p] = "q8" /\ target' = target
      BY Before DEF OrderInv, download_models
    <3>2. subject' = subject
      BY <1>2 DEF site
    <3> QED BY <3>1, <3>2
  <2> QED BY <1>9, <1>10, <2>1, RestingHolds DEF Resting
<1> QED BY <1>2, <1>9, <1>11, QuietKeeps

\* The failure of a start that had nothing to rely on, or that still has its fallback.
LEMMA GivesUp ==
  ASSUME DiskTypes, MarkerInv, Gentle, NEW p \in Servers, HadInv(p), pc'[p] \in {"failed", "fallback"},
         had'[p] => had[p], pc'[p] = "fallback" => subject = "zero",
         had'[p] => pc'[p] = "fallback", OrderInv(p), target'[p] = target[p]
  PROVE  ServerInv(p)'
<1>1. subject' = subject
  BY DEF Gentle
<1>2. had'[p] => subject # "stt"
  OBVIOUS
<1>3. HadInv(p)'
  BY <1>2, HadKept
<1>4. subject' # "zero" => target'[p] = "q8"
  BY <1>1 DEF OrderInv
<1> QED BY <1>1, <1>3, <1>4, RestingHolds DEF Resting

LEMMA LookReadyKeeps ==
  ASSUME StoreInv, NEW p \in Servers, LookReady(p)
  PROVE  StoreInv' /\ Gentle
<1>1. /\ DiskTypes /\ ProcessTypes /\ LockTypes /\ MarkerInv /\ HadInv(p) /\ OrderInv(p) /\ target[p] \in Quants
      /\ subject \in {"stt", "zero", "nghi"}
      /\ todo[p] \in Seq(AllFiles \cup {"marker"}) /\ Sets(todo, todo, p, todo[p])
      /\ pin # Absent
  BY Before, Unset
<1>2. /\ pc[p] = "look" /\ UNCHANGED <<site, disk, lock, dlock, pid, target, had, left>>
      /\ IF subject = "stt" THEN _stt_layout_ready
                            ELSE subject = "zero" /\ _verify_existing_zerotts_candidate(target[p])
  BY DEF LookReady
<1>3. /\ pc[p] \notin Structuring /\ pc[p] \notin Fetching /\ "lock" \notin Structuring /\ "lock" \notin Fetching
      /\ "ready" \notin Structuring /\ "ready" \notin Fetching /\ "lock" \in Places /\ "ready" \in Places
  BY <1>2 DEF Places, Structuring, Fetching
<1>4. /\ Usable' = Usable /\ UNCHANGED <<subject, pin, file, marker, temp, snap>>
  BY <1>2, QuietHad DEF site, disk
<1>5. CASE target[p] = "q4" /\ file["int8"] = Absent
  <2>1. pc' = [pc EXCEPT ![p] = "lock"] /\ todo' = [todo EXCEPT ![p] = <<"int8">>]
    BY <1>5 DEF LookReady, To, Todo
  <2>2. <<"int8">> \in Seq(AllFiles \cup {"marker"})
    BY DEF AllFiles
  <2>3. Turn(p, "lock") /\ pc'[p] = "lock" /\ todo'[p] = <<"int8">> /\ target'[p] = target[p] /\ had'[p] = had[p]
    <3>1. Sets(pc', pc, p, "lock") /\ Sets(todo', todo, p, <<"int8">>)
      BY <2>1 DEF Sets
    <3> QED BY <1>1, <1>2, <1>3, <2>2, <3>1, TurnTo
  <2>4. subject = "zero"
    BY <1>1, <1>2, <1>5 DEF OrderInv
  <2>5. HadInv(p)'
    BY <1>1, <1>4, <2>3, <2>4 DEF HadInv
  <2>6. OrderInv(p)'
    BY <1>4, <2>3, <2>4 DEF OrderInv
  <2>7. PlacedInv(p)'
    <3>1. Range(<<"int8">>) = {"int8"}
      BY DEF Range
    <3>2. Installed(p)' \subseteq {"core", target[p], "voice"}
      BY <1>4, <2>3, <2>4, <3>1 DEF Installed
    <3>3. Verified("core") /\ Verified(target[p]) /\ Verified("voice")
      BY <1>2, <2>4 DEF _verify_existing_zerotts_candidate, _verify_candidate_artifacts
    <3> QED BY <1>4, <2>3, <3>2, <3>3 DEF PlacedInv, Verified
  <2>8. WrittenInv(p)'
    BY <2>3 DEF WrittenInv
  <2>9. ServerInv(p)'
    BY <2>5, <2>6, <2>7, <2>8 DEF ServerInv
  <2> QED BY <1>2, <2>3, <2>9, QuietKeeps
<1>6. CASE ~(target[p] = "q4" /\ file["int8"] = Absent)
  <2>1. pc' = [pc EXCEPT ![p] = "ready"] /\ todo' = todo
    BY <1>6 DEF LookReady, To
  <2>3. Turn(p, "ready") /\ pc'[p] = "ready" /\ target'[p] = target[p] /\ had'[p] = had[p]
    <3>1. Sets(pc', pc, p, "ready") /\ Sets(todo', todo, p, todo[p])
      BY <1>1, <2>1 DEF Sets
    <3> QED BY <1>1, <1>2, <1>3, <3>1, TurnTo
  <2>5. HadInv(p)'
    BY <1>1, <1>4, <2>3 DEF HadInv
  <2>6. OrderInv(p)'
    BY <1>1, <1>4, <2>3 DEF OrderInv
  <2>7. PlacedInv(p)'
    <3>1. CASE subject = "stt"
      <4>1. Verified("graph") /\ marker = [of |-> pin, out |-> file["tokens"]]
        BY <1>2, <3>1 DEF _stt_layout_ready, TokensReady
      <4>2. Verified("tokens")
        <5>1. marker.of = pin /\ marker.out = file["tokens"] /\ marker.of = marker.out
          BY <1>1, <3>1, <4>1 DEF MarkerInv
        <5> QED BY <5>1 DEF Verified
      <4>3. Installed(p)' \subseteq {"graph", "tokens"}
        BY <1>4, <2>3, <3>1 DEF Installed
      <4> QED BY <1>4, <2>3, <3>1, <4>1, <4>2, <4>3 DEF PlacedInv, Verified
    <3>2. CASE subject # "stt"
      <4>1. Verified("core") /\ Verified(target[p]) /\ Verified("voice") /\ file["int8"] \in {Absent, pin}
        BY <1>2, <3>2 DEF _verify_existing_zerotts_candidate, _verify_candidate_artifacts
      <4>2. Installed(p)' \subseteq {"core", target[p], "voice"}
        BY <1>2, <1>4, <2>3, <3>2 DEF Installed
      <4> QED BY <1>4, <2>3, <4>1, <4>2 DEF PlacedInv, Verified
    <3> QED BY <3>1, <3>2
  <2>8. WrittenInv(p)'
    BY <2>3 DEF WrittenInv
  <2>9. ServerInv(p)'
    BY <2>5, <2>6, <2>7, <2>8 DEF ServerInv
  <2> QED BY <1>2, <2>3, <2>9, QuietKeeps
<1> QED BY <1>5, <1>6

LEMMA LookMissingKeeps ==
  ASSUME StoreInv, NEW p \in Servers, LookMissing(p)
  PROVE  StoreInv' /\ Gentle
<1>1. /\ DiskTypes /\ ProcessTypes /\ LockTypes /\ MarkerInv /\ HadInv(p) /\ OrderInv(p)
      /\ subject \in {"stt", "zero", "nghi"}
      /\ todo[p] \in Seq(AllFiles \cup {"marker"}) /\ Sets(todo, todo, p, todo[p])
  BY Before, Unset
<1>2. /\ pc[p] = "look" /\ UNCHANGED <<site, disk, lock, dlock, pid, target, had, left>>
  BY DEF LookMissing
<1>3. /\ pc[p] \notin Structuring /\ pc[p] \notin Fetching /\ "sync" \notin Structuring /\ "sync" \notin Fetching
      /\ "fetch" \notin Structuring /\ "fetch" \notin Fetching /\ "sync" \in Places /\ "fetch" \in Places
  BY <1>2 DEF Places, Structuring, Fetching
<1>4. /\ Usable' = Usable /\ UNCHANGED <<subject, pin, file, marker, temp, snap>>
  BY <1>2, QuietHad DEF site, disk
<1>5. CASE subject = "nghi"
  <2>1. pc' = [pc EXCEPT ![p] = "fetch"] /\ todo' = [todo EXCEPT ![p] = <<"source", "config">>]
    BY <1>5 DEF LookMissing, To, Todo
  <2>2. <<"source", "config">> \in Seq(AllFiles \cup {"marker"})
    BY DEF AllFiles
  <2>3. Turn(p, "fetch") /\ pc'[p] = "fetch" /\ todo'[p] = <<"source", "config">> /\ target'[p] = target[p]
        /\ had'[p] = had[p]
    <3>1. Sets(pc', pc, p, "fetch") /\ Sets(todo', todo, p, <<"source", "config">>)
      BY <2>1 DEF Sets
    <3> QED BY <1>1, <1>2, <1>3, <2>2, <3>1, TurnTo
  <2>4. HadInv(p)'
    BY <1>1, <1>4, <1>5, <2>3 DEF HadInv
  <2>5. ServerInv(p)'
    BY <1>1, <1>4, <1>5, <2>3, <2>4, RestingHolds DEF Resting, OrderInv
  <2> QED BY <1>2, <2>3, <2>5, QuietKeeps
<1>6. CASE subject # "nghi"
  <2>1. pc' = [pc EXCEPT ![p] = "sync"] /\ todo' = todo /\ (subject = "stt" => ~_stt_layout_ready)
    BY <1>1, <1>6 DEF LookMissing, To
  <2>3. Turn(p, "sync") /\ pc'[p] = "sync" /\ target'[p] = target[p] /\ had'[p] = had[p]
    <3>1. Sets(pc', pc, p, "sync") /\ Sets(todo', todo, p, todo[p])
      BY <1>1, <2>1 DEF Sets
    <3> QED BY <1>1, <1>2, <1>3, <3>1, TurnTo
  <2>4. HadInv(p)'
    <3>1. subject = "stt" => ~Usable
      BY <2>1 DEF Usable
    <3> QED BY <1>1, <1>4, <2>3, <3>1 DEF HadInv
  <2>5. ServerInv(p)'
    BY <1>1, <1>4, <1>6, <2>3, <2>4, RestingHolds DEF Resting, OrderInv
  <2> QED BY <1>2, <2>3, <2>5, QuietKeeps
<1> QED BY <1>5, <1>6

\* A failure: fallback for the installation of a ZeroTTS model, the end otherwise.
LEMMA RaisedTurns ==
  ASSUME ProcessTypes, LockTypes, NEW p \in Servers, NEW e \in BOOLEAN, Raised(p), Sets(had', had, p, e),
         UNCHANGED <<todo, pid, target, dlock>>, pc[p] \notin Fetching, lock' = Unlocked(p)
  PROVE  /\ Turn(p, "failed") \/ Turn(p, "fallback")
         /\ pc'[p] = (IF subject = "zero" /\ (pc[p] = "sync" \/ "voice" \in Range(todo[p]))
                      THEN "fallback" ELSE "failed")
         /\ target'[p] = target[p] /\ had'[p] = e
<1> DEFINE a == IF subject = "zero" /\ (pc[p] = "sync" \/ "voice" \in Range(todo[p]))
                THEN "fallback" ELSE "failed"
<1>1. Sets(pc', pc, p, a)
  BY DEF Raised, To, Sets
<1>2. /\ Sets(todo', todo, p, todo[p]) /\ todo[p] \in Seq(AllFiles \cup {"marker"})
      /\ Sets(pid', pid, p, pid[p]) /\ Sets(target', target, p, target[p]) /\ pid[p] \in Pids /\ target[p] \in Quants
  BY Unset
<1>3. a \in Places /\ a \notin Structuring /\ a \notin Fetching /\ a \in {"failed", "fallback"}
  BY DEF Places, Structuring, Fetching
<1> HIDE DEF a
<1>4. Turn(p, a) /\ pc'[p] = a /\ target'[p] = target[p] /\ had'[p] = e
  BY <1>1, <1>2, <1>3, TurnMakes
<1> QED BY <1>3, <1>4 DEF a

LEMMA SyncFailsKeeps ==
  ASSUME StoreInv, NEW p \in Servers, SyncFails(p)
  PROVE  StoreInv' /\ Gentle
<1>1. /\ DiskTypes /\ ProcessTypes /\ LockTypes /\ MarkerInv /\ HadInv(p) /\ OrderInv(p)
      /\ (lock = p) <=> pc[p] \in Structuring
      /\ had[p] \in BOOLEAN /\ Sets(had, had, p, had[p])
  BY Before, Unset
<1>2. /\ pc[p] = "sync" /\ UNCHANGED <<site, disk, lock, dlock, pid, todo, target, had, left>>
      /\ Raised(p)
  BY DEF SyncFails
<1>3. pc[p] \notin Structuring /\ pc[p] \notin Fetching
  BY <1>2 DEF Structuring, Fetching
<1>4. lock' = Unlocked(p)
  BY <1>1, <1>2, <1>3 DEF Unlocked
<1>5. /\ Turn(p, "failed") \/ Turn(p, "fallback")
      /\ pc'[p] = (IF subject = "zero" /\ (pc[p] = "sync" \/ "voice" \in Range(todo[p]))
                   THEN "fallback" ELSE "failed")
      /\ target'[p] = target[p] /\ had'[p] = had[p]
  BY <1>1, <1>2, <1>3, <1>4, RaisedTurns
<1>6. Gentle
  <2>1. UNCHANGED <<subject, pin, file, marker, temp, snap>>
    BY <1>2 DEF site, disk
  <2> QED BY <2>1 DEF Gentle, Verified
<1>7. had'[p] => pc'[p] = "fallback"
  BY <1>1, <1>2, <1>5 DEF HadInv, Usable, DiskTypes
<1>8. ServerInv(p)'
  BY <1>1, <1>5, <1>6, <1>7, GivesUp
<1> QED BY <1>2, <1>5, <1>8, QuietKeeps

LEMMA FallbackKeeps ==
  ASSUME StoreInv, NEW p \in Servers, Fallback(p)
  PROVE  StoreInv' /\ Gentle
<1>1. /\ DiskTypes /\ ProcessTypes /\ LockTypes /\ MarkerInv /\ HadInv(p) /\ OrderInv(p)
      /\ target[p] \in Quants /\ subject \in {"stt", "zero", "nghi"}
      /\ pid[p] \in Pids /\ had[p] \in BOOLEAN /\ Sets(pid, pid, p, pid[p]) /\ Sets(had, had, p, had[p])
      /\ Sets(target, target, p, target[p])
      /\ todo[p] \in Seq(AllFiles \cup {"marker"}) /\ Sets(todo, todo, p, todo[p])
  BY Before, Unset
<1>2. /\ pc[p] = "fallback" /\ UNCHANGED <<site, disk, lock, dlock, pid, todo, had, left>>
  BY DEF Fallback
<1>3. /\ pc[p] \notin Structuring /\ pc[p] \notin Fetching /\ "failed" \notin Structuring /\ "failed" \notin Fetching
      /\ "ready" \notin Structuring /\ "ready" \notin Fetching /\ "failed" \in Places /\ "ready" \in Places
  BY <1>2 DEF Places, Structuring, Fetching
<1>4. /\ Usable' = Usable /\ UNCHANGED <<subject, pin, file, marker, temp, snap>>
  BY <1>2, QuietHad DEF site, disk
<1>5. subject = "zero"
  BY <1>1, <1>2 DEF OrderInv
<1> DEFINE fit == {i \in 1..3 : _verify_existing_zerotts_candidate(Candidates(p)[i])}
<1>6. CASE fit = {}
  <2>1. pc' = [pc EXCEPT ![p] = "failed"] /\ target' = target
    BY <1>6 DEF Fallback, To
  <2>2. Turn(p, "failed") /\ pc'[p] = "failed" /\ target'[p] = target[p] /\ had'[p] = had[p]
    <3>1. Sets(pc', pc, p, "failed") /\ Sets(todo', todo, p, todo[p])
      BY <1>1, <1>2, <2>1 DEF Sets
    <3> QED BY <1>1, <1>2, <1>3, <2>1, <3>1, TurnTo
  <2>3. ~Usable
    <3>1. \A q \in Quants : ~_verify_existing_zerotts_candidate(q)
      <4>1. 2 \in 1..3 /\ 3 \in 1..3 /\ Candidates(p)[2] = "q4" /\ Candidates(p)[3] = "q8"
        BY DEF Candidates
      <4>2. ~_verify_existing_zerotts_candidate("q4") /\ ~_verify_existing_zerotts_candidate("q8")
        BY <1>6, <4>1
      <4> QED BY <4>2 DEF Quants
    <3> QED BY <1>5, <3>1 DEF Usable
  <2>4. HadInv(p)'
    BY <1>1, <2>2, <2>3 DEF HadInv
  <2>5. ServerInv(p)'
    BY <1>4, <1>5, <2>2, <2>4, RestingHolds DEF Resting
  <2> QED BY <1>2, <2>2, <2>5, QuietKeeps
<1>7. CASE fit # {}
  <2> DEFINE k == CHOOSE i \in fit : \A j \in fit : i <= j
             d == Candidates(p)[k]
  <2>1. pc' = [pc EXCEPT ![p] = "ready"] /\ target' = [target EXCEPT ![p] = d]
    BY <1>7 DEF Fallback, To
  <2>2. k \in fit
    <3>1. \E i \in fit : \A j \in fit : i <= j
      <4>1. fit \subseteq 1..3
        OBVIOUS
      <4> HIDE DEF fit
      <4>2. \A i \in fit : i = 1 \/ i = 2 \/ i = 3
        BY <4>1
      <4>3. CASE 1 \in fit
        BY <4>2, <4>3
      <4>4. CASE 1 \notin fit /\ 2 \in fit
        BY <4>2, <4>4
      <4>5. CASE 1 \notin fit /\ 2 \notin fit
        BY <1>7, <4>2, <4>5
      <4> QED BY <4>3, <4>4, <4>5
    <3> HIDE DEF fit
    <3> QED BY <3>1
  <2>3. _verify_existing_zerotts_candidate(d) /\ k \in 1..3
    BY <2>2
  <2>4. d \in Quants
    <3>1. Candidates(p)[1] = target[p] /\ Candidates(p)[2] = "q4" /\ Candidates(p)[3] = "q8"
      BY DEF Candidates
    <3> HIDE DEF k
    <3> QED BY <1>1, <2>3, <3>1 DEF Quants
  <2> HIDE DEF d, k, fit
  <2>5. Turn(p, "ready") /\ pc'[p] = "ready" /\ target'[p] = d /\ had'[p] = had[p]
    <3>1. Sets(pc', pc, p, "ready") /\ Sets(target', target, p, d)
      BY <2>1 DEF Sets
    <3>2. Sets(todo', todo, p, todo[p]) /\ Sets(pid', pid, p, pid[p]) /\ Sets(had', had, p, had[p])
      BY <1>1, <1>2
    <3> QED BY <1>1, <1>2, <1>3, <2>4, <3>1, <3>2, TurnMakes
  <2>6. HadInv(p)'
    BY <1>1, <1>4, <1>5, <2>5 DEF HadInv
  <2>7. OrderInv(p)'
    BY <1>4, <1>5, <2>5 DEF OrderInv
  <2>8. PlacedInv(p)'
    <3>1. Verified("core") /\ Verified(d) /\ Verified("voice") /\ file["int8"] \in {Absent, pin}
      BY <2>3 DEF _verify_existing_zerotts_candidate, _verify_candidate_artifacts
    <3>2. Installed(p)' \subseteq {"core", d, "voice"}
      BY <1>4, <1>5, <2>5 DEF Installed
    <3> QED BY <1>4, <2>5, <3>1, <3>2 DEF PlacedInv, Verified
  <2>9. WrittenInv(p)'
    BY <2>5 DEF WrittenInv
  <2>10. ServerInv(p)'
    BY <2>6, <2>7, <2>8, <2>9 DEF ServerInv
  <2> QED BY <1>2, <2>5, <2>10, QuietKeeps
<1> QED BY <1>6, <1>7

LEMMA FetchLockKeeps ==
  ASSUME StoreInv, NEW p \in Servers, FetchLock(p)
  PROVE  StoreInv' /\ Gentle
<1>1. /\ DiskTypes /\ ProcessTypes /\ LockTypes /\ MarkerInv /\ HadInv(p) /\ OrderInv(p)
      /\ subject \in {"stt", "zero", "nghi"}
      /\ todo[p] \in Seq(AllFiles \cup {"marker"}) /\ Sets(todo, todo, p, todo[p])
  BY Before, Unset
<1>2. /\ pc[p] = "fetch" /\ dlock = Nobody /\ dlock' = p /\ pc' = [pc EXCEPT ![p] = "fetching"]
      /\ UNCHANGED <<site, disk, lock, pid, todo, target, had, left>>
  BY DEF FetchLock, To
<1>3. /\ pc[p] \notin Structuring /\ "fetching" \notin Structuring /\ "fetching" \in Fetching /\ "fetching" \in Places
  BY <1>2 DEF Places, Structuring, Fetching
<1>4. /\ Usable' = Usable /\ UNCHANGED <<subject, pin, file, marker, temp, snap>>
  BY <1>2, QuietHad DEF site, disk
<1>5. subject = "nghi" /\ todo[p] = <<"source", "config">>
  BY <1>1, <1>2 DEF OrderInv
<1>6. Turn(p, "fetching") /\ pc'[p] = "fetching" /\ todo'[p] = todo[p] /\ target'[p] = target[p] /\ had'[p] = had[p]
  <2>1. Sets(pc', pc, p, "fetching") /\ Sets(todo', todo, p, todo[p])
    BY <1>1, <1>2 DEF Sets
  <2> QED BY <1>1, <1>2, <1>3, <2>1, TurnTo
<1>7. HadInv(p)'
  BY <1>1, <1>4, <1>5, <1>6 DEF HadInv
<1>8. OrderInv(p)'
  BY <1>1, <1>4, <1>5, <1>6 DEF OrderInv
<1>9. PlacedInv(p)' /\ WrittenInv(p)'
  <2>1. Range(<<"source", "config">>) = {"source", "config"}
    BY DEF Range
  <2>2. Installed(p)' = {}
    BY <1>4, <1>5, <1>6, <2>1 DEF Installed
  <2> QED BY <1>6, <2>2 DEF PlacedInv, WrittenInv
<1>10. ServerInv(p)'
  BY <1>7, <1>8, <1>9 DEF ServerInv
<1> QED BY <1>2, <1>6, <1>10, QuietKeeps

LEMMA FetchDoneKeeps ==
  ASSUME StoreInv, NEW p \in Servers, FetchDone(p)
  PROVE  StoreInv' /\ Gentle
<1>1. /\ DiskTypes /\ ProcessTypes /\ LockTypes /\ MarkerInv /\ HadInv(p) /\ OrderInv(p) /\ PlacedInv(p)
      /\ subject \in {"stt", "zero", "nghi"}
      /\ (dlock = p) <=> pc[p] \in Fetching
  BY Before
<1>2. /\ pc[p] = "fetching" /\ todo[p] = <<>> /\ dlock' = Nobody /\ pc' = [pc EXCEPT ![p] = "lock"]
      /\ todo' = [todo EXCEPT ![p] = StructureOrder(p)]
      /\ UNCHANGED <<site, disk, lock, pid, target, had, left>>
  BY DEF FetchDone, To, Todo
<1>3. /\ pc[p] \notin Structuring /\ "lock" \notin Structuring /\ "lock" \notin Fetching /\ "lock" \in Places
      /\ dlock = p
  BY <1>1, <1>2 DEF Places, Structuring, Fetching
<1>4. /\ Usable' = Usable /\ UNCHANGED <<subject, pin, file, marker, temp, snap>>
  BY <1>2, QuietHad DEF site, disk
<1>5. subject = "nghi"
  BY <1>1, <1>2 DEF OrderInv
<1>6. StructureOrder(p) = <<"ownconfig", "tokens", "model", "marker">> /\ StructureOrder(p) \in Seq(AllFiles \cup {"marker"})
  <2>1. StructureOrder(p) = <<"ownconfig", "tokens", "model", "marker">>
    BY <1>5 DEF StructureOrder
  <2> QED BY <2>1 DEF AllFiles
<1>7. Turn(p, "lock") /\ pc'[p] = "lock" /\ todo'[p] = StructureOrder(p) /\ target'[p] = target[p] /\ had'[p] = had[p]
  <2>1. Sets(pc', pc, p, "lock") /\ Sets(todo', todo, p, StructureOrder(p))
    BY <1>2 DEF Sets
  <2> QED BY <1>1, <1>2, <1>3, <1>6, <2>1, TurnTo
<1>8. HadInv(p)'
  BY <1>1, <1>4, <1>5, <1>7 DEF HadInv
<1>9. OrderInv(p)'
  <2>1. StructureOrder(p)' = StructureOrder(p)
    BY <1>4, <1>5 DEF StructureOrder
  <2> QED BY <1>1, <1>4, <1>5, <1>7, <2>1 DEF OrderInv
<1>10. PlacedInv(p)' /\ WrittenInv(p)'
  <2>1. Range(<<"ownconfig", "tokens", "model", "marker">>) = {"ownconfig", "tokens", "model", "marker"} /\ Range(<<>>) = {}
    BY DEF Range
  <2>2. Installed(p)' = {"source", "config"} /\ Installed(p) = {"source", "config"}
    BY <1>2, <1>4, <1>5, <1>6, <1>7, <2>1 DEF Installed
  <2> QED BY <1>1, <1>4, <1>5, <1>7, <2>2 DEF PlacedInv, WrittenInv, Verified
<1>11. ServerInv(p)'
  BY <1>8, <1>9, <1>10 DEF ServerInv
<1> QED BY <1>2, <1>7, <1>11, QuietKeeps

LEMMA LockKeeps ==
  ASSUME StoreInv, NEW p \in Servers, _model_structure_lock(p)
  PROVE  StoreInv' /\ Gentle
<1>1. /\ DiskTypes /\ ProcessTypes /\ LockTypes /\ MarkerInv /\ HadInv(p) /\ OrderInv(p) /\ PlacedInv(p)
      /\ subject \in {"stt", "zero", "nghi"} /\ target[p] \in Quants
      /\ todo[p] \in Seq(AllFiles \cup {"marker"}) /\ Sets(todo, todo, p, todo[p])
  BY Before, Unset
<1>2. /\ pc[p] = "lock" /\ lock = Nobody
      /\ UNCHANGED <<site, disk, dlock, pid, todo, target, had, left>>
  BY DEF _model_structure_lock
<1>3. /\ pc[p] \notin Structuring /\ pc[p] \notin Fetching /\ "failed" \notin Structuring /\ "failed" \notin Fetching
      /\ "place" \in Structuring /\ "place" \notin Fetching /\ "failed" \in Places /\ "place" \in Places
  BY <1>2 DEF Places, Structuring, Fetching
<1>4. /\ Usable' = Usable /\ UNCHANGED <<subject, pin, file, marker, temp, snap>>
  BY <1>2, QuietHad DEF site, disk
<1>5. CASE subject = "stt" /\ Damaged(pin)
  <2>1. pc' = [pc EXCEPT ![p] = "failed"] /\ lock' = lock
    BY <1>5 DEF _model_structure_lock, To
  <2>2. Turn(p, "failed") /\ pc'[p] = "failed" /\ target'[p] = target[p] /\ had'[p] = had[p]
    <3>1. Sets(pc', pc, p, "failed") /\ Sets(todo', todo, p, todo[p])
      BY <1>1, <1>2, <2>1 DEF Sets
    <3> QED BY <1>1, <1>2, <1>3, <2>1, <3>1, TurnTo
  <2>3. HadInv(p)'
    BY <1>1, <1>2, <1>5, <2>2 DEF HadInv
  <2>4. ServerInv(p)'
    BY <1>1, <1>4, <2>2, <2>3, RestingHolds DEF Resting, OrderInv
  <2> QED BY <1>2, <2>2, <2>4, QuietKeeps
<1>6. CASE ~(subject = "stt" /\ Damaged(pin))
  <2>1. pc' = [pc EXCEPT ![p] = "place"] /\ lock' = p
    BY <1>6 DEF _model_structure_lock, To
  <2>2. Turn(p, "place") /\ pc'[p] = "place" /\ todo'[p] = todo[p] /\ target'[p] = target[p] /\ had'[p] = had[p]
    <3>1. Sets(pc', pc, p, "place") /\ Sets(todo', todo, p, todo[p])
      BY <1>1, <1>2, <2>1 DEF Sets
    <3> QED BY <1>1, <1>2, <1>3, <2>1, <3>1, TurnTo
  <2>3. HadInv(p)'
    BY <1>1, <1>2, <1>4, <2>2 DEF HadInv
  <2>4. OrderInv(p)'
    <3>1. StructureOrder(p)' = StructureOrder(p)
      BY <1>4, <2>2 DEF StructureOrder
    <3> QED BY <1>1, <1>2, <1>4, <2>2, <3>1 DEF OrderInv
  <2>5. PlacedInv(p)' /\ WrittenInv(p)'
    <3>1. Installed(p)' = Installed(p)
      BY <1>2, <1>4, <2>2 DEF Installed
    <3> QED BY <1>1, <1>4, <2>2, <3>1 DEF PlacedInv, WrittenInv, Verified
  <2>6. ServerInv(p)'
    BY <2>3, <2>4, <2>5 DEF ServerInv
  <2> QED BY <1>2, <2>2, <2>6, QuietKeeps
<1> QED BY <1>5, <1>6

LEMMA PlacedKeeps ==
  ASSUME StoreInv, NEW p \in Servers, Placed(p)
  PROVE  StoreInv' /\ Gentle
<1>1. /\ DiskTypes /\ ProcessTypes /\ LockTypes /\ MarkerInv /\ HadInv(p) /\ OrderInv(p) /\ PlacedInv(p)
      /\ subject \in {"stt", "zero", "nghi"} /\ target[p] \in Quants
      /\ todo[p] \in Seq(AllFiles \cup {"marker"}) /\ Sets(todo, todo, p, todo[p])
      /\ (lock = p) <=> pc[p] \in Structuring
  BY Before, Unset
<1>2. /\ pc[p] = "place" /\ todo[p] = <<>> /\ pc' = [pc EXCEPT ![p] = "ready"] /\ lock' = Nobody
      /\ UNCHANGED <<site, disk, dlock, pid, todo, target, had, left>>
  BY DEF Placed, To
<1>3. /\ lock = p /\ pc[p] \notin Fetching /\ "ready" \notin Structuring /\ "ready" \notin Fetching /\ "ready" \in Places
  BY <1>1, <1>2 DEF Places, Structuring, Fetching
<1>4. /\ Usable' = Usable /\ UNCHANGED <<subject, pin, file, marker, temp, snap>>
  BY <1>2, QuietHad DEF site, disk
<1>5. Turn(p, "ready") /\ pc'[p] = "ready" /\ target'[p] = target[p] /\ had'[p] = had[p]
  <2>1. Sets(pc', pc, p, "ready") /\ Sets(todo', todo, p, todo[p])
    BY <1>1, <1>2 DEF Sets
  <2>2. lock' = Unlocked(p)
    BY <1>2, <1>3 DEF Unlocked
  <2> QED BY <1>1, <1>2, <1>3, <2>1, <2>2, TurnTo
<1>6. HadInv(p)'
  BY <1>1, <1>4, <1>5 DEF HadInv
<1>7. OrderInv(p)'
  BY <1>1, <1>4, <1>5 DEF OrderInv
<1>8. PlacedInv(p)' /\ WrittenInv(p)'
  <2>1. Range(<<>>) = {}
    BY DEF Range
  <2>2. Installed(p)' \subseteq Installed(p)
    BY <1>1, <1>2, <1>4, <1>5, <2>1 DEF Installed
  <2>3. subject = "zero" => "int8" \in Installed(p)
    BY <1>2, <2>1 DEF Installed
  <2> QED BY <1>1, <1>4, <1>5, <2>2, <2>3 DEF PlacedInv, WrittenInv, Verified
<1>9. ServerInv(p)'
  BY <1>6, <1>7, <1>8 DEF ServerInv
<1> QED BY <1>2, <1>5, <1>9, QuietKeeps

\* A process that ends takes its locks along.
LEMMA EndsKeeps ==
  ASSUME StoreInv, NEW p \in Servers, Ends(p), UNCHANGED <<site, disk>>, lock' = Unlocked(p),
         dlock' = IF dlock = p THEN Nobody ELSE dlock
  PROVE  StoreInv' /\ Gentle
<1>1. ProcessTypes /\ LockTypes
  BY Before
<1>2. /\ Sets(pc', pc, p, "off") /\ Sets(todo', todo, p, <<>>) /\ Sets(had', had, p, FALSE)
      /\ Sets(pid', pid, p, AnyPid) /\ Sets(target', target, p, "q8")
  BY DEF Ends, To, Todo, Sets
<1>3. /\ "off" \in Places /\ "off" \notin Structuring /\ "off" \notin Fetching /\ "q8" \in Quants
      /\ AnyPid \in Pids /\ <<>> \in Seq(AllFiles \cup {"marker"})
  BY Marks DEF Places, Structuring, Fetching, Quants
<1>4. Turn(p, "off") /\ pc'[p] = "off" /\ target'[p] = "q8" /\ had'[p] = FALSE
  BY <1>1, <1>2, <1>3, TurnMakes
<1>5. HadInv(p)'
  BY <1>4 DEF HadInv
<1>6. ServerInv(p)'
  BY <1>4, <1>5, RestingHolds DEF Resting
<1> QED BY <1>4, <1>6, QuietKeeps

LEMMA CrashKeeps ==
  ASSUME StoreInv, NEW p \in Servers, Crash(p)
  PROVE  StoreInv' /\ Gentle
BY EndsKeeps DEF Crash

LEMMA StopKeeps ==
  ASSUME StoreInv, NEW p \in Servers, Stop(p)
  PROVE  StoreInv' /\ Gentle
<1>1. /\ (lock = p) <=> pc[p] \in Structuring
      /\ (dlock = p) <=> pc[p] \in Fetching
  BY Before
<1>2. pc[p] \in {"ready", "failed"} /\ Ends(p) /\ UNCHANGED <<site, disk, lock, dlock, left>>
  BY DEF Stop
<1>3. lock' = Unlocked(p) /\ dlock' = IF dlock = p THEN Nobody ELSE dlock
  BY <1>1, <1>2 DEF Unlocked, Structuring, Fetching
<1> QED BY <1>2, <1>3, EndsKeeps

--------------------------------------------------------------------------------
(* A step through the order of the files.                                  *)

LEMMA RangeTail ==
  ASSUME NEW S, NEW s \in Seq(S), s # <<>>
  PROVE  Range(s) = {Head(s)} \cup Range(Tail(s))
<1>1. Len(s) \in Nat /\ Len(s) > 0 /\ DOMAIN s = 1..Len(s) /\ Head(s) = s[1]
  OBVIOUS
<1>2. Tail(s) \in Seq(S) /\ Len(Tail(s)) = Len(s) - 1 /\ DOMAIN Tail(s) = 1..(Len(s) - 1)
      /\ \A i \in 1..(Len(s) - 1) : Tail(s)[i] = s[i + 1]
  OBVIOUS
<1>3. ASSUME NEW i \in DOMAIN s
      PROVE  s[i] \in {Head(s)} \cup Range(Tail(s))
  <2>1. CASE i = 1
    BY <1>1, <2>1
  <2>2. CASE i # 1
    <3>1. i - 1 \in 1..(Len(s) - 1) /\ (i - 1) + 1 = i
      BY <1>1, <1>3, <2>2
    <3>2. Tail(s)[i - 1] = s[i]
      BY <1>2, <3>1
    <3> QED BY <1>2, <3>1, <3>2 DEF Range
  <2> QED BY <2>1, <2>2
<1>4. ASSUME NEW i \in DOMAIN Tail(s)
      PROVE  Tail(s)[i] \in Range(s)
  <2>1. i + 1 \in DOMAIN s /\ Tail(s)[i] = s[i + 1]
    BY <1>1, <1>2
  <2> QED BY <2>1 DEF Range
<1>5. Head(s) \in Range(s)
  <2>1. 1 \in DOMAIN s
    BY <1>1
  <2> QED BY <1>1, <2>1 DEF Range
<1> QED BY <1>3, <1>4, <1>5 DEF Range

\* One process at a time puts files in place, and one downloads.
LEMMA Alone ==
  ASSUME LockTypes, NEW p \in Servers, NEW q \in Servers \ {p}
  PROVE  /\ pc[p] \in Structuring => pc[q] \notin Structuring
         /\ pc[p] \in Fetching => pc[q] \notin Fetching
BY DEF LockTypes

\* What a downloading process is at.
LEMMA FetchedAt ==
  ASSUME NEW q \in Servers, OrderInv(q), subject \in {"stt", "zero", "nghi"}, pc[q] \in Fetching
  PROVE  /\ subject = "nghi" /\ todo[q] \in {<<"source", "config">>, <<"config">>, <<>>}
         /\ todo[q] # <<>> => Head(todo[q]) \in {"source", "config"}
         /\ pc[q] = "fetched" => todo[q] # <<>>
<1>1. subject = "nghi" /\ todo[q] \in {<<"source", "config">>, <<"config">>, <<>>}
      /\ (pc[q] = "fetched" => todo[q] # <<>>)
  BY DEF OrderInv, Fetching
<1> QED BY <1>1

\* What a process that rebuilds the layout is at.
LEMMA PlaceAt ==
  ASSUME NEW p \in Servers, OrderInv(p), subject \in {"stt", "zero", "nghi"}, target[p] \in Quants,
         pc[p] \in {"place", "rename"}, todo[p] # <<>>, NEW f, f = Head(todo[p])
  PROVE  /\ f \in AllFiles \cup {"marker"} /\ f \notin {"source", "config"}
         /\ subject = "stt" => f \in {"graph", "tokens", "marker"}
         /\ subject = "zero" => /\ f \in {"core", "q4", "q8", "int8", "voice"}
                                /\ todo[p] = <<"int8">> \/ "voice" \in Range(todo[p])
                                /\ f = "q4" => todo[p] = <<target[p], "int8", "voice">> /\ target[p] = "q4"
         /\ subject = "nghi" => f \in {"ownconfig", "tokens", "model", "marker"}
         /\ pc[p] = "rename" => f # "marker"
<1>1. CASE subject = "stt"
  <2>1. todo[p] \in {<<"graph", "tokens", "marker">>, <<"tokens", "marker">>, <<"marker">>}
        /\ (pc[p] = "rename" => todo[p] # <<"marker">>)
    BY <1>1 DEF OrderInv, StructureOrder
  <2> QED BY <1>1, <2>1 DEF AllFiles
<1>2. CASE subject = "zero"
  <2>1. todo[p] \in {<<"core", target[p], "int8", "voice">>, <<target[p], "int8", "voice">>,
                     <<"int8", "voice">>, <<"voice">>, <<"int8">>}
    BY <1>2 DEF OrderInv, StructureOrder
  <2>2. f \in {"core", "q4", "q8", "int8", "voice"}
    BY <2>1 DEF Quants
  <2>3. todo[p] = <<"int8">> \/ "voice" \in Range(todo[p])
    BY <2>1 DEF Range
  <2>4. f = "q4" => todo[p] = <<target[p], "int8", "voice">> /\ target[p] = "q4"
    BY <2>1
  <2> QED BY <1>2, <2>2, <2>3, <2>4 DEF AllFiles
<1>3. CASE subject = "nghi"
  <2>1. todo[p] \in {<<"ownconfig", "tokens", "model", "marker">>, <<"tokens", "model", "marker">>,
                     <<"model", "marker">>, <<"marker">>} /\ (pc[p] = "rename" => todo[p] # <<"marker">>)
    BY <1>3 DEF OrderInv, StructureOrder
  <2> QED BY <1>3, <2>1 DEF AllFiles
<1> QED BY <1>1, <1>2, <1>3

\* What it has in place already.
LEMMA PlaceHas ==
  ASSUME NEW p \in Servers, OrderInv(p), subject \in {"stt", "zero", "nghi"}, PlacedInv(p),
         pc[p] \in {"place", "rename"}, todo[p] # <<>>
  PROVE  /\ subject = "nghi" => /\ Verified("source") /\ Verified("config")
                                /\ Head(todo[p]) # "ownconfig" => Verified("ownconfig")
                                /\ Head(todo[p]) = "marker" => Verified("model")
         /\ subject = "stt" /\ Head(todo[p]) = "marker" => Verified("tokens")
<1>1. CASE subject = "nghi"
  <2>1. Installed(p) = {"source", "config"} \cup ({"ownconfig", "tokens", "model"} \ Range(todo[p]))
    BY <1>1 DEF Installed
  <2>2. todo[p] \in {<<"ownconfig", "tokens", "model", "marker">>, <<"tokens", "model", "marker">>,
                     <<"model", "marker">>, <<"marker">>}
    BY <1>1 DEF OrderInv, StructureOrder
  <2>3. Verified("source") /\ Verified("config")
    BY <2>1 DEF PlacedInv
  <2>4. Head(todo[p]) # "ownconfig" => "ownconfig" \notin Range(todo[p])
    <3>1. /\ Range(<<"tokens", "model", "marker">>) = {"tokens", "model", "marker"}
          /\ Range(<<"model", "marker">>) = {"model", "marker"} /\ Range(<<"marker">>) = {"marker"}
      BY DEF Range
    <3> QED BY <2>2, <3>1
  <2>5. Head(todo[p]) = "marker" => "model" \notin Range(todo[p])
    <3>1. Range(<<"marker">>) = {"marker"}
      BY DEF Range
    <3> QED BY <2>2, <3>1
  <2> QED BY <1>1, <2>1, <2>3, <2>4, <2>5 DEF PlacedInv
<1>2. CASE subject = "stt" /\ Head(todo[p]) = "marker"
  <2>1. Installed(p) = {"graph", "tokens"} \ Range(todo[p])
    BY <1>2 DEF Installed
  <2>2. todo[p] = <<"marker">>
    BY <1>2 DEF OrderInv, StructureOrder
  <2>3. Range(<<"marker">>) = {"marker"}
    BY DEF Range
  <2> QED BY <1>2, <2>1, <2>2, <2>3 DEF PlacedInv
<1> QED BY <1>1, <1>2

\* A source that verifies is of the pinned version.
LEMMA SourceIs ==
  ASSUME DiskTypes, NEW p \in Servers, OrderInv(p), PlacedInv(p), target[p] \in Quants, pc[p] = "place", todo[p] # <<>>,
         NEW f, f = Head(todo[p]), f # "marker"
  PROVE  /\ Source(f) \in {Absent, pin}
         /\ subject = "nghi" => Source(f) = pin
         /\ f = "int8" => Source(f) = pin
<1>1. subject \in {"stt", "zero", "nghi"} /\ snap[pin] # "int8"
  BY DEF DiskTypes
<1>2. CASE subject = "nghi"
  <2>1. f \in {"ownconfig", "tokens", "model"}
    BY <1>1, <1>2, PlaceAt
  <2>2. Verified("source") /\ Verified("config") /\ (f # "ownconfig" => Verified("ownconfig"))
    BY <1>1, <1>2, PlaceHas
  <2> QED BY <1>2, <2>1, <2>2 DEF Source, Verified
<1>3. CASE subject # "nghi"
  BY <1>1, <1>3 DEF Source
<1> QED BY <1>2, <1>3

\* What is kept is of the pinned version.
LEMMA KeptIs ==
  ASSUME StoreInv, NEW p \in Servers, Placing(p), Keeps(Head(todo[p]))
  PROVE  Verified(Head(todo[p]))
<1> DEFINE f == Head(todo[p])
<1>1. /\ DiskTypes /\ OrderInv(p) /\ PlacedInv(p) /\ MarkerInv /\ target[p] \in Quants
      /\ subject \in {"stt", "zero", "nghi"}
  BY Before
<1>2. pc[p] = "place" /\ todo[p] # <<>> /\ f # "marker"
  BY DEF Placing
<1>3. Source(f) \in {Absent, pin} /\ (subject = "nghi" => Source(f) = pin)
  BY <1>1, <1>2, SourceIs
<1>4. Keeps(f)
  OBVIOUS
<1> SUFFICES Verified(f)
  OBVIOUS
<1> HIDE DEF f
<1>5. CASE f \in {"q4", "int8"}
  BY <1>4, <1>5 DEF Keeps, KeptVerified
<1>6. CASE subject = "nghi" /\ f = "model"
  <2>1. Verified("ownconfig") /\ Verified("source")
    BY <1>1, <1>2, <1>6, PlaceHas DEF f
  <2>2. _is_prepared_for_sherpa \/ file[f] = Source(f)
    BY <1>4, <1>6 DEF Keeps
  <2>3. CASE file[f] = Source(f)
    BY <1>3, <1>6, <2>3 DEF Verified
  <2>4. CASE _is_prepared_for_sherpa
    <3>1. marker.out = 1 /\ marker.of = file["ownconfig"]
      BY <2>4 DEF _is_prepared_for_sherpa
    <3> QED BY <1>1, <1>6, <2>1, <3>1 DEF MarkerInv, Verified
  <2> QED BY <2>2, <2>3, <2>4
<1>7. CASE f \notin {"q4", "int8"} /\ ~(subject = "nghi" /\ f = "model")
  BY <1>3, <1>4, <1>7 DEF Keeps, Verified
<1> QED BY <1>5, <1>6, <1>7 DEF f

\* One file further in the order.
LEMMA OrderTail ==
  ASSUME NEW p \in Servers, OrderInv(p), subject \in {"stt", "zero", "nghi"}, target[p] \in Quants,
         pc[p] \in {"place", "rename"}, todo[p] # <<>>, pc'[p] = "place", todo'[p] = Tail(todo[p]),
         target'[p] = target[p], subject' = subject
  PROVE  OrderInv(p)'
<1>0. subject # "zero" => target[p] = "q8"
  BY DEF OrderInv
<1>1. CASE subject = "stt"
  <2>1. todo[p] \in {<<"graph", "tokens", "marker">>, <<"tokens", "marker">>, <<"marker">>}
    BY <1>1 DEF OrderInv, StructureOrder
  <2>2. Tail(todo[p]) \in {<<"tokens", "marker">>, <<"marker">>, <<>>}
    <3>1. /\ Tail(<<"graph", "tokens", "marker">>) = <<"tokens", "marker">>
          /\ Tail(<<"tokens", "marker">>) = <<"marker">> /\ Tail(<<"marker">>) = <<>>
      OBVIOUS
    <3> QED BY <2>1, <3>1
  <2> QED BY <1>0, <1>1, <2>2 DEF OrderInv
<1>2. CASE subject = "zero"
  <2>1. todo[p] \in {<<"core", target[p], "int8", "voice">>, <<target[p], "int8", "voice">>,
                     <<"int8", "voice">>, <<"voice">>, <<"int8">>}
    BY <1>2 DEF OrderInv, StructureOrder
  <2>2. Tail(todo[p]) \in {<<target[p], "int8", "voice">>, <<"int8", "voice">>, <<"voice">>, <<>>}
    <3>1. /\ Tail(<<"core", target[p], "int8", "voice">>) = <<target[p], "int8", "voice">>
          /\ Tail(<<target[p], "int8", "voice">>) = <<"int8", "voice">>
          /\ Tail(<<"int8", "voice">>) = <<"voice">> /\ Tail(<<"voice">>) = <<>> /\ Tail(<<"int8">>) = <<>>
      OBVIOUS
    <3> QED BY <2>1, <3>1
  <2> QED BY <1>2, <2>2 DEF OrderInv
<1>3. CASE subject = "nghi"
  <2>1. todo[p] \in {<<"ownconfig", "tokens", "model", "marker">>, <<"tokens", "model", "marker">>,
                     <<"model", "marker">>, <<"marker">>}
    BY <1>3 DEF OrderInv, StructureOrder
  <2>2. Tail(todo[p]) \in {<<"tokens", "model", "marker">>, <<"model", "marker">>, <<"marker">>, <<>>}
    <3>1. /\ Tail(<<"ownconfig", "tokens", "model", "marker">>) = <<"tokens", "model", "marker">>
          /\ Tail(<<"tokens", "model", "marker">>) = <<"model", "marker">>
          /\ Tail(<<"model", "marker">>) = <<"marker">> /\ Tail(<<"marker">>) = <<>>
      OBVIOUS
    <3> QED BY <2>1, <3>1
  <2> QED BY <1>0, <1>3, <2>2 DEF OrderInv
<1> QED BY <1>1, <1>2, <1>3

\* What is installed stays so, and so is what comes to it.
LEMMA InstalledFiles ==
  ASSUME NEW p \in Servers, target[p] \in Quants, subject \in {"stt", "zero", "nghi"}
  PROVE  Installed(p) \subseteq AllFiles
BY DEF Installed, AllFiles, Quants

LEMMA PlacedKept ==
  ASSUME NEW p \in Servers, target[p] \in Quants, subject \in {"stt", "zero", "nghi"}, Gentle, PlacedInv(p),
         \A f \in Installed(p)' : f \in Installed(p) \/ file'[f] = pin, pc'[p] # "ready"
  PROVE  PlacedInv(p)'
<1>1. Installed(p) \subseteq AllFiles
  BY InstalledFiles
<1>2. ASSUME NEW f \in Installed(p)'
      PROVE  file'[f] = pin'
  <2>1. CASE f \in Installed(p)
    BY <1>1, <2>1 DEF PlacedInv, Gentle
  <2>2. CASE file'[f] = pin
    BY <2>2 DEF Gentle
  <2> QED BY <2>1, <2>2
<1> QED BY <1>2 DEF PlacedInv, Verified

LEMMA InstalledTail ==
  ASSUME NEW p \in Servers, todo[p] \in Seq(AllFiles \cup {"marker"}), todo[p] # <<>>,
         target'[p] = target[p], subject' = subject, subject \in {"stt", "zero", "nghi"}, todo'[p] = Tail(todo[p]),
         \/ pc[p] \in {"place", "rename"} /\ pc'[p] = "place"
         \/ pc[p] \in Fetching /\ pc'[p] = "fetching"
  PROVE  Installed(p)' \subseteq Installed(p) \cup {Head(todo[p])}
<1>1. Range(todo[p]) = {Head(todo[p])} \cup Range(todo'[p])
  BY RangeTail
<1>2. CASE pc[p] \in {"place", "rename"} /\ pc'[p] = "place"
  BY <1>1, <1>2 DEF Installed
<1>3. CASE pc[p] \in Fetching /\ pc'[p] = "fetching"
  BY <1>1, <1>3 DEF Installed, Fetching
<1> QED BY <1>2, <1>3

--------------------------------------------------------------------------------
(* Steps that write.                                                       *)

\* The sweep passes over the temporary files that are in use.
LEMMA SweepKeeps ==
  ASSUME StoreInv, NEW p \in Servers, Sweep(p)
  PROVE  StoreInv' /\ Gentle
<1>1. /\ DiskTypes /\ ProcessTypes /\ LockTypes /\ MarkerInv /\ HadInv(p) /\ OrderInv(p)
      /\ subject \in {"stt", "zero", "nghi"}
      /\ todo[p] \in Seq(AllFiles \cup {"marker"}) /\ Sets(todo, todo, p, todo[p])
  BY Before, Unset
<1>2. /\ pc[p] = "sweep" /\ lock = Nobody /\ pc' = [pc EXCEPT ![p] = "look"]
      /\ UNCHANGED <<site, file, marker, snap, lock, dlock, pid, todo, target, had, left>>
  BY DEF Sweep, SweepFree, To
<1>3. PICK seen \in SUBSET (Pids \ {pid[p]}) :
        temp' = [t \in DOMAIN temp |->
                   IF t[2] \in seen \/ t[1] \in {"source", "config"} THEN temp[t] ELSE Absent]
  BY DEF Sweep, _cleanup_stale_temporary_files
<1>4. /\ pc[p] \notin Structuring /\ pc[p] \notin Fetching /\ "look" \notin Structuring /\ "look" \notin Fetching
      /\ "look" \in Places
  BY <1>2 DEF Places, Structuring, Fetching
<1>5. Turn(p, "look") /\ pc'[p] = "look" /\ target'[p] = target[p] /\ had'[p] = had[p]
  <2>1. Sets(pc', pc, p, "look") /\ Sets(todo', todo, p, todo[p])
    BY <1>1, <1>2 DEF Sets
  <2> QED BY <1>1, <1>2, <1>4, <2>1, TurnTo
<1>6. UNCHANGED <<subject, pin, file, marker, snap>>
  BY <1>2 DEF site
<1>7. Gentle
  BY <1>6 DEF Gentle, Verified
<1>8. DiskTypes' /\ MarkerInv'
  <2>1. temp \in [AllFiles \X Pids -> Contents] /\ Absent \in Contents
    BY <1>1 DEF DiskTypes, Contents
  <2>2. temp' \in [AllFiles \X Pids -> Contents]
    BY <1>3, <2>1
  <2> QED BY <1>1, <1>6, <2>2 DEF DiskTypes, MarkerInv
<1>9. ASSUME NEW q \in Servers \ {p}
      PROVE  Spared(q)
  <2>1. pc[q] \notin Structuring
    BY <1>1, <1>2, Marks DEF LockTypes
  <2>2. CASE pc[q] = "fetched"
    <3>1. OrderInv(q) /\ pid[q] \in Pids
      BY Before
    <3>2. Head(todo[q]) \in {"source", "config"}
      BY <1>1, <2>2, <3>1, FetchedAt DEF Fetching
    <3>3. <<Head(todo[q]), pid[q]>> \in DOMAIN temp
      BY <1>1, <3>1, <3>2 DEF DiskTypes, AllFiles
    <3>4. temp'[<<Head(todo[q]), pid[q]>>] = temp[<<Head(todo[q]), pid[q]>>]
      BY <1>3, <3>2, <3>3
    <3> QED BY <1>6, <3>4 DEF Spared
  <2>3. CASE pc[q] # "fetched"
    BY <2>1, <2>3 DEF Spared, Structuring
  <2> QED BY <2>2, <2>3
<1>10. HadInv(p)'
  BY <1>1, <1>2, <1>5, <1>7, HadKept
<1>11. ServerInv(p)'
  BY <1>1, <1>5, <1>6, <1>10, RestingHolds DEF Resting, OrderInv
<1> QED BY <1>5, <1>7, <1>8, <1>9, <1>11, TurnKeeps

LEMMA SyncKeeps ==
  ASSUME StoreInv, NEW p \in Servers, _sync_repo(p)
  PROVE  StoreInv' /\ Gentle
<1>1. /\ DiskTypes /\ ProcessTypes /\ LockTypes /\ MarkerInv /\ HadInv(p) /\ OrderInv(p) /\ PlacedInv(p)
      /\ subject \in {"stt", "zero", "nghi"} /\ target[p] \in Quants
  BY Before
<1>2. /\ pc[p] = "sync" /\ pc' = [pc EXCEPT ![p] = "lock"] /\ todo' = [todo EXCEPT ![p] = StructureOrder(p)]
      /\ snap' = [snap EXCEPT ![pin] = IF snap[pin] = "absent" THEN "whole" ELSE snap[pin]]
      /\ UNCHANGED <<site, file, marker, temp, lock, dlock, pid, target, had, left>>
  BY DEF _sync_repo, To, Todo
<1>3. /\ pc[p] \notin Structuring /\ pc[p] \notin Fetching /\ "lock" \notin Structuring /\ "lock" \notin Fetching
      /\ "lock" \in Places
  BY <1>2 DEF Places, Structuring, Fetching
<1>4. UNCHANGED <<subject, pin, file, marker, temp>>
  BY <1>2 DEF site
<1>5. subject \in {"stt", "zero"}
  BY <1>1, <1>2 DEF OrderInv
<1>6. StructureOrder(p) \in {<<"graph", "tokens", "marker">>, <<"core", target[p], "int8", "voice">>}
      /\ (subject = "stt" => StructureOrder(p) = <<"graph", "tokens", "marker">>)
      /\ (subject = "zero" => StructureOrder(p) = <<"core", target[p], "int8", "voice">>)
  BY <1>5 DEF StructureOrder
<1>7. StructureOrder(p) \in Seq(AllFiles \cup {"marker"})
  <2>1. target[p] \in AllFiles /\ {"graph", "tokens", "core", "int8", "voice"} \subseteq AllFiles
    BY <1>1 DEF AllFiles, Quants
  <2>2. /\ <<"graph", "tokens", "marker">> \in Seq(AllFiles \cup {"marker"})
        /\ <<"core", target[p], "int8", "voice">> \in Seq(AllFiles \cup {"marker"})
    BY <2>1
  <2> QED BY <1>6, <2>2
<1>8. /\ Turn(p, "lock") /\ pc'[p] = "lock" /\ todo'[p] = StructureOrder(p) /\ target'[p] = target[p]
      /\ had'[p] = had[p]
  <2>1. Sets(pc', pc, p, "lock") /\ Sets(todo', todo, p, StructureOrder(p))
    BY <1>2 DEF Sets
  <2> QED BY <1>1, <1>2, <1>3, <1>7, <2>1, TurnTo
<1>9. Gentle
  BY <1>4 DEF Gentle, Verified
<1>10. DiskTypes' /\ MarkerInv'
  <2>1. snap' \in [Versions -> {"absent", "whole", "graph", "core", "q8", "voice"}]
    BY <1>1, <1>2 DEF DiskTypes
  <2> QED BY <1>1, <1>4, <2>1 DEF DiskTypes, MarkerInv
<1>11. \A q \in Servers \ {p} : Spared(q)
  BY <1>4 DEF Spared
<1>12. HadInv(p)'
  <2>1. had'[p] => subject # "stt"
    BY <1>1, <1>2, <1>8 DEF HadInv
  <2> QED BY <1>1, <1>8, <1>9, <2>1, HadKept
<1>13. OrderInv(p)'
  <2>1. StructureOrder(p)' = StructureOrder(p)
    BY <1>4, <1>8 DEF StructureOrder
  <2> QED BY <1>1, <1>4, <1>5, <1>8, <2>1 DEF OrderInv
<1>14. PlacedInv(p)' /\ WrittenInv(p)'
  <2>1. /\ Range(<<"graph", "tokens", "marker">>) = {"graph", "tokens", "marker"}
        /\ Range(<<"core", target[p], "int8", "voice">>) = {"core", target[p], "int8", "voice"}
    BY DEF Range
  <2>2. Installed(p)' = {}
    BY <1>4, <1>5, <1>6, <1>8, <2>1 DEF Installed
  <2> QED BY <1>8, <2>2 DEF PlacedInv, WrittenInv
<1>15. ServerInv(p)'
  BY <1>12, <1>13, <1>14 DEF ServerInv
<1> QED BY <1>8, <1>9, <1>10, <1>11, <1>15, TurnKeeps

\* What p writes to a temporary file is not what another process has written.
LEMMA OwnTemp ==
  ASSUME StoreInv, NEW p \in Servers, NEW q \in Servers \ {p}, NEW v \in Contents,
         pc[p] \in {"place", "rename"} \/ pc[p] \in Fetching, todo[p] # <<>>, Head(todo[p]) # "marker",
         temp' = [temp EXCEPT ![<<Head(todo[p]), pid[p]>>] = v],
         file'["q4"] = file["q4"] \/ pc[p] \in Structuring
  PROVE  Spared(q)
<1>1. /\ DiskTypes /\ LockTypes /\ OrderInv(p) /\ OrderInv(q) /\ pid[p] \in Pids /\ pid[q] \in Pids
      /\ subject \in {"stt", "zero", "nghi"} /\ target[p] \in Quants /\ target[q] \in Quants
  BY Before
<1>2. temp \in [AllFiles \X Pids -> Contents]
  BY <1>1 DEF DiskTypes
<1>3. ASSUME pc[q] \in {"rename", "fetched"}
      PROVE  Head(todo[q]) \in AllFiles /\ Head(todo[q]) # Head(todo[p])
  <2>1. CASE pc[q] = "fetched"
    <3>1. Head(todo[q]) \in {"source", "config"}
      BY <1>1, <2>1, FetchedAt DEF Fetching
    <3>2. pc[p] \in {"place", "rename"}
      BY <1>1, <2>1, Alone DEF Fetching
    <3>3. Head(todo[p]) \notin {"source", "config"}
      BY <1>1, <3>2, PlaceAt
    <3> QED BY <3>1, <3>3 DEF AllFiles
  <2>2. CASE pc[q] = "rename"
    <3>0. pc[p] \in Fetching
      BY <1>1, <2>2, Alone DEF Structuring
    <3>1. Head(todo[p]) \in {"source", "config"} /\ subject = "nghi"
      BY <1>1, <3>0, FetchedAt
    <3>2. todo[q] # <<>>
      BY <1>1, <2>2, <3>1 DEF OrderInv
    <3>3. Head(todo[q]) \notin {"source", "config"} /\ Head(todo[q]) \in AllFiles
      BY <1>1, <2>2, <3>2, PlaceAt
    <3> QED BY <3>1, <3>3
  <2> QED BY <1>3, <2>1, <2>2
<1>4. ASSUME pc[q] \in {"rename", "fetched"}
      PROVE  temp'[<<Head(todo[q]), pid[q]>>] = temp[<<Head(todo[q]), pid[q]>>]
  <2>1. <<Head(todo[q]), pid[q]>> # <<Head(todo[p]), pid[p]>>
    BY <1>3, <1>4
  <2>2. <<Head(todo[q]), pid[q]>> \in AllFiles \X Pids
    BY <1>1, <1>3, <1>4
  <2> QED BY <1>2, <2>1, <2>2
<1>5. pc[q] \in {"rename", "wrong"} => file'["q4"] = file["q4"]
  BY <1>1, Alone DEF Structuring
<1> QED BY <1>4, <1>5 DEF Spared

LEMMA FetchKeeps ==
  ASSUME StoreInv, NEW p \in Servers, _sync_nghitts_model(p)
  PROVE  StoreInv' /\ Gentle
<1>1. /\ DiskTypes /\ ProcessTypes /\ LockTypes /\ MarkerInv /\ HadInv(p) /\ OrderInv(p) /\ PlacedInv(p)
      /\ subject \in {"stt", "zero", "nghi"} /\ target[p] \in Quants /\ pid[p] \in Pids /\ pin \in Versions
      /\ todo[p] \in Seq(AllFiles \cup {"marker"}) /\ Sets(todo, todo, p, todo[p])
      /\ (dlock = p) <=> pc[p] \in Fetching
  BY Before, Unset
<1>2. /\ pc[p] = "fetching" /\ todo[p] # <<>>
      /\ UNCHANGED <<site, file, marker, snap, lock, pid, target, had, left>>
  BY DEF _sync_nghitts_model
<1>3. /\ pc[p] \notin Structuring /\ pc[p] \in Fetching /\ dlock = p
      /\ {"fetching", "fetched", "failed"} \subseteq Places /\ "failed" \notin Fetching
      /\ {"fetching", "fetched"} \subseteq Fetching
      /\ \A a \in {"fetching", "fetched", "failed"} : a \notin Structuring
  BY <1>1, <1>2 DEF Places, Structuring, Fetching
<1>4. UNCHANGED <<subject, pin, file, marker, snap>>
  BY <1>2 DEF site
<1>5. subject = "nghi" /\ ~had[p]
  BY <1>1, <1>2 DEF OrderInv, HadInv, Usable
<1>6. Gentle
  BY <1>4 DEF Gentle, Verified
<1> DEFINE f == Head(todo[p])
<1>7. f \in {"source", "config"} /\ todo[p] \in {<<"source", "config">>, <<"config">>}
  BY <1>1, <1>2, <1>3, FetchedAt
<1>8. CASE Verified(f) /\ Todo(p, Tail(todo[p])) /\ UNCHANGED <<temp, pc, dlock>>
  <2>1. Tail(todo[p]) \in {<<"config">>, <<>>} /\ Tail(todo[p]) \in Seq(AllFiles \cup {"marker"})
    <3>1. Tail(<<"source", "config">>) = <<"config">> /\ Tail(<<"config">>) = <<>>
      OBVIOUS
    <3>2. Tail(todo[p]) \in {<<"config">>, <<>>}
      BY <1>7, <3>1
    <3>3. Tail(todo[p]) \in Seq(AllFiles \cup {"marker"})
      BY <1>1, <1>2
    <3> QED BY <3>2, <3>3
  <2>2. /\ Turn(p, "fetching") /\ pc'[p] = "fetching" /\ todo'[p] = Tail(todo[p]) /\ target'[p] = target[p]
        /\ had'[p] = had[p]
    <3>1. Sets(pc', pc, p, "fetching")
      BY <1>1, <1>2, <1>8 DEF Sets, ProcessTypes
    <3>2. Sets(todo', todo, p, Tail(todo[p]))
      BY <1>8 DEF Sets, Todo
    <3> QED BY <1>1, <1>2, <1>3, <1>8, <2>1, <3>1, <3>2, TurnTo
  <2>3. UNCHANGED <<site, disk>>
    BY <1>2, <1>8 DEF disk
  <2>4. HadInv(p)'
    BY <1>5, <2>2 DEF HadInv
  <2>5. OrderInv(p)'
    BY <1>1, <1>4, <1>5, <2>1, <2>2 DEF OrderInv
  <2>6. PlacedInv(p)'
    <3>1. Installed(p)' \subseteq Installed(p) \cup {f}
      BY <1>1, <1>2, <1>3, <1>4, <2>2, InstalledTail
    <3>2. file'[f] = pin
      BY <1>4, <1>8 DEF Verified
    <3> QED BY <1>1, <1>6, <2>2, <3>1, <3>2, PlacedKept
  <2>7. ServerInv(p)'
    BY <2>2, <2>4, <2>5, <2>6 DEF ServerInv, WrittenInv
  <2> QED BY <2>2, <2>3, <2>7, QuietKeeps
<1>9. CASE /\ ~Verified(f) /\ \E got \in {pin, Bad} : temp' = [temp EXCEPT ![<<f, pid[p]>>] = got]
           /\ To(p, "fetched") /\ UNCHANGED <<todo, dlock>>
  <2>1. PICK got \in {pin, Bad} : temp' = [temp EXCEPT ![<<f, pid[p]>>] = got]
    BY <1>9
  <2>2. /\ Turn(p, "fetched") /\ pc'[p] = "fetched" /\ todo'[p] = todo[p] /\ target'[p] = target[p]
        /\ had'[p] = had[p] /\ pid'[p] = pid[p]
    <3>1. Sets(pc', pc, p, "fetched") /\ Sets(todo', todo, p, todo[p])
      BY <1>1, <1>9 DEF Sets, To
    <3> QED BY <1>1, <1>2, <1>3, <1>9, <3>1, TurnTo
  <2>3. got \in Contents
    BY <1>1 DEF Contents
  <2>4. temp \in [AllFiles \X Pids -> Contents] /\ <<f, pid[p]>> \in AllFiles \X Pids
    <3>1. f \in AllFiles
      BY <1>7 DEF AllFiles
    <3> QED BY <1>1, <3>1 DEF DiskTypes
  <2>5. DiskTypes' /\ MarkerInv'
    <3>1. temp' \in [AllFiles \X Pids -> Contents]
      BY <2>1, <2>3, <2>4
    <3> QED BY <1>1, <1>4, <3>1 DEF DiskTypes, MarkerInv
  <2>6. \A q \in Servers \ {p} : Spared(q)
    BY <1>2, <1>3, <1>4, <1>7, <2>1, <2>3, OwnTemp
  <2>7. HadInv(p)'
    BY <1>5, <2>2 DEF HadInv
  <2>8. OrderInv(p)'
    BY <1>1, <1>4, <1>5, <1>7, <2>2 DEF OrderInv
  <2>9. PlacedInv(p)'
    <3>1. Installed(p)' = Installed(p)
      BY <1>2, <1>4, <2>2 DEF Installed
    <3> QED BY <1>1, <1>6, <2>2, <3>1, PlacedKept
  <2>10. WrittenInv(p)'
    <3>1. temp'[<<f, pid[p]>>] = got
      BY <2>1, <2>4
    <3> QED BY <1>4, <2>2, <3>1 DEF WrittenInv
  <2>11. ServerInv(p)'
    BY <2>7, <2>8, <2>9, <2>10 DEF ServerInv
  <2> QED BY <1>6, <2>2, <2>5, <2>6, <2>11, TurnKeeps
<1>10. CASE To(p, "failed") /\ dlock' = Nobody /\ UNCHANGED <<temp, todo>>
  <2>1. Turn(p, "failed") /\ pc'[p] = "failed" /\ target'[p] = target[p] /\ had'[p] = had[p]
    <3>1. Sets(pc', pc, p, "failed") /\ Sets(todo', todo, p, todo[p])
      BY <1>1, <1>10 DEF Sets, To
    <3> QED BY <1>1, <1>2, <1>3, <1>10, <3>1, TurnTo
  <2>2. ServerInv(p)'
    BY <1>1, <1>5, <1>6, <2>1, GivesUp
  <2>3. UNCHANGED <<site, disk>>
    BY <1>2, <1>10 DEF disk
  <2> QED BY <2>1, <2>2, <2>3, QuietKeeps
<1> HIDE DEF f
<1> QED BY <1>8, <1>9, <1>10 DEF _sync_nghitts_model, f

LEMMA DownloadKeeps ==
  ASSUME StoreInv, NEW p \in Servers, _download_verified_file(p)
  PROVE  StoreInv' /\ Gentle
<1> DEFINE f == Head(todo[p])
           t == <<f, pid[p]>>
<1>1. /\ DiskTypes /\ ProcessTypes /\ LockTypes /\ MarkerInv /\ HadInv(p) /\ OrderInv(p) /\ PlacedInv(p)
      /\ WrittenInv(p)
      /\ subject \in {"stt", "zero", "nghi"} /\ target[p] \in Quants /\ pid[p] \in Pids /\ pin \in Versions
      /\ todo[p] \in Seq(AllFiles \cup {"marker"}) /\ Sets(todo, todo, p, todo[p])
      /\ (dlock = p) <=> pc[p] \in Fetching
  BY Before, Unset
<1>2. /\ pc[p] = "fetched" /\ temp' = [temp EXCEPT ![t] = Absent]
      /\ UNCHANGED <<site, snap, lock, pid, target, had, left>>
  BY DEF _download_verified_file
<1>3. /\ pc[p] \notin Structuring /\ pc[p] \in Fetching /\ dlock = p
      /\ {"fetching", "failed"} \subseteq Places /\ "failed" \notin Fetching /\ "fetching" \in Fetching
      /\ "failed" \notin Structuring /\ "fetching" \notin Structuring
  BY <1>1, <1>2 DEF Places, Structuring, Fetching
<1>4. UNCHANGED <<subject, pin, snap>>
  BY <1>2 DEF site
<1>5. subject = "nghi" /\ ~had[p]
  BY <1>1, <1>2 DEF OrderInv, HadInv, Usable
<1>6. f \in {"source", "config"} /\ todo[p] \in {<<"source", "config">>, <<"config">>} /\ todo[p] # <<>>
  BY <1>1, <1>2, <1>3, FetchedAt
<1>7. temp \in [AllFiles \X Pids -> Contents] /\ t \in AllFiles \X Pids /\ Absent \in Contents
      /\ file \in [AllFiles -> Contents] /\ f \in AllFiles
  <2>1. f \in AllFiles
    BY <1>6 DEF AllFiles
  <2> QED BY <1>1, <2>1 DEF DiskTypes, Contents
<1>8. temp' \in [AllFiles \X Pids -> Contents]
  BY <1>2, <1>7
<1> HIDE DEF f, t
<1>9. CASE Accepts(temp[t])
  <2>1. /\ file' = [file EXCEPT ![f] = temp[t]] /\ marker' = (IF f = "source" THEN NoMarker ELSE marker)
        /\ todo' = [todo EXCEPT ![p] = Tail(todo[p])] /\ pc' = [pc EXCEPT ![p] = "fetching"] /\ UNCHANGED dlock
        /\ temp[t] = pin
    BY <1>9 DEF _download_verified_file, f, t, Todo, To, Accepts
  <2>2. Tail(todo[p]) \in {<<"config">>, <<>>} /\ Tail(todo[p]) \in Seq(AllFiles \cup {"marker"})
    <3>1. Tail(<<"source", "config">>) = <<"config">> /\ Tail(<<"config">>) = <<>>
      OBVIOUS
    <3>2. Tail(todo[p]) \in {<<"config">>, <<>>}
      BY <1>6, <3>1
    <3>3. Tail(todo[p]) \in Seq(AllFiles \cup {"marker"})
      BY <1>1, <1>6
    <3> QED BY <3>2, <3>3
  <2>3. /\ Turn(p, "fetching") /\ pc'[p] = "fetching" /\ todo'[p] = Tail(todo[p]) /\ target'[p] = target[p]
        /\ had'[p] = had[p]
    <3>1. Sets(pc', pc, p, "fetching") /\ Sets(todo', todo, p, Tail(todo[p]))
      BY <2>1 DEF Sets
    <3> QED BY <1>1, <1>2, <1>3, <2>1, <2>2, <3>1, TurnTo
  <2>4. /\ file' \in [AllFiles -> Contents] /\ file'[f] = pin
        /\ \A g \in AllFiles : g # f => file'[g] = file[g]
    BY <1>7, <2>1
  <2>5. Gentle
    <3>1. \A g \in AllFiles : Verified(g) => file'[g] = pin
      BY <2>4 DEF Verified
    <3>2. file'["int8"] = file["int8"]
      BY <1>6, <2>4 DEF AllFiles
    <3> QED BY <1>4, <1>5, <3>1, <3>2 DEF Gentle
  <2>6. DiskTypes'
    <3>1. marker'.of \in Versions \cup {Absent} /\ marker'.out \in Int
      BY <1>1, <2>1 DEF DiskTypes, NoMarker, Absent
    <3> QED BY <1>1, <1>4, <1>8, <2>4, <3>1 DEF DiskTypes
  <2>7. MarkerInv'
    <3>1. CASE f = "source"
      <4>1. marker'.out = 0
        BY <2>1, <3>1 DEF NoMarker, Absent
      <4> QED BY <1>4, <1>5, <4>1 DEF MarkerInv
    <3>2. CASE f # "source"
      <4>1. file'["source"] = file["source"] /\ file'["model"] = file["model"] /\ marker' = marker
        BY <1>6, <2>1, <2>4, <3>2 DEF AllFiles
      <4> QED BY <1>1, <1>4, <1>5, <4>1 DEF MarkerInv
    <3> QED BY <3>1, <3>2
  <2>8. \A q \in Servers \ {p} : Spared(q)
    <3>1. file'["q4"] = file["q4"]
      BY <1>6, <2>4 DEF AllFiles
    <3>2. f # "marker" /\ temp' = [temp EXCEPT ![<<Head(todo[p]), pid[p]>>] = Absent]
      BY <1>2, <1>6 DEF t, f
    <3> QED BY <1>3, <1>6, <1>7, <3>1, <3>2, OwnTemp DEF f
  <2>9. HadInv(p)'
    BY <1>5, <2>3 DEF HadInv
  <2>10. OrderInv(p)'
    BY <1>1, <1>4, <1>5, <2>2, <2>3 DEF OrderInv
  <2>11. PlacedInv(p)'
    <3>1. Installed(p)' \subseteq Installed(p) \cup {f}
      BY <1>1, <1>3, <1>4, <1>6, <2>3, InstalledTail DEF f
    <3> QED BY <1>1, <2>3, <2>4, <2>5, <3>1, PlacedKept
  <2>12. ServerInv(p)'
    BY <2>3, <2>9, <2>10, <2>11 DEF ServerInv, WrittenInv
  <2> QED BY <2>3, <2>5, <2>6, <2>7, <2>8, <2>12, TurnKeeps
<1>10. CASE ~Accepts(temp[t])
  <2>1. /\ UNCHANGED <<file, marker, todo>> /\ pc' = [pc EXCEPT ![p] = "failed"] /\ dlock' = Nobody
    BY <1>10 DEF _download_verified_file, f, t, To
  <2>2. Turn(p, "failed") /\ pc'[p] = "failed" /\ target'[p] = target[p] /\ had'[p] = had[p]
    <3>1. Sets(pc', pc, p, "failed") /\ Sets(todo', todo, p, todo[p])
      BY <1>1, <2>1 DEF Sets
    <3> QED BY <1>1, <1>2, <1>3, <2>1, <3>1, TurnTo
  <2>3. Gentle
    BY <1>4, <2>1 DEF Gentle, Verified
  <2>4. DiskTypes' /\ MarkerInv'
    BY <1>1, <1>4, <1>8, <2>1 DEF DiskTypes, MarkerInv
  <2>5. \A q \in Servers \ {p} : Spared(q)
    <3>1. f # "marker" /\ temp' = [temp EXCEPT ![<<Head(todo[p]), pid[p]>>] = Absent]
      BY <1>2, <1>6 DEF t, f
    <3> QED BY <1>3, <1>6, <1>7, <2>1, <3>1, OwnTemp DEF f
  <2>6. ServerInv(p)'
    BY <1>1, <1>5, <2>2, <2>3, GivesUp
  <2> QED BY <2>2, <2>3, <2>4, <2>5, <2>6, TurnKeeps
<1> QED BY <1>9, <1>10

LEMMA KeepKeeps ==
  ASSUME StoreInv, NEW p \in Servers, Keep(p)
  PROVE  StoreInv' /\ Gentle
<1>1. /\ DiskTypes /\ ProcessTypes /\ LockTypes /\ MarkerInv /\ HadInv(p) /\ OrderInv(p) /\ PlacedInv(p)
      /\ subject \in {"stt", "zero", "nghi"} /\ target[p] \in Quants /\ pc[p] \in Places
      /\ todo[p] \in Seq(AllFiles \cup {"marker"})
  BY Before, Unset
<1>2. /\ Placing(p) /\ Keeps(Head(todo[p])) /\ todo' = [todo EXCEPT ![p] = Tail(todo[p])]
      /\ UNCHANGED <<site, disk, lock, dlock, pc, pid, target, had, left>>
  BY DEF Keep, Todo
<1>3. pc[p] = "place" /\ todo[p] # <<>> /\ Head(todo[p]) # "marker"
  BY <1>2 DEF Placing
<1>4. /\ Usable' = Usable /\ UNCHANGED <<subject, pin, file, marker, temp, snap>>
  BY <1>2, QuietHad DEF site, disk
<1>5. /\ Turn(p, "place") /\ pc'[p] = "place" /\ todo'[p] = Tail(todo[p]) /\ target'[p] = target[p]
      /\ had'[p] = had[p]
  <2>1. Sets(pc', pc, p, "place") /\ Sets(todo', todo, p, Tail(todo[p]))
    BY <1>1, <1>2, <1>3 DEF Sets, ProcessTypes
  <2>2. Tail(todo[p]) \in Seq(AllFiles \cup {"marker"})
    BY <1>1, <1>3
  <2>3. "place" \in Places /\ "place" \in Structuring /\ "place" \notin Fetching
    BY DEF Places, Structuring, Fetching
  <2> QED BY <1>1, <1>2, <1>3, <2>1, <2>2, <2>3, TurnTo
<1>6. Gentle
  BY <1>4 DEF Gentle, Verified
<1>7. Verified(Head(todo[p]))
  BY <1>2, KeptIs
<1>8. HadInv(p)'
  BY <1>1, <1>3, <1>4, <1>5 DEF HadInv
<1>9. OrderInv(p)'
  BY <1>1, <1>3, <1>4, <1>5, OrderTail
<1>10. PlacedInv(p)'
  <2>1. Installed(p)' \subseteq Installed(p) \cup {Head(todo[p])}
    BY <1>1, <1>3, <1>4, <1>5, InstalledTail
  <2>2. file'[Head(todo[p])] = pin
    BY <1>4, <1>7 DEF Verified
  <2> QED BY <1>1, <1>5, <1>6, <2>1, <2>2, PlacedKept
<1>11. ServerInv(p)'
  BY <1>5, <1>8, <1>9, <1>10 DEF ServerInv, WrittenInv
<1> QED BY <1>2, <1>5, <1>11, QuietKeeps

\* A file that is cleared was of no use.
LEMMA ClearedIs ==
  ASSUME DiskTypes, MarkerInv, NEW f \in AllFiles, f = "q4" => ~Verified("q4") /\ subject = "zero",
         file' = Cleared(f), UNCHANGED <<subject, pin, marker>>
  PROVE  /\ Gentle /\ MarkerInv' /\ file' \in [AllFiles -> Contents]
         /\ f = "q4" => ~Verified("q4")'
         /\ f # "q4" => file' = file
<1>1. file \in [AllFiles -> Contents] /\ Absent \in Contents /\ pin # Absent /\ "q4" \in AllFiles
      /\ "int8" \in AllFiles
  BY Marks DEF DiskTypes, Contents, AllFiles
<1>2. CASE f = "q4"
  <2>1. file' = [file EXCEPT !["q4"] = Absent]
    BY <1>2 DEF Cleared
  <2>2. file' \in [AllFiles -> Contents] /\ file'["q4"] = Absent
        /\ \A g \in AllFiles : g # "q4" => file'[g] = file[g]
    BY <1>1, <2>1
  <2>3. Gentle
    <3>1. \A g \in AllFiles : Verified(g) => file'[g] = pin
      BY <1>2, <2>2 DEF Verified
    <3>2. file'["int8"] = file["int8"]
      BY <1>1, <2>2
    <3> QED BY <3>1, <3>2 DEF Gentle
  <2> QED BY <1>1, <1>2, <2>2, <2>3 DEF MarkerInv, Verified
<1>3. CASE f # "q4"
  <2>1. file' = file
    BY <1>3 DEF Cleared
  <2> QED BY <1>1, <1>3, <2>1 DEF Gentle, MarkerInv, Verified
<1> QED BY <1>2, <1>3

LEMMA WriteKeeps ==
  ASSUME StoreInv, NEW p \in Servers, Write(p)
  PROVE  StoreInv' /\ Gentle
<1> DEFINE f == Head(todo[p])
<1>1. /\ DiskTypes /\ ProcessTypes /\ LockTypes /\ MarkerInv /\ HadInv(p) /\ OrderInv(p) /\ PlacedInv(p)
      /\ subject \in {"stt", "zero", "nghi"} /\ target[p] \in Quants /\ pid[p] \in Pids /\ pin \in Versions
      /\ pin # Absent
      /\ todo[p] \in Seq(AllFiles \cup {"marker"}) /\ Sets(todo, todo, p, todo[p])
  BY Before, Unset
<1>2. /\ pc[p] = "place" /\ todo[p] # <<>> /\ f # "marker" /\ ~Keeps(f) /\ Source(f) # Absent
      /\ file' = Cleared(f) /\ pc' = [pc EXCEPT ![p] = "rename"]
      /\ UNCHANGED <<site, marker, snap, lock, dlock, pid, todo, target, had, left>>
  BY DEF Write, Placing, To
<1>3. PICK made \in Makes(f) : temp' = [temp EXCEPT ![<<f, pid[p]>>] = made]
  BY DEF Write
<1>4. UNCHANGED <<subject, pin, snap, marker>>
  BY <1>2 DEF site
<1>5. /\ f \in AllFiles /\ (f = "q4" => subject = "zero" /\ ~Verified("q4"))
      /\ Source(f) = pin
  <2>1. f \in AllFiles /\ (subject # "zero" => f # "q4")
    BY <1>1, <1>2, PlaceAt
  <2>2. f = "q4" => ~Verified("q4")
    BY <1>2 DEF Keeps, KeptVerified
  <2>3. Source(f) = pin
    BY <1>1, <1>2, SourceIs
  <2> QED BY <2>1, <2>2, <2>3
<1>6. made \in Contents /\ (made = pin \/ (made = Bad /\ f = "q4"))
  BY <1>1, <1>5 DEF Makes, Contents
<1>7. /\ Turn(p, "rename") /\ pc'[p] = "rename" /\ todo'[p] = todo[p] /\ target'[p] = target[p]
      /\ had'[p] = had[p] /\ pid'[p] = pid[p]
  <2>1. Sets(pc', pc, p, "rename") /\ Sets(todo', todo, p, todo[p])
    BY <1>1, <1>2 DEF Sets
  <2>2. "rename" \in Places /\ "rename" \in Structuring /\ "rename" \notin Fetching
        /\ pc[p] \in Structuring /\ pc[p] \notin Fetching
    BY <1>2 DEF Places, Structuring, Fetching
  <2> QED BY <1>1, <1>2, <2>1, <2>2, TurnTo
<1>8. /\ Gentle /\ MarkerInv' /\ file' \in [AllFiles -> Contents]
      /\ (f = "q4" => ~Verified("q4")')
  BY <1>1, <1>2, <1>4, <1>5, ClearedIs
<1>9. temp \in [AllFiles \X Pids -> Contents] /\ <<f, pid[p]>> \in AllFiles \X Pids
  BY <1>1, <1>5 DEF DiskTypes
<1>10. DiskTypes'
  <2>1. temp' \in [AllFiles \X Pids -> Contents]
    BY <1>3, <1>6, <1>9
  <2> QED BY <1>1, <1>4, <1>8, <2>1 DEF DiskTypes
<1>11. \A q \in Servers \ {p} : Spared(q)
  BY <1>2, <1>3, <1>6, OwnTemp DEF Structuring
<1>12. HadInv(p)'
  <2>1. had'[p] => subject # "stt"
    BY <1>1, <1>2, <1>7 DEF HadInv
  <2> QED BY <1>1, <1>7, <1>8, <2>1, HadKept
<1>13. OrderInv(p)'
  <2>1. StructureOrder(p)' = StructureOrder(p)
    BY <1>4, <1>7 DEF StructureOrder
  <2>2. todo[p] # <<"marker">>
    BY <1>2
  <2> QED BY <1>1, <1>2, <1>4, <1>7, <2>1, <2>2 DEF OrderInv
<1>14. PlacedInv(p)'
  <2>1. Installed(p)' = Installed(p)
    BY <1>2, <1>4, <1>7 DEF Installed
  <2> QED BY <1>1, <1>7, <1>8, <2>1, PlacedKept
<1>15. WrittenInv(p)'
  <2>1. temp'[<<f, pid[p]>>] = made
    BY <1>3, <1>9
  <2> QED BY <1>4, <1>6, <1>7, <1>8, <2>1 DEF WrittenInv
<1>16. ServerInv(p)'
  BY <1>12, <1>13, <1>14, <1>15 DEF ServerInv
<1> QED BY <1>7, <1>8, <1>10, <1>11, <1>16, TurnKeeps

LEMMA NoSourceKeeps ==
  ASSUME StoreInv, NEW p \in Servers, NoSource(p)
  PROVE  StoreInv' /\ Gentle
<1> DEFINE f == Head(todo[p])
<1>1. /\ DiskTypes /\ ProcessTypes /\ LockTypes /\ MarkerInv /\ HadInv(p) /\ OrderInv(p) /\ PlacedInv(p)
      /\ subject \in {"stt", "zero", "nghi"} /\ target[p] \in Quants /\ had[p] \in BOOLEAN /\ pin # Absent
      /\ Sets(had, had, p, had[p])
  BY Before, Unset
<1>2. /\ pc[p] = "place" /\ todo[p] # <<>> /\ f # "marker" /\ ~Keeps(f) /\ Source(f) = Absent
      /\ file' = Cleared(f) /\ Raised(p) /\ lock' = Unlocked(p)
      /\ UNCHANGED <<site, marker, temp, snap, dlock, pid, todo, target, had, left>>
  BY DEF NoSource, Placing, Fail
<1>3. UNCHANGED <<subject, pin, snap, marker, temp>>
  BY <1>2 DEF site
<1>4. subject # "nghi" /\ f # "int8"
  BY <1>1, <1>2, SourceIs
<1>5. /\ f \in AllFiles /\ (f = "q4" => subject = "zero" /\ ~Verified("q4"))
  <2>1. f \in AllFiles /\ (subject # "zero" => f # "q4")
    BY <1>1, <1>2, PlaceAt
  <2>2. f = "q4" => ~Verified("q4")
    BY <1>2 DEF Keeps, KeptVerified
  <2> QED BY <2>1, <2>2
<1>6. /\ Turn(p, "failed") \/ Turn(p, "fallback")
      /\ pc'[p] = (IF subject = "zero" /\ (pc[p] = "sync" \/ "voice" \in Range(todo[p]))
                   THEN "fallback" ELSE "failed")
      /\ target'[p] = target[p] /\ had'[p] = had[p]
  BY <1>1, <1>2, RaisedTurns DEF Fetching
<1>7. Gentle /\ MarkerInv' /\ file' \in [AllFiles -> Contents]
  BY <1>1, <1>2, <1>3, <1>5, ClearedIs
<1>8. DiskTypes'
  BY <1>1, <1>3, <1>7 DEF DiskTypes
<1>9. \A q \in Servers \ {p} : Spared(q)
  <2>1. ASSUME NEW q \in Servers \ {p}
        PROVE  pc[q] \notin Structuring
    BY <1>1, <1>2, Alone DEF Structuring
  <2> QED BY <1>3, <2>1 DEF Spared, Structuring
<1>10. had'[p] => pc'[p] = "fallback"
  <2>1. had[p] => subject = "zero"
    BY <1>1, <1>2, <1>4 DEF HadInv
  <2>2. subject = "zero" => "voice" \in Range(todo[p])
    <3>1. subject = "zero" => todo[p] = <<"int8">> \/ "voice" \in Range(todo[p])
      BY <1>1, <1>2, PlaceAt
    <3>2. todo[p] # <<"int8">>
      BY <1>4
    <3> QED BY <3>1, <3>2
  <2> QED BY <1>6, <2>1, <2>2
<1>11. ServerInv(p)'
  BY <1>1, <1>6, <1>7, <1>10, GivesUp
<1> QED BY <1>6, <1>7, <1>8, <1>9, <1>11, TurnKeeps

\* What is renamed is a file of the order.
LEMMA RenamesSome ==
  ASSUME NEW p \in Servers, OrderInv(p), subject \in {"stt", "zero", "nghi"}, pc[p] = "rename"
  PROVE  todo[p] # <<>>
<1>1. CASE subject = "stt"
  <2>1. todo[p] \in {<<"graph", "tokens", "marker">>, <<"tokens", "marker">>}
    BY <1>1 DEF OrderInv, StructureOrder
  <2> QED BY <2>1
<1>2. CASE subject # "stt"
  BY <1>2 DEF OrderInv
<1> QED BY <1>1, <1>2

LEMMA WriteFailsKeeps ==
  ASSUME StoreInv, NEW p \in Servers, WriteFails(p)
  PROVE  StoreInv' /\ Gentle
<1> DEFINE f == Head(todo[p])
<1>1. /\ DiskTypes /\ ProcessTypes /\ LockTypes /\ MarkerInv /\ HadInv(p) /\ OrderInv(p)
      /\ subject \in {"stt", "zero", "nghi"} /\ target[p] \in Quants /\ pid[p] \in Pids
      /\ todo[p] \in Seq(AllFiles \cup {"marker"})
  BY Before
<1>2. /\ pc[p] \in {"rename", "place"} /\ (pc[p] = "place" => todo[p] # <<>>)
      /\ temp' = (IF pc[p] = "rename" THEN [temp EXCEPT ![<<f, pid[p]>>] = Absent] ELSE temp)
      /\ Raised(p) /\ lock' = Unlocked(p) /\ had' = [had EXCEPT ![p] = FALSE]
      /\ UNCHANGED <<site, file, marker, snap, dlock, pid, todo, target>>
  BY DEF WriteFails, Fail
<1>3. UNCHANGED <<subject, pin, snap, marker, file>>
  BY <1>2 DEF site
<1>4. /\ Turn(p, "failed") \/ Turn(p, "fallback")
      /\ pc'[p] = (IF subject = "zero" /\ (pc[p] = "sync" \/ "voice" \in Range(todo[p]))
                   THEN "fallback" ELSE "failed")
      /\ target'[p] = target[p] /\ had'[p] = FALSE
  <2>1. Sets(had', had, p, FALSE)
    BY <1>2 DEF Sets
  <2> QED BY <1>1, <1>2, <2>1, RaisedTurns DEF Fetching
<1>5. Gentle
  BY <1>3 DEF Gentle, Verified
<1>6. temp \in [AllFiles \X Pids -> Contents] /\ Absent \in Contents
  BY <1>1 DEF DiskTypes, Contents
<1>7. DiskTypes' /\ MarkerInv'
  <2>1. temp' \in [AllFiles \X Pids -> Contents]
    BY <1>2, <1>6
  <2> QED BY <1>1, <1>3, <2>1 DEF DiskTypes, MarkerInv
<1>8. ASSUME NEW q \in Servers \ {p}
      PROVE  Spared(q)
  <2>1. CASE pc[p] = "rename"
    <3>1. todo[p] # <<>>
      BY <1>1, <2>1, RenamesSome
    <3>2. f # "marker"
      BY <1>1, <2>1, <3>1, PlaceAt
    <3>3. temp' = [temp EXCEPT ![<<Head(todo[p]), pid[p]>>] = Absent]
      BY <1>2, <2>1
    <3> QED BY <1>3, <1>6, <2>1, <3>1, <3>2, <3>3, OwnTemp
  <2>2. CASE pc[p] # "rename"
    BY <1>2, <1>3, <2>2 DEF Spared
  <2> QED BY <2>1, <2>2
<1>9. ServerInv(p)'
  BY <1>1, <1>4, <1>5, GivesUp
<1> QED BY <1>4, <1>5, <1>7, <1>8, <1>9, TurnKeeps

LEMMA RenameKeeps ==
  ASSUME StoreInv, NEW p \in Servers, Rename(p)
  PROVE  StoreInv' /\ Gentle
<1> DEFINE f == Head(todo[p])
           t == <<f, pid[p]>>
<1>1. /\ DiskTypes /\ ProcessTypes /\ LockTypes /\ MarkerInv /\ HadInv(p) /\ OrderInv(p) /\ PlacedInv(p)
      /\ WrittenInv(p)
      /\ subject \in {"stt", "zero", "nghi"} /\ target[p] \in Quants /\ pid[p] \in Pids /\ pin \in Versions
      /\ pin # Bad
      /\ todo[p] \in Seq(AllFiles \cup {"marker"}) /\ Sets(todo, todo, p, todo[p])
  BY Before, Unset
<1>2. /\ pc[p] = "rename" /\ file' = [file EXCEPT ![f] = temp[t]]
      /\ marker' = (IF f = "model" THEN NoMarker ELSE marker)
      /\ temp' = [temp EXCEPT ![t] = Absent]
      /\ UNCHANGED <<site, snap, lock, dlock, pid, target, had, left>>
  BY DEF Rename
<1>3. todo[p] # <<>>
  BY <1>1, <1>2, RenamesSome
<1>4. /\ f \in AllFiles /\ f \notin {"source", "config"} /\ f # "marker"
      /\ (subject # "zero" => f # "q4")
      /\ (f = "q4" => todo[p] = <<target[p], "int8", "voice">> /\ target[p] = "q4")
      /\ (subject # "nghi" => f # "model")
  BY <1>1, <1>2, <1>3, PlaceAt
<1>5. temp[t] = pin \/ (temp[t] = Bad /\ f = "q4" /\ ~Verified("q4"))
  BY <1>1, <1>2 DEF WrittenInv
<1>6. UNCHANGED <<subject, pin, snap>>
  BY <1>2 DEF site
<1>7. temp \in [AllFiles \X Pids -> Contents] /\ t \in AllFiles \X Pids /\ Absent \in Contents
      /\ file \in [AllFiles -> Contents] /\ "q4" \in AllFiles /\ "int8" \in AllFiles
      /\ "model" \in AllFiles /\ "source" \in AllFiles /\ temp[t] \in Contents
  <2>1. "q4" \in AllFiles /\ "int8" \in AllFiles /\ "model" \in AllFiles /\ "source" \in AllFiles
    BY DEF AllFiles
  <2>2. temp \in [AllFiles \X Pids -> Contents] /\ t \in AllFiles \X Pids /\ Absent \in Contents
        /\ file \in [AllFiles -> Contents]
    BY <1>1, <1>4 DEF DiskTypes, Contents
  <2> HIDE DEF t
  <2> QED BY <2>1, <2>2
<1>8. temp' = [temp EXCEPT ![<<Head(todo[p]), pid[p]>>] = Absent]
  BY <1>2
<1>9. \A q \in Servers \ {p} : Spared(q)
  BY <1>2, <1>3, <1>4, <1>7, <1>8, OwnTemp DEF Structuring
<1>10. pc[p] \in Structuring /\ pc[p] \notin Fetching
  BY <1>2 DEF Structuring, Fetching
<1>11. IF subject = "zero" /\ temp[t] # pin
       THEN pc' = [pc EXCEPT ![p] = "wrong"] /\ todo' = todo
       ELSE pc' = [pc EXCEPT ![p] = "place"] /\ todo' = [todo EXCEPT ![p] = Tail(todo[p])]
  BY DEF Rename, To, Todo
<1> HIDE DEF f, t
<1>12. /\ file' \in [AllFiles -> Contents] /\ file'[f] = temp[t]
       /\ \A g \in AllFiles : g # f => file'[g] = file[g]
  BY <1>2, <1>4, <1>7
<1>13. Gentle
  <2>1. \A g \in AllFiles : Verified(g) => file'[g] = pin
    BY <1>5, <1>12 DEF Verified
  <2>2. file["int8"] \in {Absent, pin} => file'["int8"] \in {Absent, pin}
    <3>1. CASE f = "int8"
      <4>1. temp[t] = pin
        BY <1>5, <3>1
      <4>2. file'["int8"] = pin
        BY <1>12, <3>1, <4>1
      <4> QED BY <4>2
    <3>2. CASE f # "int8"
      BY <1>7, <1>12, <3>2
    <3> QED BY <3>1, <3>2
  <2>3. subject = "stt" => marker' = marker
    BY <1>2, <1>4
  <2> QED BY <1>6, <2>1, <2>2, <2>3 DEF Gentle
<1>14. DiskTypes'
  <2>1. temp' \in [AllFiles \X Pids -> Contents]
    BY <1>2, <1>7
  <2>2. marker'.of \in Versions \cup {Absent} /\ marker'.out \in Int
    BY <1>1, <1>2 DEF DiskTypes, NoMarker, Absent
  <2> QED BY <1>1, <1>6, <1>12, <2>1, <2>2 DEF DiskTypes
<1>15. MarkerInv'
  <2>1. subject = "stt" => marker' = marker
    BY <1>2, <1>4
  <2>2. subject = "stt" => marker'.of = marker'.out
    BY <1>1, <2>1 DEF MarkerInv
  <2>3. CASE f = "model"
    <3>1. marker'.out = 0
      BY <1>2, <2>3 DEF NoMarker, Absent
    <3> QED BY <1>6, <2>2, <3>1 DEF MarkerInv
  <2>4. CASE f # "model"
    <3>1. file'["source"] = file["source"] /\ file'["model"] = file["model"] /\ marker' = marker
      BY <1>2, <1>4, <1>7, <1>12, <2>4
    <3> QED BY <1>1, <1>6, <2>2, <3>1 DEF MarkerInv
  <2> QED BY <2>3, <2>4
<1>16. CASE subject = "zero" /\ temp[t] # pin
  <2>1. f = "q4" /\ temp[t] = Bad
    BY <1>5, <1>16
  <2>2. todo[p] = <<target[p], "int8", "voice">> /\ target[p] = "q4"
    BY <1>4, <2>1
  <2>3. /\ Turn(p, "wrong") /\ pc'[p] = "wrong" /\ todo'[p] = todo[p] /\ target'[p] = target[p]
        /\ had'[p] = had[p]
    <3>1. Sets(pc', pc, p, "wrong") /\ Sets(todo', todo, p, todo[p])
      BY <1>1, <1>11, <1>16 DEF Sets
    <3>2. "wrong" \in Places /\ "wrong" \in Structuring /\ "wrong" \notin Fetching
      BY DEF Places, Structuring, Fetching
    <3> QED BY <1>1, <1>2, <1>10, <3>1, <3>2, TurnTo
  <2>4. HadInv(p)'
    BY <1>1, <1>13, <1>16, <2>3, HadKept
  <2>5. OrderInv(p)'
    BY <1>6, <1>16, <2>2, <2>3 DEF OrderInv
  <2>6. PlacedInv(p)'
    <3>1. Installed(p)' = Installed(p)
      BY <1>2, <1>6, <2>3 DEF Installed
    <3> QED BY <1>1, <1>13, <2>3, <3>1, PlacedKept
  <2>7. WrittenInv(p)'
    BY <1>1, <1>6, <1>12, <2>1, <2>3 DEF WrittenInv, Verified
  <2>8. ServerInv(p)'
    BY <2>4, <2>5, <2>6, <2>7 DEF ServerInv
  <2> QED BY <1>9, <1>13, <1>14, <1>15, <2>3, <2>8, TurnKeeps
<1>17. CASE ~(subject = "zero" /\ temp[t] # pin)
  <2>1. temp[t] = pin
    BY <1>4, <1>5, <1>17
  <2>2. Tail(todo[p]) \in Seq(AllFiles \cup {"marker"})
    BY <1>1, <1>3
  <2>3. /\ Turn(p, "place") /\ pc'[p] = "place" /\ todo'[p] = Tail(todo[p]) /\ target'[p] = target[p]
        /\ had'[p] = had[p]
    <3>1. Sets(pc', pc, p, "place") /\ Sets(todo', todo, p, Tail(todo[p]))
      BY <1>11, <1>17 DEF Sets
    <3>2. "place" \in Places /\ "place" \in Structuring /\ "place" \notin Fetching
      BY DEF Places, Structuring, Fetching
    <3> QED BY <1>1, <1>2, <1>10, <2>2, <3>1, <3>2, TurnTo
  <2>4. HadInv(p)'
    <3>1. had'[p] => subject # "stt"
      BY <1>1, <1>2, <2>3 DEF HadInv
    <3> QED BY <1>1, <1>13, <2>3, <3>1, HadKept
  <2>5. OrderInv(p)'
    BY <1>1, <1>2, <1>3, <1>6, <2>3, OrderTail
  <2>6. PlacedInv(p)'
    <3>1. Installed(p)' \subseteq Installed(p) \cup {f}
      BY <1>1, <1>2, <1>3, <1>6, <2>3, InstalledTail DEF f
    <3>2. file'[f] = pin
      BY <1>12, <2>1
    <3> QED BY <1>1, <1>13, <2>3, <3>1, <3>2, PlacedKept
  <2>7. ServerInv(p)'
    BY <2>3, <2>4, <2>5, <2>6 DEF ServerInv, WrittenInv
  <2> QED BY <1>9, <1>13, <1>14, <1>15, <2>3, <2>7, TurnKeeps
<1> QED BY <1>16, <1>17

LEMMA WrongKeeps ==
  ASSUME StoreInv, NEW p \in Servers, Wrong(p)
  PROVE  StoreInv' /\ Gentle
<1>1. /\ DiskTypes /\ ProcessTypes /\ LockTypes /\ MarkerInv /\ HadInv(p) /\ OrderInv(p) /\ WrittenInv(p)
      /\ subject \in {"stt", "zero", "nghi"} /\ had[p] \in BOOLEAN /\ Sets(had, had, p, had[p])
  BY Before, Unset
<1>2. /\ pc[p] = "wrong" /\ file' = Cleared(Head(todo[p])) /\ Raised(p) /\ lock' = Unlocked(p)
      /\ UNCHANGED <<site, marker, temp, snap, dlock, pid, todo, target, had, left>>
  BY DEF Wrong, Fail
<1>3. UNCHANGED <<subject, pin, snap, marker, temp>>
  BY <1>2 DEF site
<1>4. subject = "zero" /\ todo[p] = <<target[p], "int8", "voice">> /\ target[p] = "q4"
  BY <1>1, <1>2 DEF OrderInv
<1>5. Head(todo[p]) = "q4" /\ "voice" \in Range(todo[p]) /\ ~Verified("q4") /\ "q4" \in AllFiles
  <2>1. Head(todo[p]) = "q4"
    BY <1>4
  <2>2. "voice" \in Range(todo[p])
    BY <1>4 DEF Range
  <2>3. ~Verified("q4") /\ "q4" \in AllFiles
    BY <1>1, <1>2 DEF WrittenInv, AllFiles
  <2> QED BY <2>1, <2>2, <2>3
<1>6. /\ Turn(p, "failed") \/ Turn(p, "fallback")
      /\ pc'[p] = "fallback" /\ target'[p] = target[p] /\ had'[p] = had[p]
  BY <1>1, <1>2, <1>4, <1>5, RaisedTurns DEF Fetching
<1>7. Gentle /\ MarkerInv' /\ file' \in [AllFiles -> Contents]
  BY <1>1, <1>2, <1>3, <1>4, <1>5, ClearedIs
<1>8. DiskTypes'
  BY <1>1, <1>3, <1>7 DEF DiskTypes
<1>9. \A q \in Servers \ {p} : Spared(q)
  <2>1. ASSUME NEW q \in Servers \ {p}
        PROVE  pc[q] \notin Structuring
    BY <1>1, <1>2, Alone DEF Structuring
  <2> QED BY <1>3, <2>1 DEF Spared, Structuring
<1>10. ServerInv(p)'
  BY <1>1, <1>4, <1>6, <1>7, GivesUp
<1> QED BY <1>6, <1>7, <1>8, <1>9, <1>10, TurnKeeps

LEMMA RecordKeeps ==
  ASSUME StoreInv, NEW p \in Servers, Record(p)
  PROVE  StoreInv' /\ Gentle
<1>1. /\ DiskTypes /\ ProcessTypes /\ LockTypes /\ MarkerInv /\ HadInv(p) /\ OrderInv(p) /\ PlacedInv(p)
      /\ subject \in {"stt", "zero", "nghi"} /\ target[p] \in Quants /\ pin \in Versions
      /\ todo[p] \in Seq(AllFiles \cup {"marker"})
  BY Before
<1>2. /\ pc[p] = "place" /\ todo[p] # <<>> /\ Head(todo[p]) = "marker"
      /\ marker' = (IF subject = "stt" THEN [of |-> pin, out |-> file["tokens"]]
                                       ELSE [of |-> file["ownconfig"], out |-> 1])
      /\ todo' = [todo EXCEPT ![p] = Tail(todo[p])]
      /\ UNCHANGED <<site, file, temp, snap, lock, dlock, pc, pid, target, had, left>>
  BY DEF Record, Todo
<1>3. UNCHANGED <<subject, pin, file, temp, snap>>
  BY <1>2 DEF site
<1>4. subject # "zero"
  BY <1>1, <1>2, PlaceAt
<1>5. /\ subject = "nghi" => Verified("source") /\ Verified("ownconfig") /\ Verified("model")
      /\ subject = "stt" => Verified("tokens")
  BY <1>1, <1>2, PlaceHas
<1>6. /\ Turn(p, "place") /\ pc'[p] = "place" /\ todo'[p] = Tail(todo[p]) /\ target'[p] = target[p]
      /\ had'[p] = had[p]
  <2>1. Sets(pc', pc, p, "place") /\ Sets(todo', todo, p, Tail(todo[p]))
    BY <1>1, <1>2 DEF Sets, ProcessTypes
  <2>2. Tail(todo[p]) \in Seq(AllFiles \cup {"marker"})
    BY <1>1, <1>2
  <2>3. "place" \in Places /\ "place" \in Structuring /\ "place" \notin Fetching
    BY DEF Places, Structuring, Fetching
  <2> QED BY <1>1, <1>2, <2>1, <2>2, <2>3, TurnTo
<1>7. Gentle
  BY <1>2, <1>3 DEF Gentle, Verified
<1>8. ASSUME subject = "stt"
      PROVE  DiskTypes' /\ MarkerInv'
  <2>1. marker' = [of |-> pin, out |-> pin]
    BY <1>2, <1>5, <1>8 DEF Verified
  <2>2. marker'.of = pin /\ marker'.out = pin /\ pin \in Int
    BY <1>1, <2>1, StoreAssumption
  <2> QED BY <1>1, <1>3, <1>8, <2>2 DEF DiskTypes, MarkerInv
<1>9. ASSUME subject = "nghi"
      PROVE  DiskTypes' /\ MarkerInv'
  <2>1. marker' = [of |-> pin, out |-> 1]
    BY <1>2, <1>5, <1>9 DEF Verified
  <2>2. marker'.of = pin /\ marker'.out = 1
    BY <2>1
  <2> QED BY <1>1, <1>3, <1>5, <1>9, <2>2 DEF DiskTypes, MarkerInv, Verified
<1>10. DiskTypes' /\ MarkerInv'
  BY <1>1, <1>4, <1>8, <1>9
<1>11. \A q \in Servers \ {p} : Spared(q)
  BY <1>3 DEF Spared
<1>12. HadInv(p)'
  <2>1. had'[p] => subject # "stt"
    BY <1>1, <1>2, <1>6 DEF HadInv
  <2> QED BY <1>1, <1>6, <1>7, <2>1, HadKept
<1>13. OrderInv(p)'
  BY <1>1, <1>2, <1>3, <1>6, OrderTail
<1>14. PlacedInv(p)'
  <2>1. Installed(p)' \subseteq Installed(p)
    <3>1. Installed(p)' \subseteq Installed(p) \cup {Head(todo[p])}
      BY <1>1, <1>2, <1>3, <1>6, InstalledTail
    <3>2. "marker" \notin Installed(p)'
      BY <1>1, <1>3, <1>4, <1>6 DEF Installed
    <3> QED BY <1>2, <3>1, <3>2
  <2> QED BY <1>1, <1>6, <1>7, <2>1, PlacedKept
<1>15. ServerInv(p)'
  BY <1>6, <1>12, <1>13, <1>14 DEF ServerInv, WrittenInv
<1> QED BY <1>6, <1>7, <1>10, <1>11, <1>15, TurnKeeps

--------------------------------------------------------------------------------
(* What happens between two runs.                                          *)

LEMMA OffHolds ==
  ASSUME StoreInv, AllOff, UNCHANGED <<subject, lock, dlock, pc, pid, todo, target, had>>,
         DiskTypes', MarkerInv'
  PROVE  StoreInv'
<1>1. ProcessTypes /\ LockTypes
  BY TypesAre DEF StoreInv
<1>2. TypeInv'
  <2>1. ProcessTypes' /\ LockTypes'
    BY <1>1 DEF ProcessTypes, LockTypes
  <2> QED BY <2>1, TypesNext
<1>3. ASSUME NEW p \in Servers
      PROVE  ServerInv(p)'
  <2>1. pc[p] = "off" /\ OrderInv(p) /\ HadInv(p)
    BY Before DEF AllOff
  <2>2. pc'[p] = "off" /\ ~had'[p]
    BY <2>1 DEF HadInv
  <2>3. HadInv(p)'
    BY <2>2 DEF HadInv
  <2> QED BY <2>1, <2>2, <2>3, RestingHolds DEF Resting, OrderInv
<1> QED BY <1>2, <1>3 DEF StoreInv

LEMMA DamageKeeps ==
  ASSUME StoreInv, Damage
  PROVE  StoreInv'
<1>1. DiskTypes /\ MarkerInv
  BY TypesAre DEF StoreInv
<1>2. AllOff /\ UNCHANGED <<site, temp, lock, dlock, pc, pid, todo, target, had>>
  BY DEF Damage
<1>3. UNCHANGED <<subject, pin, temp>> /\ subject \in {"stt", "zero", "nghi"}
  BY <1>1, <1>2 DEF site, DiskTypes
<1>4. file \in [AllFiles -> Contents] /\ Absent \in Contents /\ Bad \in Contents
  BY <1>1 DEF DiskTypes, Contents
<1>5. ASSUME NEW f \in Layout, NEW with \in {Absent, Bad}, file' = [file EXCEPT ![f] = with],
             marker' = (IF f \in {"source", "model"} THEN NoMarker ELSE marker), UNCHANGED snap
      PROVE  DiskTypes' /\ MarkerInv'
  <2>1. f \in AllFiles /\ "source" \in AllFiles /\ "model" \in AllFiles
    BY <1>3 DEF Layout, AllFiles
  <2>2. file' \in [AllFiles -> Contents] /\ \A g \in AllFiles : g # f => file'[g] = file[g]
    BY <1>4, <1>5, <2>1
  <2>3. marker'.of \in Versions \cup {Absent} /\ marker'.out \in Int
    BY <1>1, <1>5 DEF DiskTypes, NoMarker, Absent
  <2>4. DiskTypes'
    BY <1>1, <1>3, <1>5, <2>2, <2>3 DEF DiskTypes
  <2>5. CASE f \in {"source", "model"}
    <3>1. marker'.of = marker'.out /\ marker'.out = 0
      BY <1>5, <2>5 DEF NoMarker, Absent
    <3> QED BY <2>4, <3>1 DEF MarkerInv
  <2>6. CASE f \notin {"source", "model"}
    <3>1. marker' = marker /\ file'["source"] = file["source"] /\ file'["model"] = file["model"]
      BY <1>5, <2>1, <2>2, <2>6
    <3> QED BY <1>1, <1>3, <2>4, <3>1 DEF MarkerInv
  <2> QED BY <2>5, <2>6
<1>6. ASSUME NEW v \in Versions, NEW f \in Layout \cap {"graph", "core", "q8", "voice"},
             snap' = [snap EXCEPT ![v] = f], UNCHANGED <<file, marker>>
      PROVE  DiskTypes' /\ MarkerInv'
  <2>1. snap' \in [Versions -> {"absent", "whole", "graph", "core", "q8", "voice"}]
    BY <1>1, <1>6 DEF DiskTypes
  <2> QED BY <1>1, <1>3, <1>6, <2>1 DEF DiskTypes, MarkerInv
<1>7. DiskTypes' /\ MarkerInv'
  BY <1>5, <1>6 DEF Damage
<1> QED BY <1>2, <1>3, <1>7, OffHolds

LEMMA UpgradeKeeps ==
  ASSUME StoreInv, Upgrade
  PROVE  StoreInv'
<1>1. DiskTypes /\ MarkerInv
  BY TypesAre DEF StoreInv
<1>2. /\ AllOff /\ pin' \in Versions
      /\ UNCHANGED <<subject, file, marker, temp, snap, lock, dlock, pc, pid, todo, target, had>>
  BY DEF Upgrade, disk
<1>3. DiskTypes' /\ MarkerInv'
  BY <1>1, <1>2 DEF DiskTypes, MarkerInv
<1> QED BY <1>2, <1>3, OffHolds

--------------------------------------------------------------------------------
(* The theorems.                                                           *)

LEMMA StoreStarts == StoreInit => StoreInv
<1> SUFFICES ASSUME StoreInit
             PROVE  StoreInv
  OBVIOUS
<1>1. /\ subject \in {"stt", "zero", "nghi"} /\ file = [f \in AllFiles |-> Absent] /\ marker = NoMarker
      /\ temp = [t \in AllFiles \X Pids |-> Absent] /\ snap = [v \in Versions |-> "absent"]
      /\ pin \in Versions /\ lock = Nobody /\ dlock = Nobody
      /\ pc = [p \in Servers |-> "off"] /\ pid = [p \in Servers |-> AnyPid]
      /\ todo = [p \in Servers |-> <<>>] /\ target = [p \in Servers |-> "q8"]
      /\ had = [p \in Servers |-> FALSE]
  BY StoreAssumption DEF StoreInit
<1>2. DiskTypes
  <2>1. Absent \in Contents /\ Absent \in Int
    BY DEF Contents, Absent
  <2>2. marker.of = Absent /\ marker.out = Absent
    BY <1>1 DEF NoMarker
  <2> QED BY <1>1, <2>1, <2>2 DEF DiskTypes
<1>3. ProcessTypes /\ LockTypes
  <2>1. "off" \in Places /\ "off" \notin Structuring /\ "off" \notin Fetching /\ "q8" \in Quants
    BY DEF Places, Structuring, Fetching, Quants
  <2> QED BY <1>1, <2>1, Marks DEF ProcessTypes, LockTypes
<1>4. MarkerInv
  BY <1>1 DEF MarkerInv, NoMarker, Absent
<1>5. ASSUME NEW p \in Servers
      PROVE  ServerInv(p)
  <2>1. pc[p] = "off" /\ target[p] = "q8" /\ had[p] = FALSE
    BY <1>1
  <2>2. OrderInv(p) /\ HadInv(p) /\ WrittenInv(p)
    BY <2>1 DEF OrderInv, HadInv, WrittenInv
  <2>3. PlacedInv(p)
    BY <2>1 DEF PlacedInv, Installed
  <2> QED BY <2>2, <2>3 DEF ServerInv
<1> QED BY <1>2, <1>3, <1>4, <1>5, TypesAre DEF StoreInv

\* Whatever a server does, what is as pinned stays.
LEMMA ServerStep ==
  ASSUME StoreInv, NEW p \in Servers, download_models(p) \/ Step(p) \/ WriteFails(p) \/ Crash(p) \/ Stop(p)
  PROVE  StoreInv' /\ Gentle
BY StartKeeps, WriteFailsKeeps, CrashKeeps, StopKeeps, SweepKeeps, LookReadyKeeps, LookMissingKeeps,
   SyncKeeps, SyncFailsKeeps, FallbackKeeps, FetchLockKeeps, FetchKeeps, DownloadKeeps, FetchDoneKeeps,
   LockKeeps, KeepKeeps, WriteKeeps, NoSourceKeeps, RenameKeeps, WrongKeeps, RecordKeeps, PlacedKeeps
DEF Step

LEMMA StoreGoesOn == StoreInv /\ [StoreNext]_store_vars => StoreInv'
<1> SUFFICES ASSUME StoreInv, [StoreNext]_store_vars
             PROVE  StoreInv'
  OBVIOUS
<1>1. CASE \E p \in Servers : download_models(p) \/ Step(p) \/ WriteFails(p) \/ Crash(p) \/ Stop(p)
  BY <1>1, ServerStep
<1>2. CASE Damage
  BY <1>2, DamageKeeps
<1>3. CASE Upgrade
  BY <1>3, UpgradeKeeps
<1>4. CASE UNCHANGED store_vars
  <2>1. UNCHANGED <<subject, pin, file, marker, temp, snap, lock, dlock, pc, pid, todo, target, had>>
    BY <1>4 DEF store_vars, site, disk
  <2>2. DiskTypes /\ ProcessTypes /\ LockTypes /\ MarkerInv /\ \A p \in Servers : ServerInv(p)
    BY TypesAre DEF StoreInv
  <2>3. DiskTypes' /\ ProcessTypes' /\ LockTypes' /\ MarkerInv'
    BY <2>1, <2>2 DEF DiskTypes, ProcessTypes, LockTypes, MarkerInv
  <2>4. Gentle
    BY <2>1 DEF Gentle, Verified
  <2>5. ASSUME NEW p \in Servers
        PROVE  ServerInv(p)'
    <3>1. Still(p) /\ Spared(p) /\ target[p] \in Quants
      BY <2>1, <2>2 DEF Still, Spared, ProcessTypes
    <3> QED BY <2>2, <2>4, <3>1, OthersKeep
  <2> QED BY <2>3, <2>5, TypesNext DEF StoreInv
<1> QED BY <1>1, <1>2, <1>3, <1>4 DEF StoreNext

\* The files, the temporary files, the sidecar and the processes fit together at all times.
THEOREM StoreIsSound == StoreSpec => []StoreInv
BY StoreStarts, StoreGoesOn, PTL DEF StoreSpec

LEMMA SoundTells == StoreInv => FilesTrue
<1> SUFFICES ASSUME StoreInv
             PROVE  FilesTrue
  OBVIOUS
<1>1. DiskTypes /\ MarkerInv
  BY TypesAre DEF StoreInv
<1>2. StoreTypeOK
  BY DEF StoreInv, TypeInv
<1>3. TempIntact
  <2>1. ASSUME NEW p \in Servers, pc[p] \in {"rename", "fetched"}
        PROVE  temp[<<Head(todo[p]), pid[p]>>] # Absent
    <3>1. WrittenInv(p) /\ pin # Absent
      BY Before
    <3> QED BY <2>1, <3>1, Marks DEF WrittenInv
  <2> QED BY <2>1 DEF TempIntact
<1>4. ReadyIsWhole
  <2>1. ASSUME NEW p \in Servers, pc[p] = "ready"
        PROVE  CASE subject = "stt"  -> Verified("graph") /\ Verified("tokens")
                 [] subject = "zero" -> _verify_existing_zerotts_candidate(target[p])
                 [] subject = "nghi" -> \A f \in {"ownconfig", "tokens", "model"} : Verified(f)
    <3>1. PlacedInv(p) /\ target[p] \in Quants /\ subject \in {"stt", "zero", "nghi"}
      BY Before
    <3>2. CASE subject = "stt"
      <4>1. Installed(p) = {"graph", "tokens"}
        BY <2>1, <3>2 DEF Installed
      <4> QED BY <3>1, <3>2, <4>1 DEF PlacedInv
    <3>3. CASE subject = "zero"
      <4>1. {"core", target[p], "voice"} \subseteq Installed(p)
        BY <2>1, <3>1, <3>3 DEF Installed, Quants
      <4> QED BY <2>1, <3>1, <3>3, <4>1 DEF PlacedInv, _verify_existing_zerotts_candidate,
                                           _verify_candidate_artifacts
    <3>4. CASE subject = "nghi"
      <4>1. {"ownconfig", "tokens", "model"} \subseteq Installed(p)
        BY <2>1, <3>4 DEF Installed
      <4> QED BY <3>1, <3>4, <4>1 DEF PlacedInv
    <3> QED BY <3>1, <3>2, <3>3, <3>4
  <2> QED BY <2>1 DEF ReadyIsWhole
<1>5. MarkerTells
  <2>1. ASSUME subject = "nghi", _is_prepared_for_sherpa
        PROVE  file["model"] = file["ownconfig"] /\ file["model"] = file["source"]
    <3>1. marker.of = file["ownconfig"] /\ marker.out = 1
      BY <2>1 DEF _is_prepared_for_sherpa
    <3> QED BY <1>1, <2>1, <3>1 DEF MarkerInv
  <2> QED BY <1>1, <2>1 DEF MarkerTells, MarkerInv
<1> QED BY <1>2, <1>3, <1>4, <1>5 DEF FilesTrue

\* A rename finds the file its process wrote, a ready server has all its files as pinned,
\* and a sidecar that matches tells the truth, whatever the other servers do and wherever
\* one crashes.
THEOREM FilesAreTrue == StoreSpec => []FilesTrue
BY StoreIsSound, SoundTells, PTL

\* A start that finds a usable model does not fail unless a write does, and while a server
\* runs a file of the pinned version is not replaced.
THEOREM WorkIsKept == StoreSpec => WorkKept
<1>1. StoreInv => UsableIsUsed
  <2> SUFFICES ASSUME StoreInv, NEW p \in Servers, pc[p] = "failed"
               PROVE  ~had[p]
    BY DEF UsableIsUsed
  <2>1. HadInv(p)
    BY Before
  <2> QED BY <2>1 DEF HadInv
<1>2. StoreInv /\ [StoreNext]_store_vars =>
        [\A f \in AllFiles : ~AllOff /\ Verified(f) => file'[f] = pin]_store_vars
  <2> SUFFICES ASSUME StoreInv, StoreNext, NEW f \in AllFiles, ~AllOff, Verified(f)
               PROVE  file'[f] = pin
    OBVIOUS
  <2>1. ~Damage /\ ~Upgrade
    BY DEF Damage, Upgrade
  <2>2. PICK p \in Servers : download_models(p) \/ Step(p) \/ WriteFails(p) \/ Crash(p) \/ Stop(p)
    BY <2>1 DEF StoreNext
  <2>3. Gentle
    BY <2>2, ServerStep
  <2> QED BY <2>3 DEF Gentle
<1> QED BY <1>1, <1>2, StoreIsSound, PTL DEF WorkKept, VerifiedStays, StoreSpec
================================================================================
