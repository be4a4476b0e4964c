------------------------------ MODULE AudioCache ------------------------------
(***************************************************************************)
(* The result cache of cache.py: PersistentAudioCache, a directory of      *)
(* files, and its mirror in memory, BoundedLruCache.  Every method runs    *)
(* under a lock and is one step.  A process may die at any time and the    *)
(* next one finds the files.  A value is its accounted size.               *)
(***************************************************************************)
EXTENDS Integers, Sequences, FiniteSetsExt, SequencesExt, Subsequences

CONSTANTS
  Keys,           \* cache keys: digests of text and voice
  MemEntries, MemBytes, MemItem,    \* limits of the memory cache
  MaxEntries, MaxBytes, DiskItem,   \* limits of the directory
  Directories,    \* what the first process may find on disk
  Worlds,         \* records: sizes[k], the sizes that a result of k may have, and
                  \* faults, what may go wrong in one call
  PruneFraction,  \* max_entries // PruneFraction puts lie between two prunings; 16 in the code
  MaxTemps        \* bound: temporary files left behind

VARIABLES
  world,   \* one of Worlds; it does not change
  mem,     \* memory: its items from the least to the most recently used, and _total_bytes
  disk,    \* directory: items by modification time, _disk_total_bytes, _disk_entries,
           \* temporary files that are young and that are old enough to be removed
  puts,    \* _puts_since_prune
  reply    \* what the last call said the cache holds: <<>> or <<key, size>>

vars == <<world, mem, disk, puts, reply>>

Items == [key : Keys, size : Nat \ {0}, idle : BOOLEAN, sound : BOOLEAN]

\* Items of one sequence have distinct keys, and those that are idle come first.
LruOrder(s) ==
  \A i, j \in DOMAIN s : i < j => s[i].key # s[j].key /\ (s[j].idle => s[i].idle)

Queues == {s \in Seq(Items) : LruOrder(s)}
Faults == [stuck : SUBSET Keys, listed : BOOLEAN, written : BOOLEAN, leaked : BOOLEAN]

ASSUME CacheAssumption ==
  /\ \A w \in Worlds : (\A k \in Keys : w.sizes[k] \subseteq Nat \ {0}) /\ w.faults \subseteq Faults
  /\ Directories \subseteq Queues
  /\ PruneFraction \in Nat \ {0}
  /\ {MemEntries, MemBytes, MemItem, MaxEntries, MaxBytes, DiskItem, MaxTemps} \subseteq Nat

\* stuck: files that cannot be deleted; listed: the directory can be read; written: the
\* value can be written; leaked: the temporary file of a failed write stays.
Healthy == [stuck |-> {}, listed |-> TRUE, written |-> TRUE, leaked |-> FALSE]

Item(k, n) == [key |-> k, size |-> n, idle |-> FALSE, sound |-> TRUE]

NonNegative(n) == IF n < 0 THEN 0 ELSE n
SizeSum(s) ==
  LET sum[n \in 0..Len(s)] == IF n = 0 THEN 0 ELSE sum[n - 1] + s[n].size IN sum[Len(s)]

Oldest(s, n)   == SubSeq(s, 1, n)
Newest(s, n)   == SubSeq(s, n + 1, Len(s))

\* The idle items, which come first, and the others.
Expired(s)     == Min({n \in 0..Len(s) : n = Len(s) \/ ~s[n + 1].idle})
Idle(s)        == Oldest(s, Expired(s))
Live(s)        == Newest(s, Expired(s))

\* There is one item for a key at most.
Has(s, k)      == \E i \in DOMAIN s : s[i].key = k
Place(s, k)    == CHOOSE i \in DOMAIN s : s[i].key = k
Find(s, k)     == s[Place(s, k)]
Without(s, k)  == IF Has(s, k) THEN RemoveAt(s, Place(s, k)) ELSE s
SizeIn(s, k)   == IF Has(s, k) THEN Find(s, k).size ELSE 0
Refreshed(s, k) == IF Has(s, k) THEN Append(Without(s, k), [Find(s, k) EXCEPT !.idle = FALSE])
                   ELSE s

\* How many of the oldest items go until the rest meets both limits; the first one that
\* cannot be deleted ends the loop.
Surplus(s, total, entries, bytes, stuck) ==
  Min({n \in 0..Len(s) : \/ n = Len(s)
                         \/ s[n + 1].key \in stuck
                         \/ Len(s) - n <= entries /\ total - SizeSum(Oldest(s, n)) <= bytes})

--------------------------------------------------------------------------------
(* BoundedLruCache. *)

MemPrune(m) ==
  [queue |-> Live(m.queue),
   total |-> m.total - SizeSum(Idle(m.queue))]

MemAccepts(n) == MemEntries > 0 /\ n <= MemItem /\ n <= MemBytes

\* Faulty: the size of the entry that is replaced is not given back.
MemPutTwice(m, k, n) ==
  IF ~MemAccepts(n) THEN m
  ELSE LET queue == Append(Without(MemPrune(m).queue, k), Item(k, n))
           total == MemPrune(m).total + n
           gone  == Surplus(queue, total, MemEntries, MemBytes, {})
       IN  [queue |-> Newest(queue, gone), total |-> total - SizeSum(Oldest(queue, gone))]

\* Faulty: an entry that is replaced keeps its place in the order of use.
MemPutInPlace(m, k, n) ==
  IF ~MemAccepts(n) THEN m
  ELSE LET pruned == MemPrune(m)
           queue  == IF Has(pruned.queue, k)
                     THEN [i \in DOMAIN pruned.queue |->
                             IF pruned.queue[i].key = k THEN Item(k, n) ELSE pruned.queue[i]]
                     ELSE Append(pruned.queue, Item(k, n))
           total  == pruned.total - SizeIn(pruned.queue, k) + n
           gone   == Surplus(queue, total, MemEntries, MemBytes, {})
       IN  [queue |-> Newest(queue, gone), total |-> total - SizeSum(Oldest(queue, gone))]

MemPut(m, k, n) ==
  IF ~MemAccepts(n) THEN m
  ELSE LET pruned == MemPrune(m)
           queue  == Append(Without(pruned.queue, k), Item(k, n))
           total  == pruned.total - SizeIn(pruned.queue, k) + n
           gone   == Surplus(queue, total, MemEntries, MemBytes, {})
       IN  [queue |-> Newest(queue, gone), total |-> total - SizeSum(Oldest(queue, gone))]

--------------------------------------------------------------------------------
(* The directory. *)

\* Faulty: the total is reduced by what goes and not counted again.
PruneSubtracts(d, entries, bytes, f) ==
  IF ~f.listed THEN d
  ELSE LET live == Live(d.files)
           gone == Surplus(live, d.total, entries, bytes, f.stuck)
       IN  [d EXCEPT !.files = Newest(live, gone), !.total = @ - SizeSum(Oldest(live, gone)),
                     !.entries = Len(live) - gone, !.old = 0]

\* _prune_disk_entries: idle files go, then the oldest until the limits are met.  Files
\* that are idle and cannot be deleted are not counted.
Prune(d, entries, bytes, f) ==
  IF ~f.listed THEN d
  ELSE LET live == Live(d.files)
           left == Picked(d.files, {i \in 1..Expired(d.files) : d.files[i].key \in f.stuck})
           rest == Newest(live, Surplus(live, SizeSum(live), entries, bytes, f.stuck))
       IN  [d EXCEPT !.files = left \o rest, !.total = SizeSum(rest),
                     !.entries = Len(rest), !.old = 0]

PruneToLimits(d, f) == Prune(d, MaxEntries, MaxBytes, f)
PrunePeriod ==
  IF MaxEntries \div PruneFraction > 1 THEN MaxEntries \div PruneFraction ELSE 1

\* _evict_file_from_disk.
Evict(d, k, f) ==
  IF k \in f.stuck THEN d
  ELSE [d EXCEPT !.files = Without(@, k), !.total = NonNegative(@ - SizeIn(d.files, k)),
                 !.entries = NonNegative(@ - 1)]

Usable(i) == ~i.idle /\ i.sound /\ i.size <= DiskItem /\ i.size <= MaxBytes

Start(files, f, young, old) ==
  PruneToLimits([files |-> files, total |-> 0, entries |-> 0, young |-> young, old |-> old], f)

NoMemory == [queue |-> <<>>, total |-> 0]

Init ==
  /\ mem = NoMemory
  /\ world \in Worlds
  /\ \E files \in Directories, f \in world.faults : disk = Start(files, f, 0, 0)
  /\ puts = 0
  /\ reply = <<>>

--------------------------------------------------------------------------------
(* get *)

\* Faulty: the file of a value that is served from memory looks unused.
GetFromMemoryOnly(k) ==
  /\ Has(Live(mem.queue), k)
  /\ mem' = [MemPrune(mem) EXCEPT !.queue = Refreshed(@, k)]
  /\ reply' = <<k, Find(mem.queue, k).size>>
  /\ UNCHANGED <<world, disk, puts>>

GetFromMemory(k) ==
  /\ Has(Live(mem.queue), k)
  /\ mem' = [MemPrune(mem) EXCEPT !.queue = Refreshed(@, k)]
  /\ disk' = [disk EXCEPT !.files = Refreshed(@, k)]
  /\ reply' = <<k, Find(mem.queue, k).size>>
  /\ UNCHANGED <<world, puts>>

GetFromDisk(k) ==
  /\ ~Has(Live(mem.queue), k)
  /\ Has(disk.files, k)
  /\ LET item == Find(disk.files, k)
     IN  /\ Usable(item)
         /\ mem' = MemPut(MemPrune(mem), k, item.size)
         /\ reply' = <<k, item.size>>
  /\ disk' = [disk EXCEPT !.files = Refreshed(@, k)]
  /\ UNCHANGED <<world, puts>>

\* The file is too old, too long for the limits of this process, or damaged.
GetEvicts(k, f) ==
  /\ ~Has(Live(mem.queue), k)
  /\ Has(disk.files, k)
  /\ ~Usable(Find(disk.files, k))
  /\ mem' = MemPrune(mem)
  /\ disk' = Evict(disk, k, f)
  /\ reply' = <<>>
  /\ UNCHANGED <<world, puts>>

GetMiss(k) ==
  /\ ~Has(Live(mem.queue), k)
  /\ ~Has(disk.files, k)
  /\ mem' = MemPrune(mem)
  /\ reply' = <<>>
  /\ UNCHANGED <<world, disk, puts>>

--------------------------------------------------------------------------------
(* put *)

DiskAccepts(n) == MaxEntries > 0 /\ n <= DiskItem /\ n <= MaxBytes

\* By how much a value of size n for k lets the directory grow.
MoreBytes(d, k, n) == n - SizeIn(d.files, k)
MoreEntries(d, k)  == IF Has(d.files, k) THEN 0 ELSE 1

Exceeds(d, entries, bytes) == d.entries + entries > MaxEntries \/ d.total + bytes > MaxBytes

\* The directory after what put does to make room.
WithRoom(k, n, f) ==
  LET entries == MoreEntries(disk, k)
      bytes   == MoreBytes(disk, k, n)
  IN  IF Exceeds(disk, entries, bytes)
      THEN Prune(disk, NonNegative(MaxEntries - entries), NonNegative(MaxBytes - bytes), f)
      ELSE disk

\* It is looked at again with the growth that was computed before.
RoomFor(k, n, f) == ~Exceeds(WithRoom(k, n, f), MoreEntries(disk, k), MoreBytes(disk, k, n))

InMemory(k, n) ==
  /\ mem' = MemPut(mem, k, n)
  /\ reply' = IF MemAccepts(n) THEN <<k, n>> ELSE <<>>

PutInMemory(k, n) ==
  /\ ~DiskAccepts(n)
  /\ InMemory(k, n)
  /\ UNCHANGED <<world, disk, puts>>

PutDeclined(k, n, f) ==
  /\ DiskAccepts(n)
  /\ ~RoomFor(k, n, f)
  /\ InMemory(k, n)
  /\ disk' = WithRoom(k, n, f)
  /\ UNCHANGED <<world, puts>>

PutFails(k, n, f) ==
  /\ DiskAccepts(n)
  /\ RoomFor(k, n, f)
  /\ ~f.written
  /\ InMemory(k, n)
  /\ LET d == WithRoom(k, n, f)
     IN  disk' = [d EXCEPT !.young = @ + (IF f.leaked /\ d.young + d.old < MaxTemps THEN 1 ELSE 0)]
  /\ UNCHANGED <<world, puts>>

\* Faulty: the old item stays where it is.
ReplacedBeside(files, k, n) == Append(files, Item(k, n))

Replaced(files, k, n) == Append(Without(files, k), Item(k, n))

\* Faulty: an entry that is replaced is counted once more.
StoredTwice(d, k, n) ==
  [d EXCEPT !.files = Replaced(@, k, n), !.total = @ + n, !.entries = @ + 1]

\* The file is replaced and the totals follow.
Stored(d, k, n) ==
  [d EXCEPT !.files = Replaced(@, k, n), !.total = @ + MoreBytes(disk, k, n),
            !.entries = @ + MoreEntries(disk, k)]

\* Faulty: puts are not counted.
PutNeverPrunes(k, n, f) ==
  /\ DiskAccepts(n)
  /\ RoomFor(k, n, f)
  /\ f.written
  /\ mem' = MemPut(mem, k, n)
  /\ reply' = <<k, n>>
  /\ disk' = Stored(WithRoom(k, n, f), k, n)
  /\ UNCHANGED <<world, puts>>

PutStored(k, n, f) ==
  /\ DiskAccepts(n)
  /\ RoomFor(k, n, f)
  /\ f.written
  /\ mem' = MemPut(mem, k, n)
  /\ reply' = <<k, n>>
  /\ LET d == Stored(WithRoom(k, n, f), k, n)
     IN  IF puts + 1 >= PrunePeriod THEN disk' = PruneToLimits(d, f) /\ puts' = 0
         ELSE disk' = d /\ puts' = puts + 1
  /\ UNCHANGED world

--------------------------------------------------------------------------------
(* Time, shutdown and restarts. *)

Aged(s, n) == [i \in DOMAIN s |-> [s[i] EXCEPT !.idle = @ \/ i <= n]]

\* Whatever was not used for the idle time is the least recently used.
Age ==
  /\ \/ \E n \in 1..Len(mem.queue) :
          mem' = [mem EXCEPT !.queue = Aged(@, n)] /\ UNCHANGED disk
     \/ \E n \in 1..Len(disk.files) :
          disk' = [disk EXCEPT !.files = Aged(@, n)] /\ UNCHANGED mem
     \/ disk.young > 0 /\ UNCHANGED mem
          /\ disk' = [disk EXCEPT !.young = 0, !.old = @ + disk.young]
  /\ reply' = <<>>
  /\ UNCHANGED <<world, puts>>

Clear ==
  /\ mem' = NoMemory
  /\ reply' = <<>>
  /\ UNCHANGED <<world, disk, puts>>

\* A new process over the files and temporary files of d.
NewProcess(d, f) ==
  /\ mem' = NoMemory
  /\ disk' = Start(d.files, f, d.young, d.old)
  /\ puts' = 0
  /\ reply' = <<>>
  /\ UNCHANGED world

Restart(f) == NewProcess(disk, f)

\* The process dies in put, before or after the file has its name.
CrashInPut(k, n, f) ==
  /\ DiskAccepts(n)
  /\ RoomFor(k, n, f)
  /\ LET d == WithRoom(k, n, f)
     IN  \/ d.young + d.old < MaxTemps /\ NewProcess([d EXCEPT !.young = @ + 1], f)
         \/ NewProcess([d EXCEPT !.files = Replaced(@, k, n)], f)

Get(k, f) == GetFromMemory(k) \/ GetFromDisk(k) \/ GetEvicts(k, f) \/ GetMiss(k)
Put(k, n, f) ==
  PutInMemory(k, n) \/ PutDeclined(k, n, f) \/ PutFails(k, n, f) \/ PutStored(k, n, f)

Next ==
  \/ \E f \in world.faults :
       \/ \E k \in Keys : Get(k, f)
       \/ \E k \in Keys : \E n \in world.sizes[k] : Put(k, n, f) \/ CrashInPut(k, n, f)
       \/ Restart(f)
  \/ Age \/ Clear

Spec == Init /\ [][Next]_vars
--------------------------------------------------------------------------------
(* Properties. *)

\* Memory and directory are in the order of their use, with one item per key.
TypeOK ==
  /\ world \in Worlds
  /\ mem \in [queue : Queues, total : Int]
  /\ disk \in [files : Queues, total : Int, entries : Int, young : Nat, old : Nat]
  /\ disk.young + disk.old <= MaxTemps
  /\ puts \in 0..PrunePeriod - 1
  /\ reply = <<>> \/ reply \in Keys \X Nat

Within(s, entries, bytes) == Len(s) <= entries /\ SizeSum(s) <= bytes

\* The memory cache counts what it holds and keeps its limits, also when an entry is
\* replaced by one of another size, evicted or expired.
MemoryExact == mem.total = SizeSum(mem.queue) /\ Within(mem.queue, MemEntries, MemBytes)

DiskCounted == disk.total = SizeSum(disk.files) /\ disk.entries = Len(disk.files)

Calm   == world.faults = {Healthy}
Steady == \A k \in Keys : \A n \in world.sizes[k] :
            /\ world.sizes[k] = {n}
            /\ \A files \in Directories : ~Has(files, k) \/ n <= SizeIn(files, k)

\* While results have one size each and nothing fails, the directory's totals are those
\* of its files, and they keep the limits.
DiskExact == Calm /\ Steady => DiskCounted /\ Within(disk.files, MaxEntries, MaxBytes)

\* Then what is used through the memory copy stays young on disk: both tiers agree on the
\* order in which their common entries were used, save those too long for the directory.
MirrorOrder ==
  Calm /\ Steady => \A i, j \in DOMAIN mem.queue, a, b \in DOMAIN disk.files :
    /\ mem.queue[i].key = disk.files[a].key
    /\ mem.queue[j].key = disk.files[b].key
    /\ i < j
    /\ DiskAccepts(mem.queue[j].size)
    => a < b

\* Both tiers count what they hold.
TotalsExact == TypeOK /\ MemoryExact /\ DiskExact

\* A result that put reports as kept, or that get returned, is in one of the tiers at the
\* end of the call, although the call may evict entries and prune the directory.
ReplyIsTrue ==
  reply # <<>> => \E i \in ToSet(mem.queue) \cup ToSet(disk.files) :
                    i.key = reply[1] /\ i.size = reply[2] /\ ~i.idle

\* The two tiers answer as one cache.
TiersAgree == MirrorOrder /\ ReplyIsTrue

\* Put evicts an entry that it goes on to count as replaced, so totals fall behind the
\* files; the regular pruning bounds what this can amount to.
OvershootBounded ==
  Calm => Within(disk.files, MaxEntries + puts, MaxBytes + puts * DiskItem)

\* Whatever went wrong before, the pruning of a put or of a new process that nothing
\* disturbs makes the totals exact, restores the limits and collects old temporary files.
Restored == DiskCounted /\ Within(disk.files, MaxEntries, MaxBytes) /\ disk.old = 0
PruningHeals ==
  [][/\ Restart(Healthy) => Restored'
     /\ \A k \in Keys : \A n \in world.sizes[k] :
          PutStored(k, n, Healthy) /\ puts + 1 >= PrunePeriod => Restored']_vars

\* The files of the directory never exceed its limit, if nothing fails.
AggregateWithinLimit == Calm => SizeSum(disk.files) <= MaxBytes
================================================================================
