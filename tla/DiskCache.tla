----------------------------- MODULE DiskCache -----------------------------
(***************************************************************************)
(* The disk cache: one directory of entry files shared by any number of    *)
(* server processes.  A store holds a file lock while it writes a          *)
(* temporary file, syncs it, dates it, renames it over the entry and       *)
(* prunes the directory to its budget; a load holds the same lock.         *)
(* Processes can be killed and the machine can lose power between any two  *)
(* steps, and any file operation can fail.                                 *)
(*                                                                         *)
(* Two images of the directory are kept: files, what running processes     *)
(* see, and platter, what a power loss would leave.  Directory operations  *)
(* reach the platter in order, at moments of the system's choosing; the    *)
(* bytes of a file reach it only by Sync.                                  *)
(***************************************************************************)
EXTENDS Integers, SequencesExt

CONSTANTS Procs,      \* server processes, each with one disk operation at a time
          Catalogue,  \* keys of catalogue sources
          Pages,      \* keys of page bodies
          SizesOf,    \* the lengths a value can have, for each key
          MaxBytes,   \* the disk budget
          CacheBytes, \* the cap of the memory cache a load fills
          SourceMax,  \* the longest catalogue source the client fetches
          SweepAge,   \* age beyond which a temporary file is abandoned
          MaxTime,    \* bound of the model's clock
          Listing,    \* the order a directory listing gives the keys in
          NoProc,     \* the lock has no holder
          Missing     \* no such file

Keys == Catalogue \cup Pages

ASSUME KeysAssumption == Catalogue \cap Pages = {}
ASSUME SizesAssumption == SizesOf \in [Keys -> SUBSET Nat]
ASSUME BoundsAssumption ==
    /\ {MaxBytes, CacheBytes, SourceMax, SweepAge, MaxTime} \subseteq Nat
    /\ \A k \in Catalogue : SizesOf[k] \subseteq 0..SourceMax
ASSUME ListingAssumption == Listing \in Seq(Keys) /\ ToSet(Listing) = Keys

VARIABLES pc,         \* where each process is in its disk operation
          job,        \* the key, length and fetch time it stores
          temp,       \* its temporary file
          unlisted,   \* files the pruning under way could learn nothing of
          tried,      \* those that it tried to remove and could not
          total,      \* its running total of the bytes of the others
          lock,       \* the process holding the lock file
          files,      \* the entry files, by key
          platter,    \* the entry files a power loss would leave
          leftovers,  \* modification times of temporary files without a writer
          now

pruning == <<unlisted, tried, total>>
vars == <<pc, job, temp, pruning, lock, files, platter, leftovers, now>>

\* A file holds all the bytes of one value, or it does not (whole); its bytes
\* survive a power loss, or may not (synced).  fetched is when its value was
\* really fetched, mtime what the file system says.
File == [size : Nat, fetched : 0..MaxTime, mtime : 0..MaxTime,
         whole : BOOLEAN, synced : BOOLEAN]

Writing  == {"create", "write", "sync", "date", "rename"}
Critical == Writing \cup {"list", "prune", "load"}

Job == [key : Keys, size : Nat, fetched : 0..MaxTime]

ASSUME NoneAssumption == NoProc \notin Procs /\ Missing \notin File \cup Job

Present == {k \in Keys : files[k] # Missing}

Total(fs, keys) == SumFunctionOnSet([k \in keys |-> fs[k].size], keys)

\* What the pruning under way knows of.
Listed == Present \ unlisted

-----------------------------------------------------------------------------
Init ==
    /\ pc = [p \in Procs |-> "idle"]
    /\ job = [p \in Procs |-> Missing]
    /\ temp = [p \in Procs |-> Missing]
    /\ unlisted = {} /\ tried = {} /\ total = 0
    /\ lock = NoProc
    /\ files = [k \in Keys |-> Missing]
    /\ platter = [k \in Keys |-> Missing]
    /\ leftovers = {}
    /\ now = 0

\* A faulty variant of Leave: an error path that keeps the lock handle open.
LeaveLocked(p) ==
    /\ pc' = [pc EXCEPT ![p] = "idle"]
    /\ job' = [job EXCEPT ![p] = Missing]
    /\ temp' = [temp EXCEPT ![p] = Missing]
    /\ UNCHANGED <<lock, pruning>>

\* The operation is over: its lock handle is closed.
Leave(p) ==
    /\ pc' = [pc EXCEPT ![p] = "idle"]
    /\ job' = [job EXCEPT ![p] = Missing]
    /\ temp' = [temp EXCEPT ![p] = Missing]
    /\ lock' = IF lock = p THEN NoProc ELSE lock
    /\ IF lock = p THEN unlisted' = {} /\ tried' = {} /\ total' = 0 ELSE UNCHANGED pruning

-----------------------------------------------------------------------------
(* The lock *)

\* A value longer than the budget is never stored: no step.
BeginStore(p) ==
    /\ pc[p] = "idle"
    /\ \E k \in Keys : \E size \in SizesOf[k], fetched \in 0..now :
          /\ size <= MaxBytes
          /\ job' = [job EXCEPT ![p] = [key |-> k, size |-> size, fetched |-> fetched]]
    /\ pc' = [pc EXCEPT ![p] = "lock"]
    /\ UNCHANGED <<temp, pruning, lock, files, platter, leftovers, now>>

BeginLoad(p) ==
    /\ pc[p] = "idle"
    /\ pc' = [pc EXCEPT ![p] = "lock"]
    /\ UNCHANGED <<job, temp, pruning, lock, files, platter, leftovers, now>>

TryLock(p) ==
    /\ pc[p] = "lock"
    /\ lock = NoProc
    /\ lock' = p
    /\ pc' = [pc EXCEPT ![p] = IF job[p] = Missing THEN "load" ELSE "create"]
    /\ UNCHANGED <<job, temp, pruning, files, platter, leftovers, now>>

\* A faulty variant of LockFails: no deadline, the lock is tried for ever.
LockTriedForever(p) == pc[p] = "lock" /\ UNCHANGED vars

\* The lock file cannot be opened or locked, or the try that found it held was
\* the last before the deadline.
LockFails(p) ==
    /\ pc[p] = "lock"
    /\ Leave(p)
    /\ UNCHANGED <<files, platter, leftovers, now>>

-----------------------------------------------------------------------------
(* A store, under the lock *)

Create(p) ==
    /\ pc[p] = "create"
    /\ temp' = [temp EXCEPT ![p] =
                  [size |-> job[p].size, fetched |-> job[p].fetched,
                   mtime |-> now, whole |-> FALSE, synced |-> FALSE]]
    /\ pc' = [pc EXCEPT ![p] = "write"]
    /\ UNCHANGED <<job, pruning, lock, files, platter, leftovers, now>>

Write(p) ==
    /\ pc[p] = "write"
    /\ temp' = [temp EXCEPT ![p] = [@ EXCEPT !.whole = TRUE, !.mtime = now]]
    /\ pc' = [pc EXCEPT ![p] = "sync"]
    /\ UNCHANGED <<job, pruning, lock, files, platter, leftovers, now>>

\* A faulty variant of Sync: the file is renamed without it.
SyncSkipped(p) ==
    /\ pc[p] = "sync"
    /\ pc' = [pc EXCEPT ![p] = "date"]
    /\ UNCHANGED <<job, temp, pruning, lock, files, platter, leftovers, now>>

Sync(p) ==
    /\ pc[p] = "sync"
    /\ temp' = [temp EXCEPT ![p] = [@ EXCEPT !.synced = TRUE]]
    /\ pc' = [pc EXCEPT ![p] = "date"]
    /\ UNCHANGED <<job, pruning, lock, files, platter, leftovers, now>>

Chtimes(p) ==
    /\ pc[p] = "date"
    /\ temp' = [temp EXCEPT ![p] = [@ EXCEPT !.mtime = job[p].fetched]]
    /\ pc' = [pc EXCEPT ![p] = "rename"]
    /\ UNCHANGED <<job, pruning, lock, files, platter, leftovers, now>>

Rename(p) ==
    /\ pc[p] = "rename"
    /\ files' = [files EXCEPT ![job[p].key] = temp[p]]
    /\ temp' = [temp EXCEPT ![p] = Missing]
    /\ pc' = [pc EXCEPT ![p] = "list"]
    /\ UNCHANGED <<job, pruning, lock, platter, leftovers, now>>

\* What is left of a temporary file whose writer is gone.
Remains(p) == IF temp[p] = Missing THEN {} ELSE {temp[p].mtime}
Abandon(p) == leftovers' = leftovers \cup Remains(p)

\* Any step before the rename can fail: the store gives up, and removes its
\* temporary file if it can.
StoreFails(p) ==
    /\ pc[p] \in Writing
    /\ Leave(p)
    /\ \/ leftovers' = leftovers
       \/ Abandon(p)
    /\ UNCHANGED <<files, platter, now>>

\* Pruning starts from a listing, where a file whose size and time cannot be
\* had is left out; without a listing the store ends unpruned.
ListFiles(p) ==
    /\ pc[p] = "list"
    /\ unlisted' \in SUBSET Present
    /\ total' = Total(files, Present \ unlisted')
    /\ pc' = [pc EXCEPT ![p] = "prune"]
    /\ UNCHANGED <<job, temp, tried, lock, files, platter, leftovers, now>>

ListFails(p) ==
    /\ pc[p] = "list"
    /\ Leave(p)
    /\ UNCHANGED <<files, platter, leftovers, now>>

\* A faulty variant of PrunedBefore: age alone decides.
OldestFirst(k, l) == files[k].mtime < files[l].mtime

\* Page bodies go before catalogue entries, the oldest first.
PrunedBefore(k, l) ==
    IF k \in Pages /\ l \in Catalogue THEN TRUE
    ELSE IF k \in Catalogue /\ l \in Pages THEN FALSE
    ELSE files[k].mtime < files[l].mtime

\* The next file in pruning order.
NextToPrune(k) ==
    /\ k \in Listed \ tried
    /\ \A l \in Listed \ tried : ~PrunedBefore(l, k)

\* A faulty variant of PruneNext: a refused removal counts.
PruneNextCountsRefused(p) ==
    /\ pc[p] = "prune"
    /\ total > MaxBytes
    /\ \E k \in Keys :
          /\ NextToPrune(k)
          /\ total' = total - files[k].size
          /\ \/ files' = [files EXCEPT ![k] = Missing] /\ tried' = tried
             \/ files' = files /\ tried' = tried \cup {k}
    /\ UNCHANGED <<pc, job, temp, unlisted, lock, platter, leftovers, now>>

\* It is removed, or refuses to be, and then it still counts.
PruneNext(p) ==
    /\ pc[p] = "prune"
    /\ total > MaxBytes
    /\ \E k \in Keys :
          /\ NextToPrune(k)
          /\ \/ /\ files' = [files EXCEPT ![k] = Missing]
                /\ total' = total - files[k].size
                /\ tried' = tried
             \/ /\ tried' = tried \cup {k}
                /\ UNCHANGED <<files, total>>
    /\ UNCHANGED <<pc, job, temp, unlisted, lock, platter, leftovers, now>>

PruneEnds(p) ==
    /\ pc[p] = "prune"
    /\ total <= MaxBytes \/ Listed \subseteq tried
    /\ Leave(p)
    /\ UNCHANGED <<files, platter, leftovers, now>>

-----------------------------------------------------------------------------
(* A load, under the lock *)

\* Room for a full memory cache and for every catalogue source at its longest.
LoadBudget == CacheBytes + Cardinality(Catalogue) * SourceMax

\* The entries a load has once it has been through the files of a group, in
\* listing order: each that fits in what is left of the budget.
LoadGroup(before, group) ==
    FoldLeft(LAMBDA loaded, k :
                 IF k \in group \cap Present /\ Total(files, loaded \cup {k}) <= LoadBudget
                 THEN loaded \cup {k}
                 ELSE loaded,
             before, Listing)

\* A faulty variant of Loaded: as listed.
LoadedAsListed(broken) == LoadGroup({}, Keys \ broken)

\* Catalogue sources come first; entries that cannot be opened or read are
\* passed over.
Loaded(broken) == LoadGroup(LoadGroup({}, Catalogue \ broken), Pages \ broken)

\* Abandoned temporary files are swept on the way; a removal can fail.
Load(p) ==
    /\ pc[p] = "load"
    /\ \E kept \in SUBSET {t \in leftovers : now - t > SweepAge} :
          leftovers' = {t \in leftovers : now - t <= SweepAge} \cup kept
    /\ Leave(p)
    /\ UNCHANGED <<files, platter, now>>

-----------------------------------------------------------------------------
(* The environment *)

\* A process dies: the system closes its lock handle.
Kill(p) ==
    /\ pc[p] # "idle"
    /\ Leave(p)
    /\ Abandon(p)
    /\ UNCHANGED <<files, platter, now>>

\* The directory reaches the platter.
Flush ==
    /\ platter' = files
    /\ UNCHANGED <<pc, job, temp, pruning, lock, files, leftovers, now>>

\* Every process dies and the directory comes back as the platter has it, the
\* bytes that were never synced lost.
PowerLoss ==
    /\ files' = [k \in Keys |-> IF platter[k] = Missing THEN Missing
                                ELSE [platter[k] EXCEPT !.whole = @ /\ platter[k].synced,
                                                        !.synced = TRUE]]
    /\ platter' = files'
    /\ pc' = [p \in Procs |-> "idle"]
    /\ job' = [p \in Procs |-> Missing]
    /\ temp' = [p \in Procs |-> Missing]
    /\ unlisted' = {} /\ tried' = {} /\ total' = 0
    /\ lock' = NoProc
    /\ leftovers' \in SUBSET (leftovers \cup UNION {Remains(p) : p \in Procs})
    /\ now' = now

Tick ==
    /\ now < MaxTime
    /\ now' = now + 1
    /\ UNCHANGED <<pc, job, temp, pruning, lock, files, platter, leftovers>>

Step(p) ==
    \/ TryLock(p) \/ LockFails(p)
    \/ Create(p) \/ Write(p) \/ Sync(p) \/ Chtimes(p) \/ Rename(p) \/ StoreFails(p)
    \/ ListFiles(p) \/ ListFails(p) \/ PruneNext(p) \/ PruneEnds(p)
    \/ Load(p)

Next ==
    \/ \E p \in Procs : BeginStore(p) \/ BeginLoad(p) \/ Step(p) \/ Kill(p)
    \/ Flush \/ PowerLoss \/ Tick

Spec == Init /\ [][Next]_vars

\* A running process takes its next step: each file operation returns, and a
\* waiting one tries again every few milliseconds until its deadline.
FairSpec == Spec /\ \A p \in Procs : WF_vars(Step(p))

-----------------------------------------------------------------------------
(* Properties *)

\* Every variable has its type, a process in a store knows what it stores, and
\* has a temporary file from its creation to its rename and at no other time.
TypeOK ==
    /\ pc \in [Procs -> {"idle", "lock"} \cup Critical]
    /\ job \in [Procs -> Job \cup {Missing}]
    /\ temp \in [Procs -> File \cup {Missing}]
    /\ unlisted \subseteq Keys /\ tried \subseteq Keys /\ total \in Nat
    /\ lock \in Procs \cup {NoProc}
    /\ files \in [Keys -> File \cup {Missing}]
    /\ platter \in [Keys -> File \cup {Missing}]
    /\ leftovers \subseteq 0..MaxTime
    /\ now \in 0..MaxTime
    /\ \A p \in Procs :
          /\ pc[p] \in Writing => job[p] # Missing
          /\ pc[p] \in Writing \ {"create"} <=> temp[p] # Missing

\* A load never returns a value that is not one store's bytes, complete and
\* with their real fetch time, whatever was killed, failed or lost power
\* between any two steps of any store.
Genuine(file) == file.whole /\ file.mtime = file.fetched
OnlyGenuineEntries ==
    \A k \in Keys : files[k] # Missing => Genuine(files[k])

\* One process at a time is between taking the lock and closing it, so no
\* pruning removes a file another store is publishing or another load is
\* reading, and nobody who has left, died or timed out still holds the lock.
LockExcludes ==
    \A p \in Procs : pc[p] \in Critical <=> lock = p

\* A starting process gets every catalogue source the directory holds and the
\* system lets it read, however many page bodies are beside them and whatever
\* the listing order.
CatalogueLoads ==
    \A p \in Procs : pc[p] = "load" =>
        \A broken \in SUBSET Keys : (Present \cap Catalogue) \ broken \subseteq Loaded(broken)

\* When a store has pruned, the files it could list are within the budget, or
\* each that is left has refused to be removed: the running total is right
\* about the directory, also about files inherited from a store that was killed
\* before it had pruned, and about those that were not listed or not removed
\* on the way (diskcache.go:237-273).
StoreKeepsBudget ==
    [][\A p \in Procs :
          PruneEnds(p) => Total(files', Listed) <= MaxBytes \/ Listed \subseteq tried]_vars

\* While the machine runs, a catalogue source leaves the directory only when
\* the catalogue alone exceeds the budget or some file refuses to be removed:
\* page bodies, which are useless without it, make room first.
CatalogueOutlivesPages ==
    [][\A k \in Catalogue :
          files[k] # Missing /\ files'[k] = Missing =>
              \/ PowerLoss
              \/ tried # {}
              \/ Total(files, Present \cap Catalogue) > MaxBytes]_vars

\* Every disk operation ends, also while other processes keep taking the lock
\* or die holding it: a request is never held up by the disk cache for good.
OperationsEnd == \A p \in Procs : pc[p] # "idle" ~> pc[p] = "idle"

\* Temporary files, locks, kills, failing steps and a platter that holds names
\* before bytes never show: the directory is one of complete values, put at
\* once and dropped only for room, and a power loss restores a state it was in.
Values == {f \in File : Genuine(f) /\ f.synced}
Atomic == INSTANCE AtomicDisk WITH value <- files, durable <- platter
ImplementsAtomicDisk == Atomic!Spec
=============================================================================
