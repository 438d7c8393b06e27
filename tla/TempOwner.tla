------------------------------- MODULE TempOwner -------------------------------
(***************************************************************************)
(* Who owns a temporary directory (tempowner/, keptledger/,                *)
(* assure/run_scratch.go, assure/keep_temp.go, app/temp.go).               *)
(*                                                                         *)
(* Several processes share one temporary root. A verification and a        *)
(* collection wait for the lease of their repository; `goatest plan`, and  *)
(* a verification that cannot lock that file, run without. A run first     *)
(* sweeps what earlier ones left, then makes a scratch directory of a      *)
(* unique name, locks it, writes a marker into it, works, and either       *)
(* removes it or marks it kept and records it in the repository's ledger.  *)
(* It may also claim the native build cache, one directory of a fixed name *)
(* that no sweep looks at. A collector is `goatest cache gc`: it sweeps,   *)
(* and then removes what the ledger names and a marker vouches for.        *)
(*                                                                         *)
(* A lock is advisory, and the operating system frees it when its holder   *)
(* dies or the file is removed. A failing call and the death of a process  *)
(* are faults.                                                             *)
(***************************************************************************)
EXTENDS Naturals, FiniteSets

CONSTANTS Runs,       \* verifications and plans; each names the scratch it makes
          Plans,      \* those among them that take no lease and keep nothing
          Collectors, \* `goatest cache gc`, run again and again
          Shared,     \* the directories of a fixed name
          MaxFaults,  \* bound on failing calls and deaths
          None        \* no process, no run, no marker

Procs == Runs \cup Collectors
Dirs == Runs \cup Shared
Markers == [run : Runs \cup {None}, kept : BOOLEAN]
Unreadable == [run |-> None, kept |-> FALSE]

ASSUME TempAssumption ==
    /\ Plans \subseteq Runs
    /\ Runs \cap Collectors = {} /\ Dirs \cap Collectors = {} /\ Runs \cap Shared = {}
    /\ MaxFaults \in Nat
    /\ None \notin Procs \cup Dirs \cup Markers

VARIABLES pc,         \* where each process is
          todo,       \* directories it has listed and not yet judged
          at,         \* the directory it has in hand
          keeping,    \* the run was told --keep-temp
          leased,     \* processes that were given the repository's lease
          uses,       \* the shared directory the run has claimed
          present,    \* directories that exist
          marker,     \* owner.json of each
          lock,       \* who holds owner.lock
          aged,       \* untouched for 24 hours (UnclaimedMaxAge)
          ledger,     \* the run an entry of kept-temp-v1.json names
          holder,     \* who holds the ledger's lock
          loaded,     \* the ledger as its holder read and changed it
          faults,
          spared,     \* history: directories kept when the sweep listed them
          recorded    \* history: scratch directories whose Append returned

hand == <<todo, at, keeping, leased, uses>>
disk == <<present, marker, lock, aged>>
records == <<ledger, holder, loaded>>
history == <<spared, recorded>>
vars == <<pc, hand, disk, records, faults, history>>

Sweeping == {"sweep", "probe", "unlock", "remove"}
Claiming == {"make", "claim", "mark", "discard"}
Opening == {"open", "claimShared", "markShared", "work"}
Leaving == {"keep", "keptFree", "unkept", "append", "save", "free", "erase"}
Collecting == {"collect", "entries", "rmEntry"}
Stages == {"start", "list", "ended"} \cup Sweeping \cup Claiming \cup Opening \cup Leaving \cup Collecting

Kept(d) == marker[d] # None /\ marker[d].kept

\* KeptBy: the marker says it was kept, and by the run the entry names.
Vouched(d, run) == Kept(d) /\ marker[d].run = run

Init ==
    /\ pc = [p \in Procs |-> "start"] /\ todo = [p \in Procs |-> {}]
    /\ at = [p \in Procs |-> None] /\ leased = {}
    /\ keeping \in {k \in [Runs -> BOOLEAN] : \A r \in Plans : ~k[r]}
    /\ uses = [r \in Runs |-> None]
    /\ present = {} /\ marker = [d \in Dirs |-> None]
    /\ lock = [d \in Dirs |-> None] /\ aged = [d \in Dirs |-> FALSE]
    \* A person or a bad merge may have written anything into the ledger.
    /\ ledger \in [Dirs -> Runs \cup {None}] /\ holder = None
    /\ loaded = [d \in Dirs |-> None]
    /\ faults = 0 /\ spared = [p \in Procs |-> {}] /\ recorded = {}

Goto(p, stage) == pc' = [pc EXCEPT ![p] = stage]
Fault == faults < MaxFaults /\ faults' = faults + 1

\* A lock is released; one on a file that was removed meanwhile guards nothing.
Free(p, d) == lock' = IF lock[d] = p THEN [lock EXCEPT ![d] = None] ELSE lock

\* os.RemoveAll does its work, or fails with the marker still there or not.
RemoveAll(d) ==
    /\ present' = present \ {d}
    /\ marker' = [marker EXCEPT ![d] = None]
    /\ lock' = [lock EXCEPT ![d] = None]
    /\ aged' = [aged EXCEPT ![d] = FALSE]
    /\ UNCHANGED faults

RemoveFails(d) ==
    /\ Fault
    /\ \/ UNCHANGED <<marker, lock>>
       \/ marker' = [marker EXCEPT ![d] = None] /\ lock' = [lock EXCEPT ![d] = None]
    /\ aged' = [aged EXCEPT ![d] = FALSE]
    /\ UNCHANGED present

-----------------------------------------------------------------------------
(* The repository's lease (cache.Acquire).                                 *)

LeaseIsFree == \A p \in leased : pc[p] \in {"start", "ended"}

\* A verification and a collection wait for the lease.
Acquire(p) ==
    /\ pc[p] = "start" /\ Goto(p, "list")
    /\ p \notin Plans /\ LeaseIsFree /\ leased' = leased \cup {p}
    /\ UNCHANGED <<todo, at, keeping, uses, disk, records, faults, history>>

\* A plan asks for none. A verification that cannot lock the file goes on
\* without, a collection does not.
GoesWithout(p) ==
    /\ pc[p] = "start" /\ Goto(p, IF p \in Runs THEN "list" ELSE "ended")
    /\ IF p \in Plans THEN UNCHANGED faults ELSE Fault
    /\ UNCHANGED <<hand, disk, records, history>>

-----------------------------------------------------------------------------
(* The sweep of a run and of a collector.                                  *)

\* The listing. Only names with the prefix of a scratch directory are in it.
List(p) ==
    /\ pc[p] = "list" /\ Goto(p, "sweep")
    /\ todo' = [todo EXCEPT ![p] = present \cap Runs]
    /\ spared' = [spared EXCEPT ![p] = {d \in present \cap Runs : Kept(d)}]
    /\ UNCHANGED <<at, keeping, leased, uses, disk, records, faults, recorded>>

Judged(p, d) == todo' = [todo EXCEPT ![p] = @ \ {d}]
Aside == UNCHANGED <<keeping, leased, uses, disk, records, faults, history>>

\* A slip: a directory without a marker goes to the lock like any other.
SuspectsUnmarked(p) ==
    /\ pc[p] = "sweep" /\ Goto(p, "probe")
    /\ \E d \in todo[p] : d \in present /\ ~Kept(d) /\ Judged(p, d) /\ at' = [at EXCEPT ![p] = d]
    /\ Aside

\* Gone, kept, or without a marker and young.
Spares(p) ==
    /\ pc[p] = "sweep"
    /\ \E d \in todo[p] :
          /\ d \notin present \/ Kept(d) \/ (marker[d] = None /\ ~aged[d])
          /\ Judged(p, d)
    /\ UNCHANGED <<pc, at>> /\ Aside

\* A slip: a directory nobody claimed is nobody's to judge.
CondemnsNone(p) ==
    /\ pc[p] = "sweep" /\ Goto(p, "remove")
    /\ \E d \in todo[p] : /\ d \in present /\ marker[d] = Unreadable /\ aged[d]
                          /\ Judged(p, d) /\ at' = [at EXCEPT ![p] = d]
    /\ Aside

\* A directory nobody claimed is judged by its age.
CondemnsUnclaimed(p) ==
    /\ pc[p] = "sweep" /\ Goto(p, "remove")
    /\ \E d \in todo[p] : /\ d \in present /\ marker[d] = None /\ aged[d]
                          /\ Judged(p, d) /\ at' = [at EXCEPT ![p] = d]
    /\ Aside

\* A slip: whoever reads the marker as kept or not goes for the lock.
SuspectsKept(p) ==
    /\ pc[p] = "sweep" /\ Goto(p, "probe")
    /\ \E d \in todo[p] : /\ d \in present /\ marker[d] # None
                          /\ Judged(p, d) /\ at' = [at EXCEPT ![p] = d]
    /\ Aside

\* One that was claimed and not kept is judged by its lock. So is one whose
\* marker cannot be read: a damaged file must not make it immortal.
Suspects(p) ==
    /\ pc[p] = "sweep" /\ Goto(p, "probe")
    /\ \E d \in todo[p] : /\ d \in present /\ marker[d] # None /\ ~Kept(d)
                          /\ Judged(p, d) /\ at' = [at EXCEPT ![p] = d]
    /\ Aside

\* The lock is taken, held by somebody, or cannot be opened.
Probe(p) ==
    /\ pc[p] = "probe"
    /\ \/ /\ at[p] \in present /\ lock[at[p]] = None
          /\ lock' = [lock EXCEPT ![at[p]] = p] /\ Goto(p, "unlock") /\ UNCHANGED faults
       \/ /\ IF at[p] \in present /\ lock[at[p]] = None THEN Fault ELSE UNCHANGED faults
          /\ Goto(p, "sweep") /\ UNCHANGED lock
    /\ UNCHANGED <<hand, present, marker, aged, records, history>>

\* The lock is released before the directory is removed; a release that fails
\* spares it.
Unlock(p) ==
    /\ pc[p] = "unlock" /\ Free(p, at[p])
    /\ \/ Goto(p, "remove") /\ UNCHANGED faults
       \/ Goto(p, "sweep") /\ Fault
    /\ UNCHANGED <<hand, present, marker, aged, records, history>>

Remove(p) ==
    /\ pc[p] = "remove" /\ Goto(p, "sweep")
    /\ RemoveAll(at[p]) \/ RemoveFails(at[p])
    /\ UNCHANGED <<hand, records, history>>

Swept(p) ==
    /\ pc[p] = "sweep" /\ todo[p] = {}
    /\ Goto(p, IF p \in Runs THEN "make" ELSE "collect")
    /\ UNCHANGED <<hand, disk, records, faults, history>>

Sweep(p) == \/ Acquire(p) \/ GoesWithout(p) \/ List(p) \/ Spares(p)
            \/ CondemnsUnclaimed(p) \/ Suspects(p) \/ Probe(p) \/ Unlock(p) \/ Remove(p) \/ Swept(p)

-----------------------------------------------------------------------------
(* A run claims its directories.                                           *)

\* A name nobody has used.
Make(r) ==
    /\ pc[r] = "make"
    /\ \/ Goto(r, "claim") /\ present' = present \cup {r} /\ UNCHANGED faults
       \/ Goto(r, "ended") /\ Fault /\ UNCHANGED present
    /\ UNCHANGED <<hand, marker, lock, aged, records, history>>

\* Without the lock the run ends: a directory somebody else holds is not its
\* own to remove, one that cannot be locked is.
Claim(r) ==
    /\ pc[r] = "claim"
    /\ \/ /\ lock[r] = None /\ Goto(r, "mark")
          /\ lock' = [lock EXCEPT ![r] = r] /\ UNCHANGED faults
       \/ lock[r] # None /\ Goto(r, "ended") /\ UNCHANGED <<lock, faults>>
       \/ Goto(r, "discard") /\ Fault /\ UNCHANGED lock
    /\ UNCHANGED <<hand, present, marker, aged, records, history>>

Mark(r) ==
    /\ pc[r] = "mark"
    /\ \/ /\ Goto(r, "open") /\ marker' = [marker EXCEPT ![r] = [run |-> r, kept |-> FALSE]]
          /\ UNCHANGED <<lock, faults>>
       \/ Goto(r, "discard") /\ Fault /\ Free(r, r) /\ UNCHANGED marker
    /\ UNCHANGED <<hand, present, aged, records, history>>

Discard(r) ==
    /\ pc[r] = "discard" /\ Goto(r, "ended")
    /\ RemoveAll(r) \/ RemoveFails(r)
    /\ UNCHANGED <<hand, records, history>>

\* claimSharedNativeBuildCache: the directory is made if need be. A run that
\* serves no build cache claims none.
OpenShared(r) ==
    /\ pc[r] = "open"
    /\ \/ \E s \in Shared : /\ Goto(r, "claimShared") /\ present' = present \cup {s}
                            /\ at' = [at EXCEPT ![r] = s]
       \/ Goto(r, "work") /\ UNCHANGED <<at, present>>
    /\ UNCHANGED <<todo, keeping, leased, uses, marker, lock, aged, records, faults, history>>

\* A slip: whoever finds the directory uses it.
ClaimSharedAlways(r) ==
    /\ pc[r] = "claimShared"
    /\ IF at[r] \in present
       THEN Goto(r, "markShared") /\ lock' = [lock EXCEPT ![at[r]] = r]
       ELSE Goto(r, "work") /\ UNCHANGED lock
    /\ UNCHANGED <<hand, present, marker, aged, records, faults, history>>

\* Held by another run: this one makes a projection of its own.  It goes without
\* one when the directory cannot be locked.
ClaimShared(r) ==
    /\ pc[r] = "claimShared"
    /\ \/ /\ at[r] \in present /\ lock[at[r]] = None
          /\ Goto(r, "markShared") /\ lock' = [lock EXCEPT ![at[r]] = r] /\ UNCHANGED faults
       \/ /\ at[r] \notin present \/ lock[at[r]] # None
          /\ Goto(r, "work") /\ UNCHANGED <<lock, faults>>
       \/ Fault /\ Goto(r, "work") /\ UNCHANGED lock
    /\ UNCHANGED <<hand, present, marker, aged, records, history>>

MarkShared(r) ==
    /\ pc[r] = "markShared" /\ Goto(r, "work")
    /\ \/ /\ at[r] \in present /\ uses' = [uses EXCEPT ![r] = at[r]]
          /\ marker' = [marker EXCEPT ![at[r]] = [run |-> r, kept |-> FALSE]]
          /\ UNCHANGED <<lock, faults>>
       \/ /\ IF at[r] \in present THEN Fault ELSE UNCHANGED faults
          /\ Free(r, at[r]) /\ UNCHANGED <<uses, marker>>
    /\ UNCHANGED <<todo, at, keeping, leased, present, aged, records, history>>

Open(r) == \/ Make(r) \/ Claim(r) \/ Mark(r) \/ Discard(r)
           \/ OpenShared(r) \/ ClaimShared(r) \/ MarkShared(r)

-----------------------------------------------------------------------------
(* A run leaves its directories, the shared one first.                     *)

Leave(r, d) == Goto(r, IF keeping[r] THEN "keep" ELSE "free") /\ at' = [at EXCEPT ![r] = d]

\* The next directory, if any.
Onward(r) == IF at[r] = r THEN Goto(r, "ended") /\ UNCHANGED at ELSE Leave(r, r)

Finish(r) ==
    /\ pc[r] = "work" /\ Leave(r, IF uses[r] = None THEN r ELSE uses[r])
    /\ UNCHANGED <<todo, keeping, leased, uses, disk, records, faults, history>>

\* The marker is rewritten while the lock is held. When that fails the scratch
\* is recorded all the same, the shared directory is not.
Keep(r) ==
    /\ pc[r] = "keep"
    /\ \/ /\ at[r] \in present /\ Goto(r, "keptFree") /\ UNCHANGED faults
          /\ marker' = [marker EXCEPT ![at[r]] = [run |-> r, kept |-> TRUE]]
       \/ /\ IF at[r] \in present THEN Fault ELSE UNCHANGED faults
          /\ Goto(r, IF at[r] = r THEN "keptFree" ELSE "unkept") /\ UNCHANGED marker
    /\ UNCHANGED <<hand, present, lock, aged, records, history>>

\* The unlocking and the closing of the lock file are both tried: whichever fails, the
\* lock is free.
KeepReleases(r) ==
    /\ \/ pc[r] = "keptFree" /\ Goto(r, "append") /\ UNCHANGED at
       \/ pc[r] = "unkept" /\ Onward(r)
    /\ Free(r, at[r])
    /\ UNCHANGED <<todo, keeping, leased, uses, present, marker, aged, records, faults, history>>

\* A slip: the ledger is read without its lock.
LoadUnlocked(r) ==
    /\ pc[r] = "append" /\ Goto(r, "save") /\ loaded' = ledger
    /\ UNCHANGED <<hand, disk, ledger, holder, faults, history>>

\* keptledger.Update: lock, then load.
Load(r) ==
    /\ pc[r] = "append" /\ holder = None /\ Goto(r, "save")
    /\ holder' = r /\ loaded' = ledger
    /\ UNCHANGED <<hand, disk, ledger, faults, history>>

\* The patience of a minute runs out, or the ledger cannot be read.
GivesUp(r) ==
    /\ pc[r] = "append" /\ Onward(r)
    /\ (holder # None /\ UNCHANGED faults) \/ Fault
    /\ UNCHANGED <<todo, keeping, leased, uses, disk, records, history>>

\* An entry of the same path is replaced.
Append(r) ==
    /\ pc[r] = "save" /\ Onward(r) /\ holder' = None
    /\ loaded' = [d \in Dirs |-> None]
    /\ \/ /\ ledger' = [loaded EXCEPT ![at[r]] = r] /\ UNCHANGED faults
          /\ recorded' = recorded \cup ({at[r]} \cap Runs)
       \/ Fault /\ UNCHANGED <<ledger, recorded>>
    /\ UNCHANGED <<todo, keeping, leased, uses, disk, spared>>

\* Without --keep-temp the lock goes first; only the scratch is removed.
Release(r) ==
    /\ pc[r] = "free" /\ Free(r, at[r])
    /\ IF at[r] = r THEN Goto(r, "erase") /\ UNCHANGED at ELSE Leave(r, r)
    /\ UNCHANGED <<todo, keeping, leased, uses, present, marker, aged, records, faults, history>>

Erase(r) ==
    /\ pc[r] = "erase" /\ Goto(r, "ended")
    /\ RemoveAll(r) \/ RemoveFails(r)
    /\ UNCHANGED <<hand, records, history>>

Close(r) == \/ Finish(r) \/ Keep(r) \/ KeepReleases(r) \/ Load(r) \/ GivesUp(r)
            \/ Append(r) \/ Release(r) \/ Erase(r)

-----------------------------------------------------------------------------
(* The collection of what the ledger names.                                *)

CollectKept(c) ==
    /\ pc[c] = "collect" /\ holder = None /\ Goto(c, "entries")
    /\ holder' = c /\ loaded' = ledger
    /\ todo' = [todo EXCEPT ![c] = {d \in Dirs : ledger[d] # None}]
    /\ UNCHANGED <<at, keeping, leased, uses, disk, ledger, faults, history>>

\* The patience runs out, or the ledger cannot be read.
CollectGivesUp(c) ==
    /\ pc[c] = "collect" /\ Goto(c, "ended")
    /\ (holder # None /\ UNCHANGED faults) \/ Fault
    /\ UNCHANGED <<hand, disk, records, history>>

\* An entry whose directory is gone is dropped.
DropEntry(c) ==
    /\ pc[c] = "entries"
    /\ \E d \in todo[c] \ present : Judged(c, d) /\ loaded' = [loaded EXCEPT ![d] = None]
    /\ UNCHANGED <<pc, at, keeping, leased, uses, disk, ledger, holder, faults, history>>

\* One that is young, or that no marker vouches for, stays.
KeepEntry(c) ==
    /\ pc[c] = "entries"
    /\ \E d \in todo[c] \cap present : Judged(c, d)
    /\ UNCHANGED <<pc, at, keeping, leased, uses, disk, records, faults, history>>

\* A slip: the entry alone is enough.
ExpireUnvouched(c) ==
    /\ pc[c] = "entries" /\ Goto(c, "rmEntry")
    /\ \E d \in todo[c] \cap present : Judged(c, d) /\ at' = [at EXCEPT ![c] = d]
    /\ UNCHANGED <<keeping, leased, uses, disk, records, faults, history>>

\* One older than the TTL is removed when its marker vouches for it.
ExpireEntry(c) ==
    /\ pc[c] = "entries" /\ Goto(c, "rmEntry")
    /\ \E d \in todo[c] \cap present :
          Vouched(d, loaded[d]) /\ Judged(c, d) /\ at' = [at EXCEPT ![c] = d]
    /\ UNCHANGED <<keeping, leased, uses, disk, records, faults, history>>

RemoveEntry(c) ==
    /\ pc[c] = "rmEntry" /\ Goto(c, "entries")
    /\ \/ RemoveAll(at[c]) /\ loaded' = [loaded EXCEPT ![at[c]] = None]
       \/ RemoveFails(at[c]) /\ UNCHANGED loaded
    /\ UNCHANGED <<hand, ledger, holder, history>>

SaveEntries(c) ==
    /\ pc[c] = "entries" /\ todo[c] = {} /\ Goto(c, "ended")
    /\ holder' = None /\ loaded' = [d \in Dirs |-> None]
    /\ \/ ledger' = loaded /\ UNCHANGED faults
       \/ Fault /\ UNCHANGED ledger
    /\ UNCHANGED <<hand, disk, history>>

\* `goatest cache gc` is run again.
Again(c) ==
    /\ pc[c] = "ended" /\ Goto(c, "start")
    /\ UNCHANGED <<hand, disk, records, faults, history>>

Collect(c) == \/ CollectKept(c) \/ CollectGivesUp(c) \/ DropEntry(c) \/ KeepEntry(c)
              \/ ExpireEntry(c) \/ RemoveEntry(c) \/ SaveEntries(c) \/ Again(c)

-----------------------------------------------------------------------------
\* A process dies, and the system frees its locks.
Die(p) ==
    /\ pc[p] \notin {"start", "ended"} /\ Fault /\ Goto(p, "ended")
    /\ lock' = [d \in Dirs |-> IF lock[d] = p THEN None ELSE lock[d]]
    /\ holder' = IF holder = p THEN None ELSE holder
    /\ loaded' = IF holder = p THEN [d \in Dirs |-> None] ELSE loaded
    /\ UNCHANGED <<hand, present, marker, aged, ledger, history>>

\* A marker rots.
Damage(d) ==
    /\ d \in present /\ marker[d] # None /\ Fault
    /\ marker' = [marker EXCEPT ![d] = Unreadable]
    /\ UNCHANGED <<pc, hand, present, lock, aged, records, history>>

\* Twenty-four hours pass over a directory nobody touches. The moment between
\* mkdir and marker is not as long as that.
Age(d) ==
    /\ d \in present /\ ~aged[d] /\ (d \in Runs => pc[d] \notin {"claim", "mark", "discard"})
    /\ aged' = [aged EXCEPT ![d] = TRUE]
    /\ UNCHANGED <<pc, hand, present, marker, lock, records, faults, history>>

Step(p) == Sweep(p) \/ (p \in Runs /\ (Open(p) \/ Close(p))) \/ (p \in Collectors /\ Collect(p))

Next == (\E p \in Procs : Step(p) \/ Die(p)) \/ (\E d \in Dirs : Age(d) \/ Damage(d))

\* Processes run, people collect, and time passes.
Fairness == (\A p \in Procs : WF_vars(Step(p))) /\ (\A d \in Dirs : WF_vars(Age(d)))

Spec == Init /\ [][Next]_vars
FairSpec == Spec /\ Fairness

-----------------------------------------------------------------------------
(* Properties.                                                             *)

TypeOK ==
    /\ pc \in [Procs -> Stages] /\ todo \in [Procs -> SUBSET Dirs]
    /\ at \in [Procs -> Dirs \cup {None}]
    /\ keeping \in [Runs -> BOOLEAN] /\ leased \subseteq Procs
    /\ uses \in [Runs -> Shared \cup {None}]
    /\ present \subseteq Dirs /\ marker \in [Dirs -> Markers \cup {None}]
    /\ lock \in [Dirs -> Procs \cup {None}] /\ aged \in [Dirs -> BOOLEAN]
    /\ ledger \in [Dirs -> Runs \cup {None}] /\ holder \in Procs \cup {None}
    /\ loaded \in [Dirs -> Runs \cup {None}] /\ faults \in 0 .. MaxFaults
    /\ spared \in [Procs -> SUBSET Runs] /\ recorded \subseteq Runs

\* The run has its scratch directory and has not begun to give it up.
Working(r) == pc[r] \in Opening \/ (pc[r] \in Leaving /\ at[r] # r)

\* The scratch directory of a running verification is there, marked and locked:
\* no sweep and no collection takes it, whatever the ledger says (Sweep,
\* collectKeptTemporaries).
LiveIsSafe ==
    \A r \in Runs : Working(r) =>
        r \in present /\ lock[r] = r /\ marker[r] # None /\ ~Kept(r)

\* A run is never refused the directory it has just made: a sweep that lists it
\* before its marker is written does not touch its lock (classify, 108).
OwnIsFree == \A r \in Runs : pc[r] = "claim" => r \in present /\ lock[r] = None

\* A directory that was kept when a sweep began does not come into its hands
\* unless the marker that says so is lost (classify).
KeptIsSpared ==
    \A p \in Procs : pc[p] \in {"probe", "unlock", "remove"} => ~(at[p] \in spared[p] /\ Kept(at[p]))

\* A keep that was recorded is found in the ledger for as long as its directory
\* exists, whoever else rewrites the file (keptledger.Update).
RecordsAreNotLost == \A r \in recorded : r \in present => ledger[r] = r

\* What a run leaves behind without being asked to keep it is removed in the
\* end, even if it was killed before it could claim it.
AbandonedIsCollected ==
    <>[](\A r \in Runs : pc[r] = "ended" /\ r \in present => Kept(r))

\* docs/architecture.md:242, "A directory kept with `--keep-temp` is marked
\* kept, so no sweep takes it".
NoSweepTakesKept == \A p \in Procs : pc[p] = "remove" => ~Kept(at[p])

\* The shared directory is used by the one run that holds its lock, and is there
\* while it does. Runs among themselves keep to it (claimSharedNativeBuildCache);
\* docs/adr/0006-every-temporary-directory-has-an-owner.md:66, "The lock is the
\* liveness signal", promises it of a collection as well.
LiveSharedIsSafe ==
    \A r \in Runs : pc[r] = "work" /\ uses[r] # None =>
        uses[r] \in present /\ lock[uses[r]] = r
=============================================================================
