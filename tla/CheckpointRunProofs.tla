------------------------- MODULE CheckpointRunProofs -------------------------
(***************************************************************************)
(* Machine-checked proofs about CheckpointRun, for every number of         *)
(* targets, packages, mutants, processes and faults, with or without       *)
(* changing inventories and rotting files.                                 *)
(***************************************************************************)
EXTENDS CheckpointRun, TLAPS

-----------------------------------------------------------------------------
(* The inductive invariant, conjunct by conjunct.                          *)

Saving   == {"baseline", "checks", "targets", "failing", "suites", "race",
             "catalog", "probe", "mutants", "repair"}
Checked  == Saving \ {"baseline", "checks"}
Growing  == {"targets", "suites", "mutants"}
Mutating == {"probe", "mutants", "repair"}

\* Which store call can be under way, and what the phase says of the state.
Control ==
    /\ op \in {"rename", "unjournal", "append"} => enabled
    /\ op \in {"unbase", "undelete"} => ~enabled
    /\ enabled => phase \in Saving /\ Valid(mem)
    /\ enabled /\ phase \in Checked => mem.checks
    /\ enabled /\ phase \in Mutating => mem.catalog
    /\ op = "append" => phase \in Growing
    /\ enabled /\ op = "none" /\ phase \notin Growing => journal = <<>>

\* A line's tag is never the state of a run that has not finished its checks.
TagsAreChecked ==
    \A i \in DOMAIN journal : journal[i] # Malformed => journal[i].base.checks

\* No stale line can be taken for one of state s or of a later attempt at it.
Foreign(s) ==
    \A i \in DOMAIN journal : journal[i] # Malformed =>
        ~s.checks \/ journal[i].base.attempts <= s.attempts

\* A rename never gives the base the identity a line on disk already names.
TagsDiffer(s) ==
    \A i \in DOMAIN journal : journal[i] # Malformed => journal[i].base # s

\* Between saves and during an append every line extends the base, once.
Clean(b, lines) ==
    /\ \A i \in DOMAIN lines :
          /\ lines[i] # Malformed /\ lines[i].base = b /\ lines[i].unit \notin b.units
          /\ IsMutant(lines[i].unit) => b.catalog
    /\ \A i, k \in DOMAIN lines : i # k => lines[i].unit # lines[k].unit

SaveState ==
    /\ op \in {"none", "append"} /\ enabled =>
          /\ base \in State /\ memo = base /\ ~torn /\ Clean(base, journal)
          /\ acked = Applied(base, journal)
    /\ op = "none" /\ enabled => mem = Applied(base, journal)
    /\ op = "append" =>
          /\ todo \cap Applied(base, journal).units = {}
          /\ mem = [Applied(base, journal) EXCEPT !.units = @ \cup todo]
    /\ op = "rename" => Foreign(mem) /\ TagsDiffer(mem)
    /\ op = "unjournal" => base = mem /\ memo = mem /\ TagsDiffer(mem)
    /\ op = "undelete" => base = NoBase /\ acked = Nothing

Opening ==
    /\ phase \in {"check", "open", "cold"} => acked = Recovered /\ ~enabled
    /\ phase \in {"check", "open"} => op = "none"
    /\ phase = "cold" => op \in {"none", "unbase", "undelete"}

Files ==
    /\ base \in State => Foreign(base) /\ Valid(base)
    /\ ~Wellformed(journal) => AllowDamage /\ acked = Nothing
    /\ base = Damaged => AllowDamage

\* Only files that rot are ever rejected.
Readable == AllowDamage \/ Absent(base) \/ Found(base, journal)

\* What the files, the memory and the history say of each other.
Core == TagsAreChecked /\ SaveState /\ Files /\ Readable /\ CrashIsAtomic

\* What the prover needs of a state to show that the next one is as good.
IInv == Typed /\ Control /\ Opening /\ Core

-----------------------------------------------------------------------------
(* Lemmas about the journal.                                               *)

\* The state a pair of files yields is a state: replay adds units, no more.
LEMMA AppliedType ==
    ASSUME NEW b \in State, NEW lines \in Seq(Line \cup {Malformed}), Wellformed(lines)
    PROVE  JournalUnits(b, lines) \subseteq Unit /\ Applied(b, lines) \in State
<1>1. \A i \in DOMAIN lines : lines[i] \in Line
  BY DEF Wellformed
<1>2. \A i \in DOMAIN lines : lines[i].unit \in Unit
  BY <1>1 DEF Line
<1>3. JournalUnits(b, lines) \subseteq Unit
  BY <1>2 DEF JournalUnits
<1>4. QED
  BY <1>3 DEF Applied, State

\* What GetCheckpoint recovers has the type of the controller's state.
LEMMA RecoveredType ==
    ASSUME Typed
    PROVE  Recovered \in State \cup {Nothing}
<1>1. CASE Found(base, journal)
  <2>1. base \in State /\ Wellformed(journal)
    BY <1>1 DEF Found, Replays, Typed
  <2>2. QED
    BY <1>1, <2>1, AppliedType DEF Recovered, Typed
<1>2. CASE ~Found(base, journal)
  BY <1>2 DEF Recovered
<1>3. QED
  BY <1>1, <1>2

\* A journal whose lines all extend the base, each unit once, replays.
LEMMA CleanReplays ==
    ASSUME NEW b \in State, NEW lines \in Seq(Line \cup {Malformed}),
           Clean(b, lines), Valid(b), Valid(Applied(b, lines))
    PROVE  Found(b, lines) /\ Wellformed(lines)
<1>1. b \notin {NoBase, Damaged}
  BY CheckpointAssumption
<1>2. Wellformed(lines)
  BY DEF Clean, Wellformed
<1>3. \A i \in DOMAIN lines : Extends(b, lines, i)
  BY DEF Clean, Extends
<1>4. \A i \in DOMAIN lines : i \in Nat
  OBVIOUS
<1>5. \A i, k \in DOMAIN lines : k < i => lines[k].unit # lines[i].unit
  BY <1>4 DEF Clean
<1>6. Replays(b, lines)
  BY <1>2, <1>3, <1>5 DEF Replays, Clean
<1>7. QED
  BY <1>1, <1>2, <1>6 DEF Found

\* Lines that extend another base are skipped, and add nothing.
LEMMA ForeignReplays ==
    ASSUME NEW b \in State, NEW lines \in Seq(Line \cup {Malformed}),
           Wellformed(lines), Valid(b),
           \A i \in DOMAIN lines : lines[i] # Malformed => lines[i].base # b
    PROVE  Found(b, lines) /\ Applied(b, lines) = b
<1>1. \A i \in DOMAIN lines : ~Extends(b, lines, i)
  BY DEF Wellformed, Extends
<1>2. JournalUnits(b, lines) = {}
  BY <1>1 DEF JournalUnits
<1>3. Applied(b, lines) = b
  BY <1>2 DEF Applied, State
<1>4. b \notin {NoBase, Damaged}
  BY CheckpointAssumption
<1>5. QED
  BY <1>1, <1>3, <1>4 DEF Found, Replays

\* One more line for the base adds its unit to a clean journal.
LEMMA CleanAppend ==
    ASSUME NEW b \in State, NEW lines \in Seq(Line \cup {Malformed}),
           NEW u \in Unit, Clean(b, lines), u \notin Applied(b, lines).units,
           IsMutant(u) => b.catalog
    PROVE  LET more == Append(lines, [base |-> b, unit |-> u])
           IN  /\ more \in Seq(Line \cup {Malformed})
               /\ Clean(b, more)
               /\ Applied(b, more) = [Applied(b, lines) EXCEPT !.units = @ \cup {u}]
<1> DEFINE line == [base |-> b, unit |-> u]
           more == Append(lines, line)
<1>1. line \in Line /\ line # Malformed
  BY CheckpointAssumption DEF Line
<1>2. more \in Seq(Line \cup {Malformed})
  BY <1>1
<1>3. /\ DOMAIN more = DOMAIN lines \cup {Len(lines) + 1}
      /\ Len(lines) + 1 \notin DOMAIN lines
      /\ \A i \in DOMAIN lines : more[i] = lines[i]
      /\ more[Len(lines) + 1] = line
  OBVIOUS
<1>4. JournalUnits(b, lines) = {lines[i].unit : i \in DOMAIN lines}
  BY DEF Clean, Extends, JournalUnits
<1>5. \A i \in DOMAIN lines : lines[i].unit # u
  BY <1>4 DEF Applied, State
<1>6. u \notin b.units
  BY DEF Applied, State
<1>7. Clean(b, more)
  <2>1. ASSUME NEW i \in DOMAIN more
        PROVE  /\ more[i] # Malformed /\ more[i].base = b /\ more[i].unit \notin b.units
               /\ IsMutant(more[i].unit) => b.catalog
    <3>1. CASE i \in DOMAIN lines
      BY <3>1, <1>3 DEF Clean
    <3>2. CASE i = Len(lines) + 1
      BY <3>2, <1>1, <1>3, <1>6
    <3>3. QED
      BY <3>1, <3>2, <1>3
  <2>2. ASSUME NEW i \in DOMAIN more, NEW k \in DOMAIN more, i # k
        PROVE  more[i].unit # more[k].unit
    <3>1. line.unit = u
      OBVIOUS
    <3>2. CASE i \in DOMAIN lines /\ k \in DOMAIN lines
      BY <3>2, <2>2, <1>3 DEF Clean
    <3>3. CASE i \in DOMAIN lines /\ k = Len(lines) + 1
      BY <3>1, <3>3, <1>3, <1>5
    <3>4. CASE i = Len(lines) + 1 /\ k \in DOMAIN lines
      BY <3>1, <3>4, <1>3, <1>5
    <3>5. QED
      BY <2>2, <3>2, <3>3, <3>4, <1>3
  <2>3. QED
    BY <2>1, <2>2 DEF Clean
<1>8. JournalUnits(b, more) = JournalUnits(b, lines) \cup {u}
  <2>1. \A i \in DOMAIN more : Extends(b, more, i)
    BY <1>7 DEF Clean, Extends
  <2>2. JournalUnits(b, more) = {more[i].unit : i \in DOMAIN more}
    BY <2>1 DEF JournalUnits
  <2>3. QED
    BY <2>2, <1>3, <1>4
<1>9. Applied(b, more) = [Applied(b, lines) EXCEPT !.units = @ \cup {u}]
  BY <1>8 DEF Applied, State
<1>10. QED
  BY <1>2, <1>7, <1>9

-----------------------------------------------------------------------------
(* Lemmas about the steps that touch no file.                              *)

\* A smaller set of units is as valid.
LEMMA FewerUnitsValid ==
    ASSUME NEW s \in State, NEW t \in State, Valid(s), t.units \subseteq s.units,
           t = [s EXCEPT !.units = t.units]
    PROVE  Valid(t)
BY DEF Valid, State

\* While the controller writes, the disk holds what was last acknowledged.
LEMMA WritingRecovers ==
    ASSUME IInv, enabled, op \in {"none", "append"}
    PROVE  /\ Found(base, journal) /\ Wellformed(journal)
           /\ Recovered = acked /\ acked = Applied(base, journal)
           /\ Applied(base, journal) \in State /\ Valid(Applied(base, journal))
<1>1. /\ base \in State /\ journal \in Seq(Line \cup {Malformed})
      /\ Clean(base, journal) /\ acked = Applied(base, journal)
      /\ Valid(base) /\ mem \in State /\ Valid(mem)
  BY DEF IInv, Core, SaveState, Files, Control, Typed
<1>2. Wellformed(journal)
  BY <1>1 DEF Clean, Wellformed
<1>3. Applied(base, journal) \in State
  BY <1>1, <1>2, AppliedType
<1>4. Valid(Applied(base, journal))
  <2>1. CASE op = "none"
    BY <2>1, <1>1 DEF IInv, Core, SaveState
  <2>2. CASE op = "append"
    <3>1. mem = [Applied(base, journal) EXCEPT !.units = @ \cup todo]
      BY <2>2 DEF IInv, Core, SaveState
    <3>2. /\ Applied(base, journal).units \subseteq mem.units
          /\ Applied(base, journal) = [mem EXCEPT !.units = Applied(base, journal).units]
      BY <3>1, <1>3 DEF State
    <3>3. QED
      BY <3>2, <1>1, <1>3, FewerUnitsValid
  <2>3. QED
    BY <2>1, <2>2
<1>5. QED
  BY <1>1, <1>2, <1>3, <1>4, CleanReplays DEF Recovered

\* A step that changes only the phase.
LEMMA StillStep ==
    ASSUME IInv, UNCHANGED <<base, journal, torn, memo, mem, enabled, op, todo, acked>>
    PROVE  Core'
BY DEF IInv, Core, TagsAreChecked, SaveState, Foreign, TagsDiffer, Files,
       Readable, CrashIsAtomic, Recovered

\* A controller that gives up, or a process that dies, leaves the files alone.
LEMMA GiveUpStep ==
    ASSUME IInv, UNCHANGED <<base, journal, memo, mem, todo, acked>>,
           enabled' = FALSE, op' \in {"none", "unbase"}
    PROVE  Core'
BY DEF IInv, Core, TagsAreChecked, SaveState, Foreign, TagsDiffer, Files,
       Readable, CrashIsAtomic, Recovered

\* A full put begins: its document is new whenever lines extend the old one.
LEMMA SaveStep ==
    ASSUME IInv, enabled, op = "none", NEW s \in State, Valid(s),
           s.attempts = mem.attempts, journal # <<>> => s # base,
           UNCHANGED <<base, journal, torn, memo, enabled, todo, acked>>,
           mem' = s, op' = "rename"
    PROVE  Core'
<1>1. /\ Recovered = acked /\ base \in State /\ Clean(base, journal)
      /\ mem = Applied(base, journal) /\ journal \in Seq(Line \cup {Malformed})
  BY WritingRecovers DEF IInv, Core, SaveState, Typed
<1>2. base.attempts = s.attempts /\ base.attempts \in Nat
  BY <1>1 DEF Applied, State
<1>3. \A i \in DOMAIN journal : journal[i].base = base /\ s # base
  BY <1>1 DEF Clean
<1>4. Foreign(s)
  BY <1>2, <1>3 DEF Foreign
<1>5. TagsDiffer(s)
  BY <1>3 DEF TagsDiffer
<1>6. SaveState'
  BY <1>4, <1>5 DEF SaveState, Foreign, TagsDiffer
<1>7. TagsAreChecked' /\ Files' /\ Readable'
  BY DEF IInv, Core, TagsAreChecked, Files, Foreign, Readable
<1>8. CrashIsAtomic'
  BY <1>1 DEF CrashIsAtomic, Recovered
<1>9. QED
  BY <1>6, <1>7, <1>8 DEF Core

\* An append begins, of units no line and no base holds yet.
LEMMA AppendStep ==
    ASSUME IInv, enabled, op = "none", NEW S \in SUBSET Unit, S \cap mem.units = {},
           UNCHANGED <<base, journal, torn, memo, enabled, acked>>,
           mem' = [mem EXCEPT !.units = @ \cup S], todo' = S, op' = "append"
    PROVE  Core'
<1>1. Recovered = acked /\ mem = Applied(base, journal)
  BY WritingRecovers DEF IInv, Core, SaveState
<1>2. SaveState'
  BY <1>1 DEF SaveState, IInv, Core
<1>3. TagsAreChecked' /\ Files' /\ Readable'
  BY DEF IInv, Core, TagsAreChecked, Files, Foreign, Readable
<1>4. CrashIsAtomic'
  BY <1>1 DEF CrashIsAtomic, Recovered
<1>5. QED
  BY <1>2, <1>3, <1>4 DEF Core

-----------------------------------------------------------------------------
(* The store's steps preserve Core.                                        *)

\* Publishing the new base supersedes every line on disk at once.
LEMMA PutRenameStep == IInv /\ PutRename => Core'
<1> SUFFICES ASSUME IInv, PutRename PROVE Core'
  OBVIOUS
<1>1. /\ mem \in State /\ Valid(mem) /\ journal \in Seq(Line \cup {Malformed})
      /\ Foreign(mem) /\ TagsDiffer(mem)
      /\ base' = mem /\ memo' = mem /\ op' = "unjournal"
      /\ UNCHANGED <<journal, mem, enabled, todo, acked>>
  BY DEF PutRename, control, IInv, Typed, Core, SaveState
<1>2. Wellformed(journal) => Found(mem, journal) /\ Applied(mem, journal) = mem
  BY <1>1, ForeignReplays DEF TagsDiffer
<1>3. ~Wellformed(journal) => ~Found(mem, journal) /\ acked = Nothing /\ AllowDamage
  BY DEF Found, Replays, IInv, Core, Files
<1>4. mem # Damaged /\ mem # NoBase
  BY <1>1, CheckpointAssumption
<1>5. TagsAreChecked' /\ SaveState'
  BY <1>1 DEF IInv, Core, TagsAreChecked, SaveState, TagsDiffer
<1>6. Files'
  BY <1>1, <1>4 DEF IInv, Core, Files, Foreign
<1>7. Readable' /\ CrashIsAtomic'
  BY <1>1, <1>2, <1>3 DEF Readable, CrashIsAtomic, Recovered
<1>8. QED
  BY <1>5, <1>6, <1>7 DEF Core

\* Without its journal the new base is the whole state.
LEMMA PutUnjournalStep == IInv /\ PutUnjournal => Core'
<1> SUFFICES ASSUME IInv, PutUnjournal PROVE Core'
  OBVIOUS
<1>1. /\ mem \in State /\ Valid(mem) /\ base = mem /\ memo = mem
      /\ journal' = <<>> /\ torn' = FALSE /\ op' = "none" /\ acked' = mem
      /\ UNCHANGED <<base, memo, mem, enabled, todo>>
  BY DEF PutUnjournal, control, IInv, Typed, Core, SaveState, Control
<1>2. <<>> \in Seq(Line \cup {Malformed}) /\ DOMAIN <<>> = {}
  OBVIOUS
<1>3. Wellformed(<<>>) /\ Clean(mem, <<>>)
  BY <1>2 DEF Wellformed, Clean
<1>4. Found(mem, <<>>) /\ Applied(mem, <<>>) = mem
  BY <1>1, <1>2, <1>3, ForeignReplays
<1>5. mem # Damaged
  BY <1>1, CheckpointAssumption
<1>6. TagsAreChecked' /\ Files' /\ SaveState'
  BY <1>1, <1>2, <1>3, <1>4, <1>5 DEF TagsAreChecked, Files, Foreign, SaveState
<1>7. Readable' /\ CrashIsAtomic'
  BY <1>1, <1>4 DEF Readable, CrashIsAtomic, Recovered
<1>8. QED
  BY <1>6, <1>7 DEF Core

\* What one more line for the base does to the journal.
LEMMA OneMoreLine ==
    ASSUME IInv, op = "append", NEW u \in todo
    PROVE  LET more == Append(journal, Written(u))
           IN  /\ more \in Seq(Line \cup {Malformed})
               /\ Clean(base, more) /\ Found(base, more) /\ Wellformed(more)
               /\ Applied(base, more) = [Applied(base, journal) EXCEPT !.units = @ \cup {u}]
               /\ Applied(base, more) \in State
               /\ Tag \in State
               /\ base.checks /\ DOMAIN more = DOMAIN journal \cup {Len(journal) + 1}
               /\ \A i \in DOMAIN journal : more[i] = journal[i]
               /\ more[Len(journal) + 1].base = base
<1> DEFINE more == Append(journal, Written(u))
<1>1. /\ enabled /\ phase \in Growing /\ mem.checks /\ Valid(mem) /\ mem \in State
      /\ base \in State /\ memo = base /\ ~torn /\ Clean(base, journal) /\ Valid(base)
      /\ todo \subseteq Unit /\ journal \in Seq(Line \cup {Malformed})
      /\ todo \cap Applied(base, journal).units = {}
      /\ mem = [Applied(base, journal) EXCEPT !.units = @ \cup todo]
  BY DEF IInv, Typed, Control, Core, SaveState, Files, Growing, Checked, Saving
<1>2. Applied(base, journal) \in State /\ Wellformed(journal)
  BY <1>1, WritingRecovers
<1>3. Tag = base /\ base # NoBase /\ Written(u) = [base |-> base, unit |-> u]
  BY <1>1, CheckpointAssumption DEF Tag, Written
<1>4. /\ mem.checks = base.checks /\ mem.catalog = base.catalog /\ u \in mem.units
      /\ u \in Unit /\ u \notin Applied(base, journal).units
  BY <1>1, <1>2 DEF Applied, State
<1>5. IsMutant(u) => base.catalog
  BY <1>1, <1>4 DEF Valid
<1>6. /\ more \in Seq(Line \cup {Malformed}) /\ Clean(base, more)
      /\ Applied(base, more) = [Applied(base, journal) EXCEPT !.units = @ \cup {u}]
  BY <1>1, <1>3, <1>4, <1>5, CleanAppend
<1>7. Wellformed(more)
  BY <1>6 DEF Clean, Wellformed
<1>8. Applied(base, more) \in State
  BY <1>1, <1>6, <1>7, AppliedType
<1>9. Applied(base, more) = [mem EXCEPT !.units = Applied(base, more).units]
      /\ Applied(base, more).units \subseteq mem.units
  <2> DEFINE old == Applied(base, journal)
             new == Applied(base, more)
  <2>1. /\ old \in State /\ new \in State /\ u \in todo
        /\ new = [old EXCEPT !.units = old.units \cup {u}]
        /\ mem = [old EXCEPT !.units = old.units \cup todo]
    BY <1>1, <1>2, <1>6, <1>8
  <2> HIDE DEF old, new
  <2>2. new.units = old.units \cup {u} /\ mem.units = old.units \cup todo
    BY <2>1 DEF State
  <2>3. new = [mem EXCEPT !.units = new.units] /\ new.units \subseteq mem.units
    BY <2>1, <2>2 DEF State
  <2>4. QED
    BY <2>3 DEF new
<1>10. Valid(Applied(base, more))
  BY <1>1, <1>8, <1>9, FewerUnitsValid
<1>11. Found(base, more)
  BY <1>1, <1>6, <1>10, CleanReplays
<1>12. /\ DOMAIN more = DOMAIN journal \cup {Len(journal) + 1}
       /\ \A i \in DOMAIN journal : more[i] = journal[i]
       /\ more[Len(journal) + 1].base = base
  BY <1>1, <1>3
<1>13. QED
  BY <1>1, <1>3, <1>4, <1>6, <1>7, <1>8, <1>11, <1>12

\* A line that is written and acknowledged extends what is saved by its unit.
LEMMA AppendLineStep == \A u \in todo : IInv /\ AppendLine(u) => Core'
<1> SUFFICES ASSUME IInv, NEW u \in todo, AppendLine(u) PROVE Core'
  OBVIOUS
<1> DEFINE more == Append(journal, Written(u))
<1>1. /\ op = "append" /\ journal' = more /\ torn' = FALSE /\ todo' = todo \ {u}
      /\ op' = (IF todo' = {} THEN "none" ELSE "append")
      /\ acked' = [acked EXCEPT !.units = @ \cup {u}]
      /\ UNCHANGED <<base, memo, mem, enabled>> /\ u \in todo
  BY DEF AppendLine
<1>2. /\ enabled /\ base \in State /\ memo = base /\ mem \in State /\ Valid(base)
      /\ todo \subseteq Unit /\ journal \in Seq(Line \cup {Malformed})
      /\ acked = Applied(base, journal) /\ acked \in State
      /\ todo \cap acked.units = {}
      /\ mem = [acked EXCEPT !.units = @ \cup todo]
  BY <1>1, WritingRecovers DEF IInv, Typed, Control, Core, SaveState, Files
<1>3. /\ more \in Seq(Line \cup {Malformed})
      /\ Clean(base, more) /\ Found(base, more) /\ Wellformed(more)
      /\ Applied(base, more) = [Applied(base, journal) EXCEPT !.units = @ \cup {u}]
      /\ base.checks /\ DOMAIN more = DOMAIN journal \cup {Len(journal) + 1}
      /\ \A i \in DOMAIN journal : more[i] = journal[i]
      /\ more[Len(journal) + 1].base = base
  BY <1>1, OneMoreLine
<1>4. acked' = Applied(base, more)
  BY <1>1, <1>2, <1>3
<1>5. SaveState'
  <2> DEFINE units == acked.units \cup {u}
             rest == todo \ {u}
  <2>a. acked' = [acked EXCEPT !.units = units] /\ acked'.units = units
    BY <1>1, <1>2 DEF State
  <2>b. units \cup rest = acked.units \cup todo /\ rest \cap units = {}
    BY <1>1, <1>2
  <2>c. todo' = rest
    BY <1>1
  <2>d. mem = [acked' EXCEPT !.units = units \cup rest]
    <3> HIDE DEF units, rest
    <3> QED BY <1>2, <2>a, <2>b DEF State
  <2> HIDE DEF units, rest
  <2>1. todo' = {} => mem = acked'
    <3>1. acked' = [acked' EXCEPT !.units = units]
      BY <1>2, <2>a DEF State
    <3>2. QED
      BY <2>c, <2>d, <3>1
  <2>2. todo' \cap acked'.units = {} /\ mem = [acked' EXCEPT !.units = @ \cup todo']
    BY <1>2, <2>a, <2>b, <2>c, <2>d
  <2>3. QED
    BY <1>1, <1>2, <1>3, <1>4, <2>1, <2>2 DEF SaveState
<1>6. TagsAreChecked'
  BY <1>1, <1>3 DEF IInv, Core, TagsAreChecked
<1>7. Files'
  <2>1. base.attempts \in Nat
    BY <1>2 DEF State
  <2>2. Foreign(base)'
    BY <1>1, <1>3, <2>1, <1>2 DEF IInv, Core, Files, Foreign
  <2>3. QED
    BY <1>1, <1>2, <1>3, <2>2 DEF IInv, Core, Files
<1>8. Readable' /\ CrashIsAtomic'
  BY <1>1, <1>3, <1>4 DEF Readable, CrashIsAtomic, Recovered
<1>9. QED
  BY <1>5, <1>6, <1>7, <1>8 DEF Core

\* A line that may be on disk in full, unacknowledged, adds its unit at most.
LEMMA AppendFailsStep == \A u \in todo : IInv /\ AppendFails(u) => Core'
<1> SUFFICES ASSUME IInv, NEW u \in todo, AppendFails(u) PROVE Core'
  OBVIOUS
<1> DEFINE more == Append(journal, Written(u))
<1>1. /\ op = "append" /\ enabled' = FALSE /\ op' = "unbase"
      /\ UNCHANGED <<base, memo, mem, todo, acked>>
      /\ journal' = journal \/ journal' = more
  BY DEF AppendFails, Disable
<1>2. CASE journal' = journal
  BY <1>1, <1>2, GiveUpStep
<1>3. CASE journal' = more
  <2>1. /\ Found(base, more) /\ Wellformed(more)
        /\ Applied(base, more) = [Applied(base, journal) EXCEPT !.units = @ \cup {u}]
        /\ base.checks /\ DOMAIN more = DOMAIN journal \cup {Len(journal) + 1}
        /\ \A i \in DOMAIN journal : more[i] = journal[i]
        /\ more[Len(journal) + 1].base = base
    BY <1>1, OneMoreLine
  <2>2. /\ acked = Applied(base, journal) /\ acked \in State /\ base \in State /\ Valid(base)
    BY <1>1, WritingRecovers DEF IInv, Control, Core, SaveState, Files
  <2>3. acked # Nothing /\ base.attempts \in Nat
    BY <2>2, CheckpointAssumption DEF State
  <2>4. TagsAreChecked' /\ SaveState'
    BY <1>1, <1>3, <2>1 DEF IInv, Core, TagsAreChecked, SaveState
  <2>5. Foreign(base)'
    BY <1>1, <1>3, <2>1, <2>2, <2>3 DEF IInv, Core, Files, Foreign
  <2>6. Files'
    BY <1>1, <1>3, <2>1, <2>2, <2>5 DEF IInv, Core, Files
  <2>7. Readable' /\ CrashIsAtomic'
    BY <1>1, <1>3, <2>1, <2>2, <2>3 DEF Readable, CrashIsAtomic, Recovered
  <2>8. QED
    BY <2>4, <2>6, <2>7 DEF Core
<1>4. QED
  BY <1>1, <1>2, <1>3

\* Deleting the base forgets everything; deleting the journal nothing more.
LEMMA DeleteStep == IInv /\ (DeleteBase \/ DeleteJournal) => Core'
<1>1. ASSUME IInv, DeleteBase PROVE Core'
  <2>1. /\ base' = NoBase /\ acked' = Nothing /\ op' = "undelete" /\ op = "unbase"
        /\ UNCHANGED <<journal, enabled>> /\ ~enabled
    BY <1>1 DEF DeleteBase, control, IInv, Control
  <2>2. Recovered' = Nothing
    BY <2>1 DEF Recovered, Found
  <2>3. NoBase \notin State /\ NoBase # Damaged
    BY CheckpointAssumption
  <2>4. QED
    BY <1>1, <2>1, <2>2, <2>3 DEF IInv, Core, TagsAreChecked, SaveState, Files,
       Readable, CrashIsAtomic, Absent
<1>2. ASSUME IInv, DeleteJournal PROVE Core'
  <2>1. /\ base = NoBase /\ base' = NoBase /\ acked' = Nothing /\ op' = "none"
        /\ journal' = <<>> /\ ~enabled'
    BY <1>2 DEF DeleteJournal, control, IInv, Control, Core, SaveState
  <2>2. Recovered' = Nothing
    BY <2>1 DEF Recovered, Found
  <2>3. NoBase \notin State /\ NoBase # Damaged
    BY CheckpointAssumption
  <2>4. DOMAIN <<>> = {} /\ Wellformed(<<>>)
    BY DEF Wellformed
  <2>5. QED
    BY <2>1, <2>2, <2>3, <2>4 DEF Core, TagsAreChecked, SaveState, Files,
       Readable, CrashIsAtomic, Absent
<1>3. QED
  BY <1>1, <1>2

-----------------------------------------------------------------------------
(* Every step preserves the invariant: the store.                          *)

\* One named step per file operation of the store.
LEMMA StoreInvariant == IInv /\ StoreStep => IInv'
<1> SUFFICES ASSUME IInv, StoreStep PROVE IInv'
  OBVIOUS
<1> USE DEF control, files, result, bounds
<1>0. <<>> \in Seq(Line \cup {Malformed})
  OBVIOUS
<1>1. CASE PutRename
  <2>1. Typed' /\ Control' /\ Opening'
    BY <1>1 DEF PutRename, IInv, Typed, Ops, Control, Opening, Saving
  <2>2. QED
    BY <1>1, <2>1, PutRenameStep DEF IInv
<1>2. CASE PutFails
  <2>1. /\ UNCHANGED <<base, journal, torn, memo, mem, todo, phase, acked, cached, reported, starts>>
        /\ op = "rename" /\ enabled' = FALSE /\ op' = "unbase" /\ faults' \in Nat
    BY <1>2 DEF PutFails, Disable, Fault, IInv, Typed
  <2>2. Typed' /\ Control' /\ Opening'
    BY <2>1 DEF IInv, Typed, Ops, Control, Opening, Saving
  <2>3. QED
    BY <2>1, <2>2, GiveUpStep DEF IInv
<1>3. CASE PutUnjournal
  <2>a. /\ op = "unjournal" /\ journal' = <<>> /\ torn' = FALSE /\ op' = "none" /\ acked' = mem
        /\ UNCHANGED <<base, memo, mem, enabled, todo, phase, cached, reported, starts, faults>>
    BY <1>3 DEF PutUnjournal
  <2>b. Typed'
    BY <1>0, <2>a DEF IInv, Typed, Ops
  <2>c. Control' /\ Opening'
    BY <2>a DEF IInv, Control, Opening, Saving
  <2>1. Typed' /\ Control' /\ Opening'
    BY <2>b, <2>c
  <2>2. QED
    BY <1>3, <2>1, PutUnjournalStep DEF IInv
<1>4. CASE PutUnjournalFails
  <2>1. /\ UNCHANGED <<base, journal, torn, memo, mem, todo, phase, acked, cached, reported, starts>>
        /\ op = "unjournal" /\ enabled' = FALSE /\ op' = "unbase" /\ faults' \in Nat
    BY <1>4 DEF PutUnjournalFails, Disable, Fault, IInv, Typed
  <2>2. Typed' /\ Control' /\ Opening'
    BY <2>1 DEF IInv, Typed, Ops, Control, Opening, Saving
  <2>3. QED
    BY <2>1, <2>2, GiveUpStep DEF IInv
<1>5. ASSUME NEW u \in todo, AppendLine(u) PROVE IInv'
  <2>1. /\ op = "append" /\ enabled /\ phase \in Growing
        /\ journal' \in Seq(Line \cup {Malformed})
        /\ acked' \in State
    <3>1. op = "append" /\ enabled /\ phase \in Growing /\ acked = Applied(base, journal)
      BY <1>5 DEF AppendLine, IInv, Control, Core, SaveState
    <3>2. QED
      BY <1>5, <3>1, OneMoreLine DEF AppendLine
  <2>2. Typed'
    BY <1>5, <2>1 DEF AppendLine, IInv, Typed, Ops
  <2>3. Control' /\ Opening'
    BY <1>5, <2>1 DEF AppendLine, IInv, Control, Opening, Growing, Saving, Checked, Mutating
  <2>4. QED
    BY <1>5, <2>2, <2>3, AppendLineStep DEF IInv
<1>6. ASSUME NEW u \in todo, AppendFails(u) PROVE IInv'
  <2>1. op = "append" /\ enabled /\ phase \in Growing /\ Append(journal, Written(u)) \in Seq(Line \cup {Malformed})
    <3>1. op = "append"
      BY <1>6 DEF AppendFails
    <3>2. QED
      BY <3>1, OneMoreLine DEF IInv, Control
  <2>2. /\ UNCHANGED <<base, memo, mem, todo, phase, acked, cached, reported, starts>>
        /\ enabled' = FALSE /\ op' = "unbase" /\ faults' \in Nat
        /\ journal' \in Seq(Line \cup {Malformed}) /\ torn' \in BOOLEAN
    <3>1. journal \in Seq(Line \cup {Malformed}) /\ torn \in BOOLEAN /\ faults \in Nat
      BY DEF IInv, Typed
    <3>2. faults' \in Nat
      BY <1>6, <3>1 DEF AppendFails, Fault
    <3>3. journal' \in Seq(Line \cup {Malformed}) /\ torn' \in BOOLEAN
      BY <1>6, <2>1, <3>1 DEF AppendFails
    <3>4. QED
      BY <1>6, <3>2, <3>3 DEF AppendFails, Disable
  <2>3. Typed' /\ Control' /\ Opening'
    BY <2>1, <2>2 DEF IInv, Typed, Ops, Control, Opening, Growing, Saving
  <2>4. QED
    BY <1>6, <2>3, AppendFailsStep DEF IInv
<1>7. CASE DeleteBase
  <2>1. Typed' /\ Control'
    BY <1>7 DEF DeleteBase, IInv, Typed, Ops, Control
  <2>2. Opening'
    BY <1>7 DEF DeleteBase, IInv, Opening, Control, Recovered, Found
  <2>3. QED
    BY <1>7, <2>1, <2>2, DeleteStep DEF IInv
<1>8. CASE DeleteBaseFails
  <2>1. /\ UNCHANGED <<base, journal, torn, memo, mem, enabled, todo, phase, acked, cached, reported, starts>>
        /\ op = "unbase" /\ ~enabled /\ enabled \in BOOLEAN /\ op' = "none" /\ faults' \in Nat
    BY <1>8 DEF DeleteBaseFails, Fault, IInv, Typed, Control
  <2>2. Typed' /\ Control' /\ Opening'
    BY <2>1 DEF IInv, Typed, Ops, Control, Opening, Recovered
  <2>3. QED
    BY <2>1, <2>2, GiveUpStep DEF IInv
<1>9. CASE DeleteJournal
  <2>1. /\ UNCHANGED <<base, mem, enabled, todo, phase, acked, cached, reported, starts, faults>>
        /\ op = "undelete" /\ ~enabled /\ op' = "none"
        /\ journal' = <<>> /\ torn' = FALSE /\ memo' = NoBase /\ base = NoBase
    BY <1>9 DEF DeleteJournal, IInv, Control, Core, SaveState
  <2>2. Typed' /\ Control' /\ Opening'
    BY <1>0, <2>1 DEF IInv, Typed, Ops, Control, Opening, Recovered, Found
  <2>3. QED
    BY <1>9, <2>2, DeleteStep DEF IInv
<1>10. CASE DeleteJournalFails
  <2>1. /\ UNCHANGED <<base, journal, torn, memo, mem, enabled, todo, phase, acked, cached, reported, starts>>
        /\ op = "undelete" /\ ~enabled /\ enabled \in BOOLEAN /\ op' = "none" /\ faults' \in Nat
    BY <1>10 DEF DeleteJournalFails, Fault, IInv, Typed, Control
  <2>2. Typed' /\ Control' /\ Opening'
    BY <2>1 DEF IInv, Typed, Ops, Control, Opening, Recovered
  <2>3. QED
    BY <2>1, <2>2, GiveUpStep DEF IInv
<1>11. QED
  BY <1>1, <1>2, <1>3, <1>4, <1>5, <1>6, <1>7, <1>8, <1>9, <1>10 DEF StoreStep

-----------------------------------------------------------------------------
(* Every step preserves the invariant: processes, and files that rot.      *)

\* Starting, dying and rotting change what a pair yields only by losing it.
LEMMA LifecycleInvariant == IInv /\ (Start \/ Stop \/ Damage \/ Evict) => IInv'
<1> USE DEF control, files, result, bounds
<1>1. ASSUME IInv, Start PROVE IInv'
  <2>1. /\ UNCHANGED <<base, journal, torn, mem, enabled, op, cached, faults>>
        /\ op = "none" /\ ~enabled /\ enabled \in BOOLEAN
        /\ phase' = "check" /\ memo' = NoBase /\ todo' = {} /\ reported' = FALSE
        /\ starts' \in Nat /\ acked' = Recovered /\ phase \in {"down", "done"}
    BY <1>1 DEF Start, IInv, Typed, Control, Saving
  <2>2. Recovered \in State \cup {Nothing} /\ Recovered' = Recovered
    BY <1>1, <2>1, RecoveredType DEF IInv, Recovered
  <2>3. Typed'
    BY <1>1, <2>1, <2>2 DEF IInv, Typed, Phases
  <2>4. Control' /\ Opening'
    BY <1>1, <2>1, <2>2 DEF Control, Opening
  <2>5. ~Wellformed(journal) => Recovered = Nothing
    BY DEF Recovered, Found, Replays
  <2>6. Core'
    BY <1>1, <2>1, <2>2, <2>5 DEF IInv, Core, TagsAreChecked, SaveState, Files,
       Foreign, Readable, CrashIsAtomic
  <2>7. QED
    BY <2>3, <2>4, <2>6 DEF IInv
<1>2. ASSUME IInv, Stop PROVE IInv'
  <2>1. /\ UNCHANGED <<base, journal, memo, mem, todo, acked, cached, reported, starts, faults>>
        /\ phase' = "down" /\ op' = "none" /\ enabled' = FALSE /\ torn' \in BOOLEAN
    BY <1>2 DEF Stop, IInv, Typed
  <2>2. Typed' /\ Control' /\ Opening'
    BY <1>2, <2>1 DEF IInv, Typed, Phases, Ops, Control, Opening
  <2>3. QED
    BY <1>2, <2>1, <2>2, GiveUpStep DEF IInv
<1>3. ASSUME IInv, Damage PROVE IInv'
  <2>1. /\ AllowDamage /\ phase = "down" /\ ~enabled /\ op \notin {"rename", "unjournal", "append"}
        /\ acked' = Nothing /\ faults' \in Nat
        /\ UNCHANGED <<torn, memo, mem, enabled, todo, op, phase, cached, reported, starts>>
    BY <1>3 DEF Damage, IInv, Typed, Control, Saving
  <2>2. base \in State \cup {NoBase, Damaged} /\ journal \in Seq(Line \cup {Malformed})
    BY <1>3 DEF IInv, Typed
  <2>3. CASE base \in State /\ base' = Damaged /\ UNCHANGED journal
    <3>1. Recovered' = Nothing /\ Damaged \notin State \cup {NoBase, Nothing}
      BY <2>3, CheckpointAssumption DEF Recovered, Found
    <3>2. op # "undelete"
      BY <1>3, <2>3, CheckpointAssumption DEF IInv, Core, SaveState
    <3>3. Typed' /\ Control' /\ Opening'
      BY <1>3, <2>1, <2>3 DEF IInv, Typed, Control, Opening
    <3>4. Core'
      BY <1>3, <2>1, <2>3, <3>1, <3>2 DEF IInv, Core, TagsAreChecked, SaveState, Files,
         Readable, CrashIsAtomic
    <3>5. QED
      BY <3>3, <3>4 DEF IInv
  <2>4. ASSUME NEW i \in DOMAIN journal,
               journal' = [journal EXCEPT ![i] = Malformed], UNCHANGED base
        PROVE  IInv'
    <3>1. /\ journal' \in Seq(Line \cup {Malformed}) /\ DOMAIN journal' = DOMAIN journal
          /\ journal'[i] = Malformed
          /\ \A k \in DOMAIN journal : journal'[k] \in {journal[k], Malformed}
      BY <2>2, <2>4
    <3>2. ~Wellformed(journal')
      BY <2>4, <3>1 DEF Wellformed
    <3>3. Recovered' = Nothing
      BY <2>4, <3>2 DEF Recovered, Found, Replays
    <3>4. Typed' /\ Control' /\ Opening'
      BY <1>3, <2>1, <2>4, <3>1 DEF IInv, Typed, Control, Opening
    <3>5. TagsAreChecked' /\ Files'
      BY <1>3, <2>1, <2>4, <3>1 DEF IInv, Core, TagsAreChecked, Files, Foreign
    <3>6. SaveState' /\ Readable' /\ CrashIsAtomic'
      BY <1>3, <2>1, <2>4, <3>3 DEF IInv, Core, SaveState, Readable, CrashIsAtomic
    <3>7. QED
      BY <3>4, <3>5, <3>6 DEF IInv, Core
  <2>5. QED
    BY <1>3, <2>3, <2>4 DEF Damage
<1>4. ASSUME IInv, Evict PROVE IInv'
  <2>1. /\ phase \in {"down", "write", "writeOther"} /\ ~enabled /\ op = "none"
        /\ UNCHANGED <<memo, mem, enabled, todo, op, phase, reported, starts, faults>>
        /\ cached' \in BOOLEAN /\ acked' = Recovered'
    BY <1>4 DEF Evict, IInv, Typed, Control, Saving
  <2>2. /\ base' \in {base, NoBase} /\ journal' \in {journal, <<>>} /\ torn' \in BOOLEAN
        /\ base' # NoBase => base' = base /\ journal' = <<>>
    BY <1>4 DEF Evict, IInv, Typed
  <2>3. <<>> \in Seq(Line \cup {Malformed}) /\ Wellformed(<<>>) /\ DOMAIN <<>> = {}
    BY DEF Wellformed
  <2>4. base' \in State \cup {NoBase, Damaged} /\ journal' \in Seq(Line \cup {Malformed})
    BY <1>4, <2>2, <2>3 DEF IInv, Typed
  <2>5. CASE base' = NoBase
    <3>1. Recovered' = Nothing /\ NoBase \notin State \cup {Damaged}
      BY <2>5, CheckpointAssumption DEF Recovered, Found
    <3>2. Typed'
      BY <1>4, <2>1, <2>2, <2>4, <3>1 DEF IInv, Typed
    <3>3. Control' /\ Opening'
      BY <2>1 DEF Control, Opening
    <3>4. TagsAreChecked'
      BY <1>4, <2>2, <2>3 DEF IInv, Core, TagsAreChecked
    <3>5. (SaveState /\ Readable /\ CrashIsAtomic)'
      BY <2>1, <2>5, <3>1 DEF SaveState, Readable, CrashIsAtomic, Absent
    <3>6. Files'
      <4>1. ~Wellformed(journal)' => AllowDamage
        BY <1>4, <2>2, <2>3 DEF IInv, Core, Files
      <4>2. QED
        BY <2>1, <2>5, <3>1, <4>1 DEF Files
    <3>7. QED
      BY <3>2, <3>3, <3>4, <3>5, <3>6 DEF IInv, Core
  <2>6. CASE base' # NoBase
    <3>1. base' = base /\ journal' = <<>> /\ base # NoBase
      BY <2>2, <2>6
    <3>2. CASE base = Damaged
      <4>1. Recovered' = Nothing /\ Damaged \notin State /\ AllowDamage
        BY <1>4, <3>1, <3>2, CheckpointAssumption DEF Recovered, Found, IInv, Core, Files
      <4>2. Typed'
        BY <1>4, <2>1, <2>2, <2>4, <4>1 DEF IInv, Typed
      <4>3. Control' /\ Opening'
        BY <2>1 DEF Control, Opening
      <4>4. Core'
        BY <2>1, <2>3, <3>1, <3>2, <4>1 DEF Core, TagsAreChecked, SaveState, Files,
           Readable, CrashIsAtomic
      <4>5. QED
        BY <4>2, <4>3, <4>4 DEF IInv
    <3>3. CASE base # Damaged
      <4>1. base \in State /\ Valid(base)
        BY <1>4, <3>1, <3>3 DEF IInv, Typed, Core, Files
      <4>2. Found(base, <<>>) /\ Applied(base, <<>>) = base
        BY <2>3, <4>1, ForeignReplays
      <4>3. Recovered' = base
        BY <3>1, <4>2 DEF Recovered
      <4>4. Typed'
        BY <1>4, <2>1, <2>2, <2>4, <4>1, <4>3 DEF IInv, Typed
      <4>5. Control' /\ Opening'
        BY <2>1 DEF Control, Opening
      <4>6. (TagsAreChecked /\ SaveState /\ Files)'
        BY <2>1, <2>3, <3>1, <3>3, <4>1 DEF TagsAreChecked, SaveState, Files, Foreign
      <4>7. (Readable /\ CrashIsAtomic)'
        BY <2>1, <3>1, <4>2 DEF Readable, CrashIsAtomic
      <4>8. QED
        BY <4>4, <4>5, <4>6, <4>7 DEF IInv, Core
    <3>4. QED
      BY <3>2, <3>3
  <2>7. QED
    BY <2>5, <2>6
<1>5. QED
  BY <1>1, <1>2, <1>3, <1>4

-----------------------------------------------------------------------------
(* Every step preserves the invariant: the coordinator.                    *)

\* A coordinator step that saves nothing.
LEMMA PassOn ==
    ASSUME IInv, op = "none", NEW p \in Phases, GoTo(p), UNCHANGED <<mem, op>>,
           p \notin {"check", "cold"}, p = "open" => phase = "check",
           enabled => /\ p \in Saving
                      /\ p \in Checked => mem.checks
                      /\ p \in Mutating => mem.catalog
                      /\ p \notin Growing => journal = <<>>
    PROVE  IInv'
<1>1. /\ UNCHANGED <<base, journal, torn, memo, mem, enabled, op, todo, acked, cached, reported, starts, faults>>
      /\ phase' = p
  BY DEF GoTo, Quiet, files, result
<1>2. Recovered' = Recovered
  BY <1>1 DEF Recovered
<1>3. Typed'
  BY <1>1 DEF IInv, Typed
<1>4. Control'
  BY <1>1 DEF IInv, Control
<1>5. Opening'
  BY <1>1, <1>2 DEF IInv, Opening
<1>6. QED
  BY <1>1, <1>3, <1>4, <1>5, StillStep DEF IInv

\* A coordinator step that saves s, unless the controller is disabled.
LEMMA SaveOn ==
    ASSUME IInv, op = "none", phase \in Saving, NEW s, NEW p \in Saving, Save(s), GoTo(p),
           enabled => /\ s \in State /\ Valid(s) /\ s.attempts = mem.attempts
                      /\ journal # <<>> => s # base
                      /\ p \in Checked => s.checks
                      /\ p \in Mutating => s.catalog
    PROVE  IInv'
<1>1. /\ UNCHANGED <<base, journal, torn, memo, enabled, todo, acked, cached, reported, starts, faults>>
      /\ phase' = p
  BY DEF GoTo, Quiet, files, result
<1>2. CASE enabled
  <2>1. mem' = s /\ op' = "rename"
    BY <1>2 DEF Save
  <2>2. Core'
    BY <1>1, <1>2, <2>1, SaveStep
  <2>3. Typed'
    BY <1>1, <1>2, <2>1 DEF IInv, Typed, Ops, Phases, Saving
  <2>4. Control' /\ Opening'
    BY <1>1, <1>2, <2>1 DEF IInv, Control, Opening, Saving
  <2>5. QED
    BY <2>2, <2>3, <2>4 DEF IInv
<1>3. CASE ~enabled
  <2>1. UNCHANGED <<mem, op>>
    BY <1>3 DEF Save
  <2>2. p \in Phases /\ p \notin {"check", "cold", "open"}
    BY DEF Saving, Phases
  <2>3. QED
    BY <1>3, <2>1, <2>2, PassOn
<1>4. QED
  BY <1>2, <1>3

\* A coordinator step after which nothing is saved any more.
LEMMA GiveUpOn ==
    ASSUME IInv, op = "none", UNCHANGED <<base, journal, torn, memo, mem, todo, acked, starts, faults>>,
           enabled' = FALSE, op' \in {"none", "unbase"}, cached' \in BOOLEAN, reported' \in BOOLEAN,
           phase' \in Phases \ {"check", "open", "cold"}
    PROVE  IInv'
<1>1. Typed' /\ Control' /\ Opening'
  BY DEF IInv, Typed, Ops, Control, Opening
<1>2. QED
  BY <1>1, GiveUpStep DEF IInv

\* A coordinator step that starts appending the new units S.
LEMMA AppendOn ==
    ASSUME IInv, op = "none", enabled, phase \in Growing,
           NEW S \in SUBSET Unit, S \cap mem.units = {},
           mem' = [mem EXCEPT !.units = @ \cup S], Valid(mem'), todo' = S, op' = "append",
           UNCHANGED <<memo, enabled, phase, result>>, Quiet
    PROVE  IInv'
<1>1. UNCHANGED <<base, journal, torn, memo, enabled, acked, phase, cached, reported, starts, faults>>
  BY DEF Quiet, files, result
<1>2. Core'
  BY <1>1, AppendStep
<1>3. mem' \in State
  BY DEF IInv, Typed, State
<1>4. Typed'
  BY <1>1, <1>3 DEF IInv, Typed, Ops
<1>5. mem'.checks = mem.checks /\ mem'.catalog = mem.catalog
  BY DEF IInv, Typed, State
<1>6. Control' /\ Opening'
  BY <1>1, <1>5 DEF IInv, Control, Opening, Growing
<1>7. QED
  BY <1>2, <1>4, <1>6 DEF IInv

\* Dropping mutation work, or everything, leaves a state as valid as before.
LEMMA DroppedWorkValid ==
    ASSUME NEW s \in State, Valid(s)
    PROVE  /\ NoMutation(s) \in State /\ Valid(NoMutation(s))
           /\ NoMutation(s).checks = s.checks /\ NoMutation(s).attempts = s.attempts
           /\ NoMutation(s).complete = s.complete /\ NoMutation(s).race = s.race
<1> DEFINE kept == {u \in s.units : ~IsMutant(u)}
<1>1. /\ kept \subseteq s.units /\ \A u \in kept : ~IsMutant(u)
      /\ NoMutation(s) = [s EXCEPT !.catalog = FALSE, !.probe = FALSE,
                                   !.finished = FALSE, !.units = kept]
  BY DEF NoMutation
<1> HIDE DEF kept
<1>2. NoMutation(s) \in State
  BY <1>1 DEF State
<1>3. /\ NoMutation(s).units = kept /\ NoMutation(s).complete = s.complete
      /\ NoMutation(s).attempts = s.attempts /\ NoMutation(s).checks = s.checks
      /\ NoMutation(s).race = s.race
      /\ NoMutation(s).probe = FALSE /\ NoMutation(s).finished = FALSE
  BY <1>1 DEF State
<1>4. QED
  BY <1>1, <1>2, <1>3 DEF Valid

\* Opening a found state counts an attempt, which no line on disk can name.
LEMMA OpenInvariant == IInv /\ (OpenFound \/ OpenAbsent \/ OpenFails) => IInv'
<1> USE DEF control, files, result, bounds
<1>1. ASSUME IInv, OpenFound PROVE IInv'
  <2> DEFINE got  == Applied(base, journal)
             next == [got EXCEPT !.attempts = @ + 1]
  <2>1. /\ UNCHANGED <<base, journal, torn, todo, cached, reported, starts, faults, acked>>
        /\ phase = "open" /\ Found(base, journal) /\ op = "none"
        /\ mem' = next /\ memo' = base /\ enabled' = TRUE /\ op' = "rename"
        /\ phase' = "baseline"
    BY <1>1 DEF OpenFound, Idle, Quiet
  <2>2. /\ base \in State /\ journal \in Seq(Line \cup {Malformed}) /\ Wellformed(journal)
        /\ Valid(got) /\ acked = Recovered /\ Foreign(base)
    BY <1>1, <2>1 DEF IInv, Typed, Opening, Core, Files, Found, Replays
  <2>3. got \in State /\ got.attempts = base.attempts /\ got.checks = base.checks
    BY <2>2, AppliedType DEF Applied, State
  <2> HIDE DEF got
  <2>4. /\ next \in State /\ next.attempts = base.attempts + 1 /\ next.checks = base.checks
        /\ next.complete = got.complete /\ next.catalog = got.catalog
        /\ next.probe = got.probe /\ next.finished = got.finished
        /\ next.units = got.units /\ base.attempts \in Nat
    BY <2>2, <2>3 DEF State
  <2>5. Valid(next)
    BY <2>2, <2>4 DEF Valid
  <2> HIDE DEF next
  <2>6. \A i \in DOMAIN journal : /\ journal[i] \in Line /\ journal[i] # Malformed
                                  /\ journal[i].base.attempts \in Nat /\ journal[i].base.checks
    BY <1>1, <2>2 DEF Wellformed, Line, State, IInv, Core, TagsAreChecked
  <2>7. Foreign(next)
    BY <2>2, <2>4, <2>6 DEF Foreign
  <2>8. TagsDiffer(next)
    <3>1. ASSUME NEW i \in DOMAIN journal, journal[i].base = next PROVE FALSE
      <4>1. base.checks
        BY <2>4, <2>6, <3>1
      <4>2. journal[i].base.attempts <= base.attempts
        BY <2>2, <2>6, <4>1 DEF Foreign
      <4>3. QED
        BY <2>4, <3>1, <4>2
    <3>2. QED
      BY <3>1 DEF TagsDiffer
  <2>9. Core'
    BY <1>1, <2>1, <2>2, <2>7, <2>8 DEF IInv, Core, TagsAreChecked, SaveState, Foreign,
       TagsDiffer, Files, Readable, CrashIsAtomic, Recovered
  <2>10. Typed' /\ Control' /\ Opening'
    BY <1>1, <2>1, <2>2, <2>4, <2>5 DEF IInv, Typed, Phases, Ops, Control, Opening,
       Saving, Checked, Mutating
  <2>11. QED
    BY <2>9, <2>10 DEF IInv
<1>2. ASSUME IInv, OpenAbsent PROVE IInv'
  <2>1. /\ UNCHANGED <<base, journal, torn, memo, todo, cached, reported, starts, faults, acked>>
        /\ phase \in {"open", "cold"} /\ op = "none"
        /\ mem' = Fresh /\ enabled' = TRUE /\ op' = "rename" /\ phase' = "baseline"
    BY <1>2 DEF OpenAbsent, Idle, Quiet
  <2>2. /\ Fresh \in State /\ Valid(Fresh) /\ Fresh.checks = FALSE
        /\ acked = Recovered
    BY <1>2, <2>1 DEF Fresh, State, Valid, IInv, Opening
  <2>3. Foreign(Fresh) /\ TagsDiffer(Fresh)
    BY <1>2, <2>2 DEF Foreign, TagsDiffer, IInv, Core, TagsAreChecked
  <2>4. Core'
    BY <1>2, <2>1, <2>2, <2>3 DEF IInv, Core, TagsAreChecked, SaveState, Foreign,
       TagsDiffer, Files, Readable, CrashIsAtomic, Recovered
  <2>5. Typed' /\ Control' /\ Opening'
    BY <1>2, <2>1, <2>2 DEF IInv, Typed, Phases, Ops, Control, Opening,
       Saving, Checked, Mutating
  <2>6. QED
    BY <2>4, <2>5 DEF IInv
<1>3. ASSUME IInv, OpenFails PROVE IInv'
  <2>1. /\ UNCHANGED <<base, journal, torn, memo, mem, enabled, todo, cached, reported, starts, acked>>
        /\ phase = "open" /\ op = "none" /\ op' = "unbase" /\ phase' = "cold"
    BY <1>3 DEF OpenFails, Idle
  <2>2. /\ enabled' = FALSE /\ acked = Recovered /\ Recovered' = Recovered
        /\ faults' \in Nat
    BY <1>3, <2>1 DEF OpenFails, Fault, IInv, Typed, Opening, Recovered
  <2>3. Core'
    BY <1>3, <2>1, <2>2, GiveUpStep
  <2>4. Typed' /\ Control' /\ Opening'
    BY <1>3, <2>1, <2>2 DEF IInv, Typed, Phases, Ops, Control, Opening
  <2>5. QED
    BY <2>3, <2>4 DEF IInv
<1>4. QED
  BY <1>1, <1>2, <1>3

\* A line on disk holds a unit the base does not.
LEMMA JournaledUnit ==
    ASSUME IInv, enabled, op = "none", journal # <<>>
    PROVE  /\ \E u \in mem.units : u \notin base.units
           /\ mem.complete = base.complete /\ base \in State
<1>1. /\ mem = Applied(base, journal) /\ Clean(base, journal) /\ base \in State
      /\ journal \in Seq(Line \cup {Malformed})
  BY DEF IInv, Typed, Core, SaveState
<1>2. 1 \in DOMAIN journal
  BY <1>1
<1>3. journal[1].unit \in JournalUnits(base, journal) /\ journal[1].unit \notin base.units
  BY <1>1, <1>2 DEF Clean, JournalUnits, Extends
<1>4. journal[1].unit \in mem.units /\ mem.complete = base.complete
  BY <1>1, <1>3 DEF Applied, State
<1>5. QED
  BY <1>1, <1>3, <1>4

\* What the base holds, the controller holds.
LEMMA SavedUnits ==
    ASSUME IInv, enabled, op = "none"
    PROVE  base \in State /\ base.units \subseteq mem.units
BY DEF IInv, Core, SaveState, Applied, State

\* One named step per coordinator action.
LEMMA CoordinatorInvariant == IInv /\ CoordinatorStep => IInv'
<1> SUFFICES ASSUME IInv, CoordinatorStep PROVE IInv'
  OBVIOUS
<1>0. /\ mem \in State /\ enabled \in BOOLEAN /\ todo \in SUBSET Unit
      /\ cached \in BOOLEAN /\ reported \in BOOLEAN
      /\ enabled => Valid(mem) /\ phase \in Saving
      /\ enabled /\ phase \in Checked => mem.checks
      /\ enabled /\ phase \in Mutating => mem.catalog
      /\ enabled /\ op = "none" /\ phase \notin Growing => journal = <<>>
  BY DEF IInv, Typed, Control
<1>00. phase \notin Saving => ~enabled
  BY <1>0
<1>1. CASE CacheHit \/ CacheMiss \/ Finish
  <2>1. /\ op = "none" /\ ~enabled /\ UNCHANGED <<mem, op>>
        /\ (GoTo("write") \/ (GoTo("open") /\ phase = "check") \/ GoTo("done"))
    BY <1>1, <1>0 DEF CacheHit, CacheMiss, Finish, Idle, Saving
  <2>2. QED
    BY <2>1, PassOn DEF Phases
<1>2. CASE OpenFound \/ OpenAbsent \/ OpenFails
  BY <1>2, OpenInvariant
<1>3. CASE KeepBaseline
  <2>1. op = "none" /\ phase = "baseline" /\ GoTo("checks") /\ UNCHANGED <<mem, op>>
    BY <1>3 DEF KeepBaseline, Idle
  <2>2. QED
    BY <1>0, <2>1, PassOn DEF Phases, Saving, Checked, Mutating, Growing
<1>4. CASE ResetBaseline
  <2> DEFINE s == [Fresh EXCEPT !.attempts = mem.attempts]
  <2>1. op = "none" /\ phase = "baseline" /\ enabled /\ Save(s) /\ GoTo("checks")
    BY <1>4 DEF ResetBaseline, Idle
  <2>2. s \in State /\ s.attempts = mem.attempts /\ Valid(s) /\ journal = <<>>
    BY <1>0, <2>1 DEF Fresh, State, Valid, Growing
  <2> HIDE DEF s
  <2>3. QED
    BY <2>1, <2>2, SaveOn DEF Saving, Checked, Mutating
<1>5. CASE RunChecks
  <2> DEFINE s == [mem EXCEPT !.checks = TRUE]
  <2>1. op = "none" /\ phase = "checks" /\ GoTo("targets")
    BY <1>5 DEF RunChecks, Idle
  <2>2. CASE mem.checks
    BY <1>0, <1>5, <2>1, <2>2, PassOn DEF RunChecks, Phases, Saving, Checked, Mutating, Growing
  <2>3. CASE ~mem.checks
    <3>1. Save(s)
      BY <1>5, <2>3 DEF RunChecks
    <3>2. /\ s \in State /\ s.attempts = mem.attempts /\ s.checks
          /\ Valid(mem) => Valid(s)
      BY <1>0 DEF State, Valid
    <3>3. enabled => journal = <<>>
      BY <1>0, <2>1 DEF Growing
    <3> HIDE DEF s
    <3>4. QED
      BY <1>0, <2>1, <3>1, <3>2, <3>3, SaveOn DEF Saving, Checked, Mutating
  <2>4. QED
    BY <2>2, <2>3
<1>6. CASE ChecksReject \/ BaselineFindings \/ RaceFindings \/ RepairApplied
  <2>1. op = "none" /\ (Discard("write") \/ Discard("writeOther"))
    BY <1>6 DEF ChecksReject, BaselineFindings, RaceFindings, RepairApplied, Idle
  <2>2. /\ UNCHANGED <<base, journal, torn, memo, mem, todo, acked, starts, faults, cached, reported>>
        /\ enabled' = FALSE /\ op' = "unbase" /\ phase' \in {"write", "writeOther"}
    BY <2>1 DEF Discard, Disable, Quiet, files, result
  <2>3. QED
    BY <1>0, <2>1, <2>2, GiveUpOn DEF Phases
<1>70. ASSUME NEW S \in SUBSET ({"target"} \X Targets \cup {"suite"} \X Packages), FirstBatch(S)
       PROVE  IInv'
  <2> DEFINE s == [mem EXCEPT !.units = @ \cup S]
  <2>1. /\ op = "none" /\ phase \in {"targets", "suites"} /\ enabled /\ S # {} /\ S \cap mem.units = {}
        /\ Save(s) /\ GoTo(phase)
        /\ S \subseteq {"target"} \X Targets \/ ~mem.complete
    BY <1>70 DEF FirstBatch, Idle
  <2>2. S \subseteq Unit /\ \A u \in S : ~IsMutant(u)
    BY DEF Unit, IsMutant
  <2>3. S \subseteq {"target"} \X Targets => \A u \in S : ~IsSuite(u)
    BY DEF IsSuite
  <2>4. /\ s \in State /\ s.attempts = mem.attempts /\ s.checks = mem.checks
        /\ s.units = mem.units \cup S /\ s.complete = mem.complete /\ s.catalog = mem.catalog
        /\ s.probe = mem.probe /\ s.finished = mem.finished
    BY <1>0, <2>2 DEF State
  <2> HIDE DEF s
  <2>5. Valid(s)
    BY <1>0, <2>1, <2>2, <2>3, <2>4 DEF Valid
  <2>6. s # base
    BY <2>1, <2>4, SavedUnits
  <2>7. phase \in Saving \ Mutating /\ mem.checks
    BY <1>0, <2>1 DEF Saving, Checked, Mutating
  <2> QED BY <2>1, <2>4, <2>5, <2>6, <2>7, SaveOn
<1>7. ASSUME NEW S \in SUBSET ({"target"} \X Targets), TargetBatch(S) PROVE IInv'
  <2>1. /\ op = "none" /\ phase = "targets" /\ enabled /\ S \cap mem.units = {}
        /\ mem' = [mem EXCEPT !.units = @ \cup S] /\ todo' = S /\ op' = "append"
        /\ UNCHANGED <<memo, enabled, phase, result>> /\ Quiet
    BY <1>7 DEF TargetBatch, Idle
  <2>2. S \subseteq Unit /\ \A u \in S : ~IsSuite(u) /\ ~IsMutant(u)
    BY DEF Unit, IsSuite, IsMutant
  <2>3. Valid(mem')
    BY <1>0, <2>1, <2>2 DEF Valid, State
  <2>4. QED
    BY <2>1, <2>2, <2>3, AppendOn DEF Growing
<1>8. CASE EmptyBatch
  <2>1. op = "none" /\ phase = "targets" /\ enabled /\ Save(mem) /\ GoTo("failing")
    BY <1>8 DEF EmptyBatch, Idle
  <2>2. journal # <<>> => mem # base
    BY <2>1, JournaledUnit
  <2>3. QED
    BY <1>0, <2>1, <2>2, SaveOn DEF Saving, Checked, Mutating
<1>9. CASE RunError
  <2>1. /\ UNCHANGED <<base, journal, torn, memo, mem, todo, acked, starts, faults, cached, reported>>
        /\ op = "none" /\ enabled' = FALSE /\ op' = "none" /\ phase' = "down"
    BY <1>9 DEF RunError, Idle, Quiet, files, result
  <2>2. QED
    BY <1>0, <2>1, GiveUpOn DEF Phases
<1>10. CASE TargetsDone
  <2>1. op = "none" /\ phase = "targets" /\ GoTo("suites") /\ UNCHANGED <<mem, op>>
    BY <1>10 DEF TargetsDone, Idle
  <2>2. QED
    BY <1>0, <2>1, PassOn DEF Phases, Saving, Checked, Mutating, Growing
<1>11. ASSUME NEW p \in Packages, SaveSuite(p) PROVE IInv'
  <2> DEFINE S == {<<"suite", p>>}
  <2>1. /\ op = "none" /\ phase = "suites" /\ enabled /\ ~mem.complete /\ S \cap mem.units = {}
        /\ mem' = [mem EXCEPT !.units = @ \cup S] /\ todo' = S /\ op' = "append"
        /\ UNCHANGED <<memo, enabled, phase, result>> /\ Quiet
    BY <1>11 DEF SaveSuite, Idle
  <2>2. S \in SUBSET Unit /\ \A u \in S : ~IsMutant(u)
    BY DEF Unit, IsMutant
  <2>3. Valid(mem')
    BY <1>0, <2>1, <2>2 DEF Valid, State
  <2>4. QED
    BY <2>1, <2>2, <2>3, AppendOn DEF Growing
<1>12. CASE CompleteBaseline
  <2> DEFINE s == [mem EXCEPT !.complete = TRUE, !.units = {u \in @ : ~IsSuite(u)}]
  <2>1. op = "none" /\ phase = "suites" /\ Save(s) /\ GoTo("race")
    BY <1>12 DEF CompleteBaseline, Idle
  <2>2. /\ s \in State /\ s.attempts = mem.attempts /\ s.checks = mem.checks /\ s.complete
        /\ s.units = {u \in mem.units : ~IsSuite(u)}
        /\ Valid(mem) => Valid(s)
    BY <1>0 DEF State, Valid
  <2> HIDE DEF s
  <2>3. enabled /\ journal # <<>> => s # base
    <3>1. ASSUME enabled, journal # <<>> PROVE s # base
      <4>1. PICK u \in mem.units : u \notin base.units
        BY <2>1, <3>1, JournaledUnit
      <4>2. CASE mem.complete
        <5>1. ~IsSuite(u)
          BY <1>0, <3>1, <4>1, <4>2 DEF Valid
        <5>2. u \in s.units
          BY <2>2, <4>1, <5>1
        <5>3. QED
          BY <4>1, <5>2
      <4>3. CASE ~mem.complete
        BY <2>1, <2>2, <3>1, <4>3, JournaledUnit
      <4>4. QED
        BY <4>2, <4>3
    <3>2. QED
      BY <3>1
  <2>4. enabled => mem.checks /\ Valid(mem)
    BY <1>0, <2>1 DEF Checked, Saving
  <2>5. "race" \in Saving /\ "race" \notin Mutating /\ phase \in Saving
    BY <2>1 DEF Saving, Mutating
  <2>6. QED
    BY <2>1, <2>2, <2>3, <2>4, <2>5, SaveOn
<1>13. CASE ResumeRace
  <2>1. op = "none" /\ phase = "race" /\ GoTo("catalog") /\ UNCHANGED <<mem, op>>
    BY <1>13 DEF ResumeRace, Idle
  <2>2. QED
    BY <1>0, <2>1, PassOn DEF Phases, Saving, Checked, Mutating, Growing
<1>14. CASE DiscardRace
  <2> DEFINE s == [NoMutation(mem) EXCEPT !.race = FALSE]
  <2>1. op = "none" /\ phase = "race" /\ enabled /\ Save(s) /\ GoTo("race")
    BY <1>14 DEF DiscardRace, Idle
  <2>2. /\ s \in State /\ s.attempts = mem.attempts /\ s.checks = mem.checks /\ Valid(s)
    BY <1>0, <2>1, DroppedWorkValid DEF State, Valid
  <2>3. journal = <<>>
    BY <1>0, <2>1 DEF Growing
  <2> HIDE DEF s
  <2>4. QED
    BY <1>0, <2>1, <2>2, <2>3, SaveOn DEF Saving, Checked, Mutating
<1>15. CASE RunRace
  <2> DEFINE s == [mem EXCEPT !.race = TRUE]
  <2>1. op = "none" /\ phase = "race" /\ Save(s) /\ GoTo("catalog")
    BY <1>15 DEF RunRace, Idle
  <2>2. /\ s \in State /\ s.attempts = mem.attempts /\ s.checks = mem.checks
        /\ Valid(mem) => Valid(s)
    BY <1>0 DEF State, Valid
  <2>3. enabled => journal = <<>>
    BY <1>0, <2>1 DEF Growing
  <2> HIDE DEF s
  <2>4. QED
    BY <1>0, <2>1, <2>2, <2>3, SaveOn DEF Saving, Checked, Mutating
<1>16. CASE ResumeCatalog
  <2>1. /\ op = "none" /\ phase = "catalog" /\ GoTo("probe") /\ UNCHANGED <<mem, op>>
        /\ enabled => mem.catalog
    BY <1>16 DEF ResumeCatalog, Idle
  <2>2. QED
    BY <1>0, <2>1, PassOn DEF Phases, Saving, Checked, Mutating, Growing
<1>17. CASE NewCatalog \/ DiscardProbe
  <2> DEFINE s == [NoMutation(mem) EXCEPT !.catalog = TRUE]
  <2>1. op = "none" /\ phase \in {"catalog", "probe"} /\ enabled /\ Save(s) /\ GoTo("probe")
    BY <1>17 DEF NewCatalog, DiscardProbe, Idle
  <2>2. /\ s \in State /\ s.attempts = mem.attempts /\ s.checks = mem.checks /\ s.catalog
        /\ Valid(s)
    BY <1>0, <2>1, DroppedWorkValid DEF State, Valid
  <2>3. journal = <<>>
    BY <1>0, <2>1 DEF Growing
  <2> HIDE DEF s
  <2>4. QED
    BY <1>0, <2>1, <2>2, <2>3, SaveOn DEF Saving, Checked, Mutating
<1>18. CASE ResumeProbe
  <2>1. op = "none" /\ phase = "probe" /\ GoTo("mutants") /\ UNCHANGED <<mem, op>>
    BY <1>18 DEF ResumeProbe, Idle
  <2>2. QED
    BY <1>0, <2>1, PassOn DEF Phases, Saving, Checked, Mutating, Growing
<1>19. CASE RunProbe
  <2> DEFINE s == [mem EXCEPT !.probe = TRUE]
  <2>1. op = "none" /\ phase = "probe" /\ Save(s) /\ GoTo("mutants")
    BY <1>19 DEF RunProbe, Idle
  <2>2. /\ s \in State /\ s.attempts = mem.attempts /\ s.checks = mem.checks
        /\ s.catalog = mem.catalog
        /\ Valid(mem) /\ mem.catalog => Valid(s)
    BY <1>0 DEF State, Valid
  <2>3. enabled => journal = <<>> /\ mem.catalog
    BY <1>0, <2>1 DEF Growing, Mutating
  <2> HIDE DEF s
  <2>4. enabled => mem.checks /\ Valid(mem)
    BY <1>0, <2>1 DEF Checked, Saving
  <2>5. "mutants" \in Saving /\ phase \in Saving
    BY <2>1 DEF Saving
  <2>6. QED
    BY <2>1, <2>2, <2>3, <2>4, <2>5, SaveOn
<1>20. ASSUME NEW m \in Mutants, SaveMutant(m) PROVE IInv'
  <2> DEFINE S == {<<"mutant", m>>}
  <2>1. /\ op = "none" /\ phase = "mutants" /\ enabled /\ S \cap mem.units = {}
        /\ mem' = [mem EXCEPT !.units = @ \cup S] /\ todo' = S /\ op' = "append"
        /\ UNCHANGED <<memo, enabled, phase, result>> /\ Quiet
    BY <1>20 DEF SaveMutant, Idle
  <2>2. S \in SUBSET Unit /\ \A u \in S : ~IsSuite(u)
    BY DEF Unit, IsSuite
  <2>3. mem.catalog
    BY <1>0, <2>1 DEF Mutating
  <2>4. Valid(mem')
    BY <1>0, <2>1, <2>2, <2>3 DEF Valid, State
  <2>5. QED
    BY <2>1, <2>2, <2>4, AppendOn DEF Growing
<1>21. CASE CompleteMutation
  <2> DEFINE s == [mem EXCEPT !.finished = TRUE]
  <2>1. op = "none" /\ phase = "mutants" /\ Save(s) /\ GoTo("repair")
    BY <1>21 DEF CompleteMutation, Idle
  <2>2. /\ s \in State /\ s.attempts = mem.attempts /\ s.checks = mem.checks
        /\ s.catalog = mem.catalog /\ s.units = mem.units
        /\ Valid(mem) /\ mem.catalog => Valid(s)
    BY <1>0 DEF State, Valid
  <2> HIDE DEF s
  <2>3. enabled => mem.catalog
    BY <1>0, <2>1 DEF Mutating
  <2>4. enabled /\ journal # <<>> => s # base
    BY <2>1, <2>2, JournaledUnit
  <2>5. QED
    BY <1>0, <2>1, <2>2, <2>3, <2>4, SaveOn DEF Saving, Checked, Mutating
<1>22. CASE PutReport
  <2>1. /\ UNCHANGED <<base, journal, torn, memo, mem, todo, acked, starts, faults, reported>>
        /\ op = "none" /\ enabled' = FALSE /\ op' = "none" /\ phase' = "write" /\ cached' = TRUE
    BY <1>22 DEF PutReport, Idle, Quiet, files
  <2>2. QED
    BY <1>0, <2>1, GiveUpOn DEF Phases
<1>23. CASE WriteReports
  <2>1. /\ UNCHANGED <<base, journal, torn, memo, mem, enabled, todo, acked, starts, faults, cached>>
        /\ op = "none" /\ op' \in {"none", "unbase"} /\ phase \in {"write", "writeOther"}
        /\ phase' \in {"cleanup", "done"} /\ reported' = TRUE
    BY <1>23 DEF WriteReports, Quiet, files
  <2>2. enabled' = FALSE
    BY <1>0, <2>1 DEF Saving
  <2>3. QED
    BY <1>0, <2>1, <2>2, GiveUpOn DEF Phases
<1>24. QED
  BY <1>1, <1>2, <1>3, <1>4, <1>5, <1>6, <1>70, <1>7, <1>8, <1>9, <1>10, <1>11, <1>12, <1>13, <1>14,
     <1>15, <1>16, <1>17, <1>18, <1>19, <1>20, <1>21, <1>22, <1>23 DEF CoordinatorStep

-----------------------------------------------------------------------------
(* The theorems.                                                           *)

\* The invariant is inductive: it holds at first and no step breaks it.
THEOREM Inductive == Spec => []IInv
<1>1. Init => IInv
  <2> SUFFICES ASSUME Init PROVE IInv
    OBVIOUS
  <2>1. /\ base = NoBase /\ journal = <<>> /\ torn = FALSE /\ memo = NoBase
        /\ mem = Fresh /\ enabled = FALSE /\ op = "none" /\ todo = {}
        /\ phase = "down" /\ cached = FALSE /\ reported = FALSE
        /\ starts = 0 /\ faults = 0 /\ acked = Nothing
    BY DEF Init
  <2>2. /\ <<>> \in Seq(Line \cup {Malformed}) /\ DOMAIN <<>> = {} /\ Fresh \in State
        /\ Wellformed(<<>>)
    BY DEF Fresh, State, Wellformed
  <2>3. Typed /\ Control /\ Opening
    BY <2>1, <2>2 DEF Typed, Control, Opening, Ops, Phases
  <2>4. Recovered = Nothing /\ NoBase \notin State \cup {Damaged}
    BY <2>1, CheckpointAssumption DEF Recovered, Found
  <2>5. Core
    BY <2>1, <2>2, <2>4 DEF Core, TagsAreChecked, SaveState, Files,
       Readable, CrashIsAtomic, Absent
  <2>6. QED
    BY <2>3, <2>5 DEF IInv
<1>2. IInv /\ [Next]_vars => IInv'
  <2> SUFFICES ASSUME IInv, [Next]_vars PROVE IInv'
    OBVIOUS
  <2>1. CASE StoreStep
    BY <2>1, StoreInvariant
  <2>2. CASE CoordinatorStep
    BY <2>2, CoordinatorInvariant
  <2>3. CASE Start \/ Stop \/ Damage \/ Evict
    BY <2>3, LifecycleInvariant
  <2>4. CASE UNCHANGED vars
    <3>1. UNCHANGED <<base, journal, torn, memo, mem, enabled, op, todo, phase,
                      cached, reported, starts, faults, acked>>
      BY <2>4 DEF vars
    <3>2. Typed' /\ Control' /\ Opening'
      BY <3>1 DEF IInv, Typed, Control, Opening, Recovered
    <3>3. QED
      BY <3>1, <3>2, StillStep DEF IInv
  <2>5. QED
    BY <2>1, <2>2, <2>3, <2>4 DEF Next
<1>3. QED
  BY <1>1, <1>2, PTL DEF Spec

\* Every variable keeps its type: saves, resets and replays build checkpoint states.
THEOREM TypeCorrect == Spec => []TypeOK
<1>1. Init => decoded \in BOOLEAN
  BY DEF Init
<1>2. decoded \in BOOLEAN /\ [Next]_vars => (decoded \in BOOLEAN)'
  <2> SUFFICES ASSUME decoded \in BOOLEAN, [Next]_vars PROVE decoded' \in {decoded, TRUE, FALSE}
    OBVIOUS
  <2>1. CASE StoreStep
    BY <2>1 DEF StoreStep, PutRename, PutFails, PutUnjournal, PutUnjournalFails, AppendLine, AppendFails,
                DeleteBase, DeleteBaseFails, DeleteJournal, DeleteJournalFails, Disable, control
  <2>2. CASE Start \/ Stop \/ Damage \/ Evict
    BY <2>2 DEF Start, Stop, Damage, Evict, control
  <2>3. CASE CoordinatorStep
    BY <2>3
       DEF CoordinatorStep, CacheHit, CacheMiss, OpenFound, OpenAbsent, OpenFails, KeepBaseline,
           ResetBaseline, RunChecks, ChecksReject, FirstBatch, TargetBatch, EmptyBatch, RunError,
           TargetsDone, SaveSuite, CompleteBaseline, BaselineFindings, ResumeRace, DiscardRace, RunRace,
           RaceFindings, ResumeCatalog, NewCatalog, ResumeProbe, DiscardProbe, RunProbe,
           SaveMutant, CompleteMutation, RepairApplied, PutReport, WriteReports, Finish,
           Save, Discard, control
  <2>4. CASE UNCHANGED vars
    BY <2>4 DEF vars
  <2> QED BY <2>1, <2>2, <2>3, <2>4 DEF Next
<1>3. IInv => Typed
  BY DEF IInv
<1> QED BY <1>1, <1>2, <1>3, Inductive, PTL DEF Spec, TypeOK

\* GetCheckpoint never rejects what the store wrote, wherever a process died or
\* a call failed: only files that rot make a later run start cold.
THEOREM NeverRejected == Spec => []AlwaysRecoverable
<1>1. IInv => AlwaysRecoverable
  <2>1. SUFFICES ASSUME IInv, ~Absent(base), ~Found(base, journal)
        PROVE  AllowDamage /\ acked = Nothing
    BY DEF AlwaysRecoverable
  <2>2. AllowDamage /\ CrashIsAtomic /\ mem \in State
    BY <2>1 DEF IInv, Core, Readable, Typed
  <2>3. Recovered = Nothing
    BY <2>1 DEF Recovered
  <2>4. Nothing \notin State
    BY CheckpointAssumption
  <2>5. ASSUME acked # Nothing, NEW u \in todo, Recovered = [acked EXCEPT !.units = @ \cup {u}]
        PROVE  FALSE
    <3>1. acked \in State /\ u \in Unit
      BY <2>1, <2>5 DEF IInv, Typed
    <3>2. [acked EXCEPT !.units = @ \cup {u}] \in State
      BY <3>1 DEF State
    <3>3. QED
      BY <2>3, <2>4, <2>5, <3>2
  <2>6. QED
    BY <2>2, <2>3, <2>4, <2>5 DEF CrashIsAtomic
<1>2. QED
  BY <1>1, Inductive, PTL

\* The store's calls are atomic to a crash: what is read back is what was last
\* acknowledged, or that and the write the crash or the failure cut short.
THEOREM Atomicity == Spec => []CrashIsAtomic
<1>1. IInv => CrashIsAtomic
  BY DEF IInv, Core
<1>2. QED
  BY <1>1, Inductive, PTL

\* Appended lines and full documents together say what the controller holds.
THEOREM DiskHoldsMemory == Spec => []DiskFollowsMemory
<1>1. IInv => DiskFollowsMemory
  <2> SUFFICES ASSUME IInv, enabled, op = "none" PROVE Recovered = mem
    BY DEF DiskFollowsMemory
  <2>1. Recovered = Applied(base, journal)
    BY WritingRecovers
  <2>2. QED
    BY <2>1 DEF IInv, Core, SaveState
<1>2. QED
  BY <1>1, Inductive, PTL

-----------------------------------------------------------------------------
(* The two files implement one saved state that changes in whole steps.    *)
(* What is published is what the controller holds when a put begins, so    *)
(* the invariant says, of a put under way, that what it will publish       *)
(* follows what is on disk, and which phases of the state are finished     *)
(* where the coordinator stands.                                           *)

\* State t follows state s in a step that saves.
Follows(s, t) ==
    \/ t = s
    \/ t = Fresh
    \/ /\ s \in State
       /\ \/ t = [s EXCEPT !.attempts = @ + 1]
          \/ t = [Fresh EXCEPT !.attempts = s.attempts]
          \/ \E U \in SUBSET (Unit \ s.units) :
                /\ (\E u \in Unit : U = {u}) \/ (s.checks /\ U \subseteq {"target"} \X Targets)
                /\ t = [s EXCEPT !.units = @ \cup U]
          \/ ~s.checks /\ t = [s EXCEPT !.checks = TRUE]
          \/ s.checks /\ t = [s EXCEPT !.complete = TRUE, !.units = {u \in @ : ~IsSuite(u)}]
          \/ s.complete /\ t = [s EXCEPT !.race = TRUE]
          \/ s.race /\ t = [s EXCEPT !.catalog = TRUE]
          \/ s.catalog /\ t = [s EXCEPT !.probe = TRUE]
          \/ s.catalog /\ t = [s EXCEPT !.finished = TRUE]
          \/ t = [NoMutation(s) EXCEPT !.race = FALSE]
          \/ s.catalog /\ t = [NoMutation(s) EXCEPT !.catalog = TRUE]

Pending == op = "rename" => Follows(Recovered, mem)

\* The phases that are finished where the coordinator stands.
Ordered ==
    /\ enabled /\ phase \in {"race", "catalog", "probe", "mutants", "repair"} => mem.complete
    /\ enabled /\ phase \in {"catalog", "probe", "mutants", "repair"} => mem.race

\* Where the coordinator stands, and the phases it has finished, go together.
LEMMA OrderedStep ==
    ASSUME IInv, Ordered, [Next]_vars
    PROVE  Ordered'
<1>1. mem \in State /\ (enabled => Valid(mem))
  BY DEF IInv, Typed, Control
<1>2. CASE StoreStep
  <2>1. mem' = mem /\ phase' = phase /\ (enabled' => enabled)
    BY <1>2 DEF StoreStep, PutRename, PutFails, PutUnjournal, PutUnjournalFails, AppendLine, AppendFails,
                DeleteBase, DeleteBaseFails, DeleteJournal, DeleteJournalFails, Disable, control
  <2> QED BY <2>1 DEF Ordered
<1>3. CASE Start \/ Stop \/ Damage \/ Evict
  <2>1. \/ mem' = mem /\ phase' = phase /\ enabled' = enabled
        \/ phase' = "check" \/ ~enabled'
    BY <1>3 DEF Start, Stop, Damage, Evict, control
  <2> QED BY <2>1 DEF Ordered
<1>4. CASE UNCHANGED vars
  BY <1>4 DEF vars, Ordered
<1>5. CASE CoordinatorStep
  <2>1. CASE \/ CacheHit \/ CacheMiss \/ OpenFound \/ OpenAbsent \/ OpenFails \/ KeepBaseline \/ ResetBaseline
             \/ RunChecks \/ EmptyBatch \/ TargetsDone \/ WriteReports \/ Finish
             \/ \E S \in SUBSET ({"target"} \X Targets \cup {"suite"} \X Packages) : FirstBatch(S)
             \/ \E S \in SUBSET ({"target"} \X Targets) : TargetBatch(S)
             \/ \E p \in Packages : SaveSuite(p)
    <3>1. phase' \notin {"race", "catalog", "probe", "mutants", "repair"}
      BY <2>1 DEF CacheHit, CacheMiss, OpenFound, OpenAbsent, OpenFails, KeepBaseline, ResetBaseline,
                  RunChecks, EmptyBatch, TargetsDone, WriteReports, Finish, FirstBatch, TargetBatch, SaveSuite, GoTo, Idle
    <3> QED BY <3>1 DEF Ordered
  <2>2. CASE RunError \/ ChecksReject \/ BaselineFindings \/ RaceFindings \/ RepairApplied \/ PutReport
    <3>1. ~enabled'
      BY <2>2 DEF RunError, ChecksReject, BaselineFindings, RaceFindings, RepairApplied, PutReport,
                  Discard, Disable
    <3> QED BY <3>1 DEF Ordered
  <2>3. CASE CompleteBaseline
    <3>1. phase' = "race" /\ (enabled' => mem'.complete)
      BY <1>1, <2>3 DEF CompleteBaseline, Save, GoTo, State
    <3> QED BY <3>1 DEF Ordered
  <2>4. CASE ResumeRace \/ DiscardRace \/ RunRace
    <3>1. phase = "race" /\ phase' \in {"race", "catalog"} /\ enabled' = enabled
          /\ (enabled => mem'.complete = mem.complete)
          /\ (enabled /\ phase' = "catalog" => mem'.race)
      BY <1>1, <2>4 DEF ResumeRace, DiscardRace, RunRace, Save, GoTo, Idle, NoMutation, State
    <3> QED BY <3>1 DEF Ordered
  <2>5. CASE ResumeCatalog \/ NewCatalog \/ ResumeProbe \/ DiscardProbe \/ RunProbe \/ CompleteMutation
             \/ \E m \in Mutants : SaveMutant(m)
    <3>1. /\ phase \in {"catalog", "probe", "mutants"} /\ enabled' = enabled
          /\ enabled => mem'.complete = mem.complete /\ mem'.race = mem.race
      BY <1>1, <2>5 DEF ResumeCatalog, NewCatalog, ResumeProbe, DiscardProbe, RunProbe, CompleteMutation,
                        SaveMutant, Save, GoTo, Idle, NoMutation, State
    <3> QED BY <3>1 DEF Ordered
  <2> QED BY <1>5, <2>1, <2>2, <2>3, <2>4, <2>5 DEF CoordinatorStep
<1> QED BY <1>2, <1>3, <1>4, <1>5 DEF Next

\* A put begins with what follows the state on disk, for memory and disk are one.
LEMMA PendingStep ==
    ASSUME IInv, Ordered, Pending, [Next]_vars
    PROVE  Pending'
<1>1. mem \in State /\ (enabled => Valid(mem)) /\ (enabled /\ phase \in Checked => mem.checks)
      /\ (enabled /\ phase \in Mutating => mem.catalog)
  BY DEF IInv, Typed, Control
<1>2. enabled /\ op = "none" => Recovered = mem
  <2> SUFFICES ASSUME enabled, op = "none" PROVE Recovered = mem
    OBVIOUS
  <2>1. Recovered = Applied(base, journal)
    BY WritingRecovers
  <2> QED BY <2>1 DEF IInv, Core, SaveState
<1>3. CASE StoreStep
  <2>1. op' # "rename"
    BY <1>3 DEF StoreStep, PutRename, PutFails, PutUnjournal, PutUnjournalFails, AppendLine, AppendFails,
                DeleteBase, DeleteBaseFails, DeleteJournal, DeleteJournalFails, Disable
  <2> QED BY <2>1 DEF Pending
<1>4. CASE Start \/ Stop \/ Damage \/ Evict
  <2>1. op = "rename" => phase \in Saving
    BY DEF IInv, Control
  <2>2. op' # "rename"
    BY <1>4, <2>1 DEF Start, Stop, Damage, Evict, control, Saving
  <2> QED BY <2>2 DEF Pending
<1>5. CASE UNCHANGED vars
  BY <1>5 DEF vars, Pending, Recovered
<1>6. CASE CoordinatorStep
  <2> SUFFICES ASSUME op' = "rename" PROVE Follows(Recovered, mem')
    <3>1. Recovered' = Recovered
      BY <1>6 DEF CoordinatorStep, CacheHit, CacheMiss, OpenFound, OpenAbsent, OpenFails, KeepBaseline,
                  ResetBaseline, RunChecks, ChecksReject, FirstBatch, TargetBatch, EmptyBatch, RunError, TargetsDone,
                  SaveSuite, CompleteBaseline, BaselineFindings, ResumeRace, DiscardRace, RunRace,
                  RaceFindings, ResumeCatalog, NewCatalog, ResumeProbe, DiscardProbe, RunProbe,
                  SaveMutant, CompleteMutation, RepairApplied, PutReport, WriteReports, Finish,
                  GoTo, Discard, Quiet, files, Recovered
    <3> QED BY <3>1 DEF Pending
  <2>1. CASE OpenFound
    <3>1. Recovered = Applied(base, journal) /\ mem' = [Applied(base, journal) EXCEPT !.attempts = @ + 1]
          /\ Recovered # Nothing
      BY <2>1, RecoveredType, CheckpointAssumption, AppliedType
         DEF OpenFound, Recovered, IInv, Typed, Found, Replays
    <3>2. Recovered \in State
      BY <3>1, RecoveredType DEF IInv
    <3> QED BY <3>1, <3>2 DEF Follows
  <2>2. CASE OpenAbsent
    BY <2>2 DEF OpenAbsent, Follows
  <2>3. CASE \/ CacheHit \/ CacheMiss \/ OpenFails \/ KeepBaseline \/ ChecksReject \/ RunError \/ TargetsDone
             \/ BaselineFindings \/ ResumeRace \/ RaceFindings \/ ResumeCatalog \/ ResumeProbe
             \/ RepairApplied \/ PutReport \/ WriteReports \/ Finish
             \/ \E S \in SUBSET ({"target"} \X Targets) : TargetBatch(S)
             \/ \E p \in Packages : SaveSuite(p)
             \/ \E m \in Mutants : SaveMutant(m)
    BY <2>3 DEF CacheHit, CacheMiss, OpenFails, KeepBaseline, ChecksReject, RunError, TargetsDone,
                BaselineFindings, ResumeRace, RaceFindings, ResumeCatalog, ResumeProbe, RepairApplied,
                PutReport, WriteReports, Finish, TargetBatch, SaveSuite, SaveMutant, Discard, Disable, Idle
  <2>4. ASSUME NEW s, Save(s), op = "none" PROVE enabled /\ Recovered = mem /\ mem' = s
    BY <1>2, <2>4 DEF Save
  <2>5. CASE ResetBaseline \/ RunChecks \/ EmptyBatch
    BY <1>1, <2>4, <2>5 DEF ResetBaseline, RunChecks, EmptyBatch, Idle, Follows
  <2>55. ASSUME NEW S \in SUBSET ({"target"} \X Targets \cup {"suite"} \X Packages), FirstBatch(S)
         PROVE  Follows(Recovered, mem')
    <3>1. /\ op = "none" /\ phase \in Checked /\ S \cap mem.units = {}
          /\ Save([mem EXCEPT !.units = @ \cup S])
          /\ S \subseteq {"target"} \X Targets \/ \E p \in Packages : S = {<<"suite", p>>}
      BY <2>55 DEF FirstBatch, Idle, Checked, Saving
    <3>2. Recovered = mem /\ mem' = [mem EXCEPT !.units = @ \cup S] /\ mem.checks
      BY <1>1, <2>4, <3>1
    <3>3. S \in SUBSET (Unit \ mem.units)
      BY <3>1 DEF Unit
    <3>4. (\E u \in Unit : S = {u}) \/ S \subseteq {"target"} \X Targets
      BY <3>1 DEF Unit
    <3> QED BY <1>1, <3>2, <3>3, <3>4 DEF Follows
  <2>6. CASE CompleteBaseline
    BY <1>1, <2>4, <2>6 DEF CompleteBaseline, Idle, Follows, Checked, Saving
  <2>7. CASE DiscardRace \/ RunRace
    BY <1>1, <2>4, <2>7 DEF DiscardRace, RunRace, Idle, Follows, Ordered
  <2>8. CASE NewCatalog
    <3>1. Recovered = mem /\ mem' = [NoMutation(mem) EXCEPT !.catalog = TRUE] /\ enabled /\ mem.race
      BY <2>4, <2>8 DEF NewCatalog, Idle, Ordered
    <3>2. CASE ~mem.catalog
      <4>1. ~mem.probe /\ ~mem.finished /\ {u \in mem.units : ~IsMutant(u)} = mem.units
        BY <1>1, <3>1, <3>2 DEF Valid
      <4>2. [NoMutation(mem) EXCEPT !.catalog = TRUE] = [mem EXCEPT !.catalog = TRUE]
        BY <1>1, <3>2, <4>1 DEF NoMutation, State
      <4> QED BY <1>1, <3>1, <4>2 DEF Follows
    <3> QED BY <1>1, <3>1, <3>2 DEF Follows
  <2>9. CASE DiscardProbe \/ RunProbe \/ CompleteMutation
    BY <1>1, <2>4, <2>9 DEF DiscardProbe, RunProbe, CompleteMutation, Idle, Follows, Mutating
  <2> QED BY <1>6, <2>1, <2>2, <2>3, <2>5, <2>55, <2>6, <2>7, <2>8, <2>9 DEF CoordinatorStep
<1> QED BY <1>3, <1>4, <1>5, <1>6 DEF Next

\* What follows the saved state, when it is published, is a step of the abstract state.
LEMMA FollowingIsWork ==
    ASSUME Follows(Recovered, Recovered'), Nothing \notin State
    PROVE  [Work!NextWork]_Recovered
<1>1. ASSUME NEW U \in SUBSET (Unit \ Recovered.units), Recovered \in State,
             (\E u \in Unit : U = {u}) \/ (Recovered.checks /\ U \subseteq {"target"} \X Targets),
             Recovered' = [Recovered EXCEPT !.units = @ \cup U]
      PROVE  Work!NextWork
  <2>1. Work!Unit = Unit
    BY DEF Work!Unit, Unit
  <2>2. Work!Record
    BY <1>1, <2>1 DEF Work!Record
  <2> QED BY <2>2 DEF Work!NextWork
<1> QED
  BY <1>1 DEF Follows, NoMutation, Fresh, State, IsSuite, IsMutant, Unit,
          Work!NextWork, Work!Attempt, Work!Boundary, Work!Invalidate, Work!NoMutation, Work!Fresh,
          Work!IsSuite, Work!IsMutant

\* A base without its journal is what was saved, or less, or what was hidden.
LEMMA BareBase ==
    ASSUME IInv, base \in State
    PROVE  Found(base, <<>>) /\ Applied(base, <<>>) = base
<1>1. Valid(base) /\ <<>> \in Seq(Line \cup {Malformed}) /\ DOMAIN <<>> = {}
  BY DEF IInv, Core, Files
<1> DEFINE none == <<>>
<1>2. Wellformed(none) /\ \A i \in DOMAIN none : none[i] # Malformed => none[i].base # base
  BY <1>1 DEF Wellformed
<1> HIDE DEF none
<1>3. none \in Seq(Line \cup {Malformed})
  BY <1>1 DEF none
<1>4. Found(base, none) /\ Applied(base, none) = base
  BY <1>1, <1>2, <1>3, ForeignReplays
<1> QED BY <1>4 DEF none

\* The journal goes, and the base stays.
LEMMA UnjournaledIsWork ==
    ASSUME IInv, base' = base, journal' = <<>>
    PROVE  [Work!NextWork]_Recovered
<1>1. base \in State \cup {NoBase, Damaged} /\ journal \in Seq(Line \cup {Malformed})
      /\ Nothing \notin State
  BY CheckpointAssumption DEF IInv, Typed
<1>2. CASE base \notin State
  <2>1. base \in {NoBase, Damaged}
    BY <1>1, <1>2
  <2> QED BY <2>1 DEF Recovered, Found
<1>3. CASE base \in State
  <2>1. Recovered' = base
    BY <1>3, BareBase DEF Recovered
  <2>2. CASE Found(base, journal)
    <3>1. Recovered = Applied(base, journal) /\ Recovered # Nothing /\ Recovered \in State
      BY <1>1, <1>3, <2>2, AppliedType DEF Recovered, Found, Replays
    <3>2. base.units \subseteq Recovered.units /\ base = [Recovered EXCEPT !.units = base.units]
      BY <1>3, <3>1 DEF Applied, State
    <3>3. Work!Shrink
      BY <2>1, <3>1, <3>2 DEF Work!Shrink
    <3> QED BY <3>3 DEF Work!NextWork
  <2>3. CASE ~Found(base, journal)
    <3>1. AllowDamage /\ Recovered = Nothing
      BY <1>3, <2>3, CheckpointAssumption DEF IInv, Core, Readable, Absent, Recovered
    <3>2. Work!Reappear
      BY <1>3, <2>1, <3>1 DEF Work!Reappear, Work!State, Work!Unit, State, Unit
    <3> QED BY <3>2 DEF Work!NextWork
  <2> QED BY <2>2, <2>3
<1> QED BY <1>2, <1>3

\* Without a base there is nothing.
LEMMA ForgottenIsWork ==
    ASSUME Recovered' = Nothing
    PROVE  [Work!NextWork]_Recovered
BY DEF Work!NextWork, Work!Forget

\* Every step of the run is a step of the abstract state, or leaves it as it is.
LEMMA StepIsWork ==
    ASSUME IInv, Pending, [Next]_vars
    PROVE  [Work!NextWork]_Recovered
<1>1. /\ base \in State \cup {NoBase, Damaged} /\ journal \in Seq(Line \cup {Malformed})
      /\ mem \in State /\ Nothing \notin State
  BY CheckpointAssumption DEF IInv, Typed
<1>2. ASSUME base' = base, journal' = journal PROVE [Work!NextWork]_Recovered
  BY <1>2 DEF Recovered
<1>3. CASE StoreStep
  <2>1. CASE PutRename
    <3>1. base' = mem /\ journal' = journal /\ Valid(mem) /\ TagsDiffer(mem) /\ op = "rename"
      BY <2>1 DEF PutRename, IInv, Core, SaveState
    <3>2. CASE Wellformed(journal)
      <4>1. Recovered' = mem
        BY <1>1, <3>1, <3>2, ForeignReplays DEF Recovered, TagsDiffer
      <4> QED BY <1>1, <3>1, <4>1, FollowingIsWork DEF Pending
    <3>3. CASE ~Wellformed(journal)
      <4>1. Recovered' = Nothing
        BY <3>1, <3>3 DEF Recovered, Found, Replays
      <4> QED BY <4>1, ForgottenIsWork
    <3> QED BY <3>2, <3>3
  <2>2. CASE PutFails \/ PutUnjournalFails \/ DeleteBaseFails \/ DeleteJournalFails
    BY <1>2, <2>2 DEF PutFails, PutUnjournalFails, DeleteBaseFails, DeleteJournalFails, files
  <2>3. CASE PutUnjournal
    BY <2>3, UnjournaledIsWork DEF PutUnjournal
  <2>4. ASSUME NEW u \in todo, op = "append", base' = base, journal' = Append(journal, Written(u))
        PROVE  [Work!NextWork]_Recovered
    <3>1. /\ Found(base, journal') /\ Applied(base, journal') = [Applied(base, journal) EXCEPT !.units = @ \cup {u}]
      BY <2>4, OneMoreLine
    <3>2. /\ Found(base, journal) /\ Applied(base, journal) \in State
      BY <2>4, WritingRecovers DEF IInv, Control
    <3>3. u \in Unit /\ u \notin Applied(base, journal).units
      BY <2>4 DEF IInv, Typed, Core, SaveState
    <3>4. Recovered = Applied(base, journal) /\ Recovered' = [Recovered EXCEPT !.units = @ \cup {u}]
      BY <2>4, <3>1, <3>2 DEF Recovered
    <3>5. Work!Unit = Unit /\ Recovered # Nothing /\ {u} \in SUBSET (Unit \ Recovered.units)
      BY <1>1, <3>2, <3>3, <3>4 DEF Work!Unit, Unit
    <3>6. Work!Record
      BY <3>3, <3>4, <3>5 DEF Work!Record
    <3> QED BY <3>6 DEF Work!NextWork
  <2>5. ASSUME NEW u \in todo, AppendLine(u) \/ AppendFails(u) PROVE [Work!NextWork]_Recovered
    BY <1>2, <2>4, <2>5 DEF AppendLine, AppendFails
  <2>6. CASE DeleteBase \/ DeleteJournal
    <3>1. Recovered' = Nothing
      BY <2>6 DEF DeleteBase, DeleteJournal, Recovered, Found, IInv, Core, SaveState
    <3> QED BY <3>1, ForgottenIsWork
  <2> QED BY <1>3, <2>1, <2>2, <2>3, <2>5, <2>6 DEF StoreStep
<1>4. CASE Start \/ Stop
  BY <1>2, <1>4 DEF Start, Stop, files
<1>5. CASE Damage
  <2>1. CASE base' = Damaged
    BY <2>1, ForgottenIsWork DEF Recovered, Found
  <2>2. ASSUME NEW i \in DOMAIN journal, journal' = [journal EXCEPT ![i] = Malformed]
        PROVE  [Work!NextWork]_Recovered
    <3>1. i \in DOMAIN journal' /\ journal'[i] = Malformed
      BY <1>1, <2>2
    <3>2. Recovered' = Nothing
      BY <3>1 DEF Recovered, Found, Replays, Wellformed
    <3> QED BY <3>2, ForgottenIsWork
  <2> QED BY <1>5, <2>1, <2>2 DEF Damage
<1>6. CASE Evict
  <2>1. CASE base' = NoBase
    BY <2>1, ForgottenIsWork DEF Recovered, Found
  <2>2. CASE base' = base /\ journal' = <<>>
    BY <2>2, UnjournaledIsWork
  <2> QED BY <1>6, <2>1, <2>2 DEF Evict
<1>7. CASE CoordinatorStep
  BY <1>2, <1>7
     DEF CoordinatorStep, CacheHit, CacheMiss, OpenFound, OpenAbsent, OpenFails, KeepBaseline,
         ResetBaseline, RunChecks, ChecksReject, FirstBatch, TargetBatch, EmptyBatch, RunError, TargetsDone,
         SaveSuite, CompleteBaseline, BaselineFindings, ResumeRace, DiscardRace, RunRace,
         RaceFindings, ResumeCatalog, NewCatalog, ResumeProbe, DiscardProbe, RunProbe,
         SaveMutant, CompleteMutation, RepairApplied, PutReport, WriteReports, Finish,
         GoTo, Discard, Quiet, files
<1>8. CASE UNCHANGED vars
  BY <1>2, <1>8 DEF vars
<1> QED BY <1>3, <1>4, <1>5, <1>6, <1>7, <1>8 DEF Next

\* The base document and its journal, written, appended to, removed and read back as
\* PutCheckpoint, the appends, DeleteCheckpoint and GetCheckpoint do, implement one
\* saved state: whatever call fails or process dies, what would be resumed changes in
\* the whole steps of ResumableWork, for every number of targets, packages, mutants,
\* processes and faults.
THEOREM FilesImplementResumableWork == Spec => ImplementsResumableWork
<1>1. Init => Recovered = Nothing /\ Ordered /\ Pending
  BY CheckpointAssumption DEF Init, Recovered, Found, Ordered, Pending
<1>2. IInv /\ IInv' /\ (Ordered /\ Pending) /\ [Next]_vars => (Ordered /\ Pending)'
  BY OrderedStep, PendingStep
<1>3. IInv /\ (Ordered /\ Pending) /\ [Next]_vars => [Work!NextWork]_Recovered
  BY StepIsWork
<1>4. Init => Work!InitWork
  BY <1>1 DEF Work!InitWork
<1> QED BY <1>1, <1>2, <1>3, <1>4, Inductive, PTL DEF Spec, ImplementsResumableWork, Work!Work

=============================================================================
