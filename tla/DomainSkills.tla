---------------------------- MODULE DomainSkills ----------------------------
(***************************************************************************)
(* The per-site notes of the browse daemon:                                *)
(* .agents/skills/gstack/browse/src/domain-skills.ts, for one host.        *)
(*                                                                         *)
(* A note lives in append-only files of rows, one file per project and one *)
(* for all projects; the row of highest version counts, the last one of    *)
(* equals.  Every command reads a file, computes a row and appends it;     *)
(* nothing keeps another command, in this daemon or the one of another     *)
(* project, from appending in between.  A write may be cut short by a full *)
(* disk or a power cut.  If a part of a line stays, the reader drops it    *)
(* together with whatever is appended behind it on the same line; if only  *)
(* the newline is missing, the row is read, until the next one is appended *)
(* to its line and both are lost.                                          *)
(*                                                                         *)
(* Notes of other hosts never meet those of this one, a body stands for    *)
(* its sha256, and the classifier's score is only whether there is one.    *)
(***************************************************************************)
EXTENDS Integers, Sequences, FiniteSets

CONSTANTS
  Agents,            \* whoever runs a command: one command at a time each
  Projects,
  Global,            \* the file for all projects
  Bodies,            \* texts of notes
  PromoteThreshold,  \* PROMOTE_THRESHOLD
  None,              \* no row
  MaxRows,           \* bound: rows of a file after which no command starts
  MaxTorn            \* bound: writes cut short

ASSUME ThresholdAssumption == PromoteThreshold \in Nat \ {0}
ASSUME BoundsAssumption == MaxRows \in [Projects \cup {Global} -> Nat] /\ MaxTorn \in Nat
ASSUME GlobalAssumption == Global \notin Projects

Files == Projects \cup {Global}
States == {"quarantined", "active", "global"}

(* DomainSkillRow, without its host, its scope (the file tells) and its
   dates. *)
Row == [body : Bodies, version : Nat, state : States, uses : Nat, flags : Nat,
        scored : BOOLEAN, tombstone : BOOLEAN]

(* A row on its way into a file.  `seen` (history) are the rows the command
   had read of that file, `restores` tells whether it is a rollback. *)
Writing == [file : Files, row : Row, seen : SUBSET Nat, restores : BOOLEAN]

ASSUME NoneAssumption == None \notin Writing

VARIABLES
  rows,     \* per file the rows that a reader has got out of it
  lost,     \* per file the positions of those no reader gets any more
  partial,  \* the files that end in a partial line
  unended,  \* the files that end in a row without its newline
  pending,  \* per agent the row it is about to append, or None
  torn      \* writes cut short so far

vars == <<rows, lost, partial, unended, pending, torn>>

TypeOK ==
  /\ rows \in [Files -> Seq(Row)]
  /\ lost \in [Files -> SUBSET Nat]
  /\ partial \subseteq Files /\ unended \subseteq Files
  /\ pending \in [Agents -> Writing \cup {None}]
  /\ torn \in Nat

Init ==
  /\ rows = [f \in Files |-> <<>>]
  /\ lost = [f \in Files |-> {}]
  /\ partial = {} /\ unended = {}
  /\ pending = [a \in Agents |-> None]
  /\ torn = 0

-----------------------------------------------------------------------------
(* readRows: the positions of the rows a reader gets. *)
ReadRows(f) == DOMAIN rows[f] \ lost[f]

(* resolveLatest: the position of the row that wins in a file. *)
IsLatest(f, i) ==
  /\ i \in ReadRows(f)
  /\ \A j \in ReadRows(f) :
       rows[f][j].version < rows[f][i].version
       \/ (rows[f][j].version = rows[f][i].version /\ j <= i)

(* ... and is not a tombstone: the note a command finds. *)
Current(f, i) == IsLatest(f, i) /\ ~rows[f][i].tombstone
Deleted(f) == \E i \in ReadRows(f) : IsLatest(f, i) /\ rows[f][i].tombstone

Begins(a, f) == pending[a] = None /\ Len(rows[f]) < MaxRows[f]

Prepare(a, f, row, restores) ==
  /\ pending' = [pending EXCEPT ![a] =
       [file |-> f, row |-> row, seen |-> ReadRows(f), restores |-> restores]]
  /\ UNCHANGED <<rows, lost, partial, unended, torn>>

NewRow(body, version, scored) ==
  [body |-> body, version |-> version, state |-> "quarantined", uses |-> 0,
   flags |-> 0, scored |-> scored, tombstone |-> FALSE]

(* Mutation: a new text inherits the uses of the old one. *)
WriteSkillKeepingUses(a, p, body, scored) ==
  /\ Begins(a, p)
  /\ \/ /\ \A i \in ReadRows(p) : ~Current(p, i)
        /\ Prepare(a, p, NewRow(body, 1, scored), FALSE)
     \/ \E i \in ReadRows(p) :
          /\ Current(p, i)
          /\ Prepare(a, p, [NewRow(body, rows[p][i].version + 1, scored)
                              EXCEPT !.uses = rows[p][i].uses], FALSE)

(* writeSkill, from save and from edit: a note starts in quarantine.  What
   counts as the prior version is the note a reader finds. *)
WriteSkill(a, p, body, scored) ==
  /\ Begins(a, p)
  /\ \/ /\ \A i \in ReadRows(p) : ~Current(p, i)
        /\ Prepare(a, p, NewRow(body, 1, scored), FALSE)
     \/ \E i \in ReadRows(p) :
          /\ Current(p, i)
          /\ Prepare(a, p, NewRow(body, rows[p][i].version + 1, scored), FALSE)

(* The condition of automatic promotion, on the updated counts. *)
Promotes(row) ==
  /\ row.state = "quarantined"
  /\ row.uses >= PromoteThreshold
  /\ row.flags = 0
  /\ row.scored

(* recordSkillUse. *)
RecordSkillUse(a, p, flagged) ==
  /\ Begins(a, p)
  /\ \E i \in ReadRows(p) :
      LET used == [rows[p][i] EXCEPT !.uses = @ + 1,
                                     !.flags = @ + (IF flagged THEN 1 ELSE 0),
                                     !.version = @ + 1] IN
      /\ Current(p, i)
      /\ Prepare(a, p, IF Promotes(used) THEN [used EXCEPT !.state = "active"]
                       ELSE used, FALSE)

(* promoteToGlobal: the project's file is read, the global one is not. *)
PromoteToGlobal(a, p) ==
  /\ Begins(a, Global)
  /\ \E i \in ReadRows(p) :
      /\ Current(p, i)
      /\ rows[p][i].state = "active"
      /\ Prepare(a, Global, [rows[p][i] EXCEPT !.state = "global", !.version = 1,
                                               !.uses = 0, !.flags = 0], FALSE)

(* Version j comes before version i in rollbackSkill's order: versions
   descending, equal ones as they stand in the file. *)
Newer(f, j, i) ==
  rows[f][j].version > rows[f][i].version
  \/ (rows[f][j].version = rows[f][i].version /\ j < i)

(* rollbackSkill: the second row in that order is written again, on top of
   the first. *)
RollbackSkill(a, f) ==
  LET matching == {i \in ReadRows(f) : ~rows[f][i].tombstone} IN
  /\ Begins(a, f)
  /\ \E i, top \in matching :
      /\ {j \in matching : Newer(f, j, i)} = {top}
      /\ Prepare(a, f, [rows[f][i] EXCEPT !.version = rows[f][top].version + 1], TRUE)

(* Mutation: the tombstone starts a version line of its own. *)
DeleteSkillNewLine(a, f) ==
  /\ Begins(a, f)
  /\ \E i \in ReadRows(f) :
      /\ Current(f, i)
      /\ Prepare(a, f, [rows[f][i] EXCEPT !.tombstone = TRUE, !.version = 1], FALSE)

(* deleteSkill. *)
DeleteSkill(a, f) ==
  /\ Begins(a, f)
  /\ \E i \in ReadRows(f) :
      /\ Current(f, i)
      /\ Prepare(a, f, [rows[f][i] EXCEPT !.tombstone = TRUE, !.version = @ + 1], FALSE)

(* Something is written behind the end of a file: a last row without its
   newline is lost. *)
Lose(f) ==
  lost' = IF f \in unended THEN [lost EXCEPT ![f] = @ \cup {Len(rows[f])}] ELSE lost

Ended(f) == f \notin partial \cup unended

(* appendRow: one write.  Behind anything but a whole line the row is lost. *)
AppendRow(a) ==
  /\ pending[a] # None
  /\ LET f == pending[a].file IN
       /\ rows' = IF Ended(f) THEN [rows EXCEPT ![f] = Append(@, pending[a].row)]
                  ELSE rows
       /\ Lose(f)
       /\ partial' = partial \ {f} /\ unended' = unended \ {f}
  /\ pending' = [pending EXCEPT ![a] = None]
  /\ UNCHANGED torn

(* The write is cut short: nothing is written, or a part of the line, or the
   row without its newline. *)
TornAppend(a) ==
  /\ pending[a] # None
  /\ torn < MaxTorn
  /\ torn' = torn + 1
  /\ LET f == pending[a].file IN
       \/ UNCHANGED <<rows, lost, partial, unended>>
       \/ /\ Lose(f)
          /\ partial' = partial \cup {f} /\ unended' = unended \ {f}
          /\ UNCHANGED rows
       \/ /\ Ended(f)
          /\ rows' = [rows EXCEPT ![f] = Append(@, pending[a].row)]
          /\ unended' = unended \cup {f}
          /\ UNCHANGED <<lost, partial>>
  /\ pending' = [pending EXCEPT ![a] = None]

Next ==
  \E a \in Agents :
    \/ \E p \in Projects :
         \/ \E body \in Bodies, scored \in BOOLEAN : WriteSkill(a, p, body, scored)
         \/ \E flagged \in BOOLEAN : RecordSkillUse(a, p, flagged)
         \/ PromoteToGlobal(a, p)
    \/ \E f \in Files : RollbackSkill(a, f) \/ DeleteSkill(a, f)
    \/ AppendRow(a)
    \/ TornAppend(a)

Spec == Init /\ [][Next]_vars

-----------------------------------------------------------------------------
(***************************************************************************)
(* Properties.                                                             *)
(***************************************************************************)

(* What readSkill returns to a project: the project's own note if it is
   active, else the global one. *)
ReadSkill(p) ==
  LET own == {i \in ReadRows(p) : Current(p, i) /\ rows[p][i].state = "active"}
      global == {i \in ReadRows(Global) : Current(Global, i)}
  IN IF own # {} THEN {rows[p][i] : i \in own} ELSE {rows[Global][i] : i \in global}

(* A text was scored and used as often as promotion asks, one use after the
   other, before any use of it was flagged: the rows of those uses are in the
   file, or were there until their line was spoilt. *)
Earned(p, body) ==
  \A k \in 0 .. PromoteThreshold - 1 :
    \E i \in DOMAIN rows[p] :
      /\ rows[p][i].body = body
      /\ rows[p][i].uses = k
      /\ rows[p][i].flags = 0
      /\ rows[p][i].scored

(* "quarantined -> active: N=3 successful uses (no classifier flags)": no
   interleaving of saves, uses and rollbacks makes a text active that did not
   earn it, whatever happened to the other texts of its host. *)
ActiveWasEarned ==
  \A p \in Projects : \A i \in DOMAIN rows[p] :
    rows[p][i].state = "active" => Earned(p, rows[p][i].body)

(* "new save -> quarantined (does NOT auto-fire in prompts)" and "global:
   requires explicit promote": the note a project gets was earned, in that
   project or, when global, in some project. *)
FiringWasEarned ==
  \A p \in Projects : \A r \in ReadSkill(p) :
    \/ r.state = "active" /\ Earned(p, r.body)
    \/ r.state = "global" /\ \E q \in Projects : Earned(q, r.body)

(* A deleted note is seen again through this write: a rollback, or by a command
   that had not read the tombstone, or had read a row that is lost by now. *)
Revives(a, p) ==
  /\ pending[a] # None /\ pending[a].file = p
  /\ \/ pending[a].restores
     \/ \E i \in ReadRows(p) : rows[p][i].tombstone /\ i \notin pending[a].seen
     \/ pending[a].seen \cap lost[p] # {}

(* The tombstone itself goes: its write was cut just before the newline, and
   another row is appended to its line. *)
TombstoneLost(p) ==
  /\ p \in unended /\ rows[p][Len(rows[p])].tombstone
  /\ lost[p]' # lost[p]

(* "Tombstones win (deleted skill stays deleted)": what makes a deleted note
   visible again is a rollback, a command that had not read the tombstone or
   had read a row lost since, or a write cut short.  (In the global file, a
   promotion as well: it does not read that file.) *)
DeletedStaysDeleted ==
  [][\A p \in Projects : Deleted(p) /\ ~Deleted(p)' =>
       TombstoneLost(p) \/ \E a \in Agents : Revives(a, p)]_vars

(* "Determine prior version ... so version counter increments": a command
   that nobody disturbs and whose write is whole leaves the row it wrote as
   the one that counts.  Does not hold: a save after rm starts again at 1. *)
WrittenIsLatest ==
  \A p \in Projects : \A a \in Agents :
    pending[a] # None /\ pending[a].file = p /\ pending[a].seen = ReadRows(p) =>
      \A i \in ReadRows(p) : rows[p][i].version <= pending[a].row.version

=============================================================================
