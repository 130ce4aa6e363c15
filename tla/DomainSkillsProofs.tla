------------------------- MODULE DomainSkillsProofs -------------------------
(***************************************************************************)
(* A note that reaches a prompt was earned, and a deleted one stays        *)
(* deleted, for any number of agents, projects, texts and rows, with any   *)
(* promotion threshold.                                                    *)
(*                                                                         *)
(* The argument: the counts of a row in a file, or on its way into one,    *)
(* were counted one by one, from rows of the same text that are in the     *)
(* file or were there (Counted); none is taken out of rows, so what was    *)
(* counted stays; and promotion looks at counts that are complete.         *)
(***************************************************************************)
EXTENDS DomainSkills, TLAPS

(* Earned, of given files. *)
EarnedIn(fs, p, body) ==
  \A k \in 0 .. PromoteThreshold - 1 :
    \E i \in DOMAIN fs[p] :
      /\ fs[p][i].body = body
      /\ fs[p][i].uses = k
      /\ fs[p][i].flags = 0
      /\ fs[p][i].scored

(* The rows of the uses before this one are in the file. *)
Counted(fs, f, r) ==
  \A k \in 0 .. r.uses - 1 :
    \E i \in DOMAIN fs[f] :
      /\ fs[f][i].body = r.body
      /\ fs[f][i].uses = k
      /\ fs[f][i].flags <= r.flags
      /\ fs[f][i].scored = r.scored

Fits(fs, f, r) ==
  IF f = Global
    THEN r.state = "global" /\ \E q \in Projects : EarnedIn(fs, q, r.body)
    ELSE /\ r.state # "global"
         /\ Counted(fs, f, r)
         /\ r.state = "active" => EarnedIn(fs, f, r.body)

RowsFit == \A f \in Files : \A i \in DOMAIN rows[f] : Fits(rows, f, rows[f][i])
PendingFits ==
  \A a \in Agents : pending[a] # None => Fits(rows, pending[a].file, pending[a].row)

Inv == TypeOK /\ RowsFit /\ PendingFits

-----------------------------------------------------------------------------
(* Every variable keeps its type. *)
LEMMA RowTyped ==
  ASSUME TypeOK, NEW f \in Files, NEW i \in DOMAIN rows[f]
  PROVE  /\ rows[f] \in Seq(Row) /\ Len(rows[f]) \in Nat
         /\ rows[f][i] \in Row
BY DEF TypeOK

LEMMA PreparedTyped ==
  ASSUME TypeOK, NEW a \in Agents, NEW f \in Files, NEW r \in Row,
         NEW b \in BOOLEAN, Prepare(a, f, r, b)
  PROVE  TypeOK'
<1>1. ReadRows(f) \in SUBSET Nat
  BY DEF TypeOK, ReadRows
<1>2. [file |-> f, row |-> r, seen |-> ReadRows(f), restores |-> b] \in Writing
  BY <1>1 DEF Writing
<1> QED
  BY <1>2 DEF Prepare, TypeOK

LEMMA NewRowTyped ==
  ASSUME NEW body \in Bodies, NEW v \in Nat, NEW s \in BOOLEAN
  PROVE  NewRow(body, v, s) \in Row
BY DEF NewRow, Row, States

-----------------------------------------------------------------------------
(* Rows are never removed: what was earned or counted stays so. *)
LEMMA FitsKept ==
  ASSUME NEW old, NEW new, NEW f \in Files, NEW r,
         \A g \in Files : \A i \in DOMAIN old[g] :
           i \in DOMAIN new[g] /\ new[g][i] = old[g][i],
         Fits(old, f, r)
  PROVE  Fits(new, f, r)
<1>1. ASSUME NEW p \in Projects, NEW body, EarnedIn(old, p, body)
      PROVE  EarnedIn(new, p, body)
  BY <1>1 DEF EarnedIn, Files
<1>2. Counted(old, f, r) => Counted(new, f, r)
  BY DEF Counted
<1> QED
  BY <1>1, <1>2 DEF Fits, Files

(* A command that prepares a fitting row keeps the invariant. *)
LEMMA PreparedKeeps ==
  ASSUME Inv, NEW a \in Agents, NEW f \in Files, NEW r \in Row,
         NEW b \in BOOLEAN, Prepare(a, f, r, b), Fits(rows, f, r)
  PROVE  Inv'
<1>1. TypeOK'
  BY PreparedTyped DEF Inv
<1>2. rows' = rows
  BY DEF Prepare
<1>3. RowsFit'
  BY <1>2 DEF Inv, RowsFit
<1>4. PendingFits'
  <2> SUFFICES ASSUME NEW c \in Agents, pending'[c] # None
               PROVE  Fits(rows, pending'[c].file, pending'[c].row)
    BY <1>2 DEF PendingFits
  <2>1. CASE c = a
    BY <2>1 DEF Prepare, Inv, TypeOK
  <2>2. CASE c # a
    BY <2>2 DEF Prepare, Inv, TypeOK, PendingFits
  <2> QED
    BY <2>1, <2>2
<1> QED
  BY <1>1, <1>3, <1>4 DEF Inv

-----------------------------------------------------------------------------
(* A new text has no use to account for. *)
LEMMA WriteKeeps ==
  ASSUME Inv, NEW a \in Agents, NEW p \in Projects, NEW body \in Bodies,
         NEW scored \in BOOLEAN, WriteSkill(a, p, body, scored)
  PROVE  Inv'
<1> USE GlobalAssumption DEF Files
<1>1. ASSUME NEW v \in Nat, Prepare(a, p, NewRow(body, v, scored), FALSE) PROVE Inv'
  <2>1. Fits(rows, p, NewRow(body, v, scored))
    <3>1. \A k \in 0 .. 0 - 1 : FALSE
      OBVIOUS
    <3> QED
      BY <3>1 DEF Fits, Counted, NewRow
  <2> QED
    BY <1>1, <2>1, NewRowTyped, PreparedKeeps
<1>2. CASE Prepare(a, p, NewRow(body, 1, scored), FALSE)
  BY <1>1, <1>2
<1>3. ASSUME NEW i \in DOMAIN rows[p],
             Prepare(a, p, NewRow(body, rows[p][i].version + 1, scored), FALSE)
      PROVE  Inv'
  <2>1. rows[p][i].version + 1 \in Nat
    BY RowTyped DEF Inv, Row
  <2> QED
    BY <1>1, <1>3, <2>1
<1> QED
  BY <1>2, <1>3 DEF WriteSkill, ReadRows

(* A use is counted on top of a row that is in the file; the counts are
   complete when they promote. *)
LEMMA UseKeeps ==
  ASSUME Inv, NEW a \in Agents, NEW p \in Projects, NEW flagged \in BOOLEAN,
         RecordSkillUse(a, p, flagged)
  PROVE  Inv'
<1> USE GlobalAssumption, ThresholdAssumption DEF Files
<1> DEFINE used(i) == [rows[p][i] EXCEPT !.uses = @ + 1,
                                         !.flags = @ + (IF flagged THEN 1 ELSE 0),
                                         !.version = @ + 1]
           row(i) == IF Promotes(used(i)) THEN [used(i) EXCEPT !.state = "active"]
                     ELSE used(i)
<1>1. PICK i \in DOMAIN rows[p] : Prepare(a, p, row(i), FALSE)
  BY DEF RecordSkillUse, ReadRows
<1>2. rows[p][i] \in Row /\ Fits(rows, p, rows[p][i])
  BY RowTyped DEF Inv, RowsFit
<1>3. /\ used(i).body = rows[p][i].body
      /\ used(i).state = rows[p][i].state
      /\ used(i).uses = rows[p][i].uses + 1
      /\ used(i).flags \in Nat /\ rows[p][i].flags <= used(i).flags
      /\ used(i).scored = rows[p][i].scored
      /\ used(i) \in Row
  <2> DEFINE r == rows[p][i]
             one == [r EXCEPT !.uses = r.uses + 1]
             two == [one EXCEPT !.flags = r.flags + (IF flagged THEN 1 ELSE 0)]
             three == [two EXCEPT !.version = r.version + 1]
  <2>1. used(i) = three
    BY Zenon
  <2>2. r \in Row
    BY <1>2
  <2> HIDE DEF r, used
  <2>3. /\ one \in Row /\ one.body = r.body /\ one.state = r.state
        /\ one.uses = r.uses + 1 /\ one.flags = r.flags /\ one.scored = r.scored
    BY <2>2 DEF Row
  <2> HIDE DEF one
  <2>4. /\ two \in Row /\ two.body = r.body /\ two.state = r.state
        /\ two.uses = r.uses + 1 /\ two.scored = r.scored
        /\ two.flags \in Nat /\ r.flags <= two.flags
    BY <2>2, <2>3 DEF Row
  <2> HIDE DEF two
  <2>5. /\ three \in Row /\ three.body = r.body /\ three.state = r.state
        /\ three.uses = r.uses + 1 /\ three.scored = r.scored
        /\ three.flags \in Nat /\ r.flags <= three.flags
    BY <2>2, <2>4 DEF Row
  <2> HIDE DEF three
  <2> QED
    BY <2>1, <2>5 DEF r
<1> HIDE DEF used
<1>4. Counted(rows, p, used(i))
  <2> SUFFICES ASSUME NEW k \in 0 .. used(i).uses - 1
               PROVE  \E j \in DOMAIN rows[p] :
                        /\ rows[p][j].body = used(i).body
                        /\ rows[p][j].uses = k
                        /\ rows[p][j].flags <= used(i).flags
                        /\ rows[p][j].scored = used(i).scored
    BY DEF Counted
  <2>1. rows[p][i].uses \in Nat
    BY <1>2 DEF Row
  <2>2. CASE k = rows[p][i].uses
    BY <2>2, <1>3
  <2>3. CASE k # rows[p][i].uses
    <3>1. k \in 0 .. rows[p][i].uses - 1
      BY <2>1, <2>3, <1>3
    <3>2. PICK j \in DOMAIN rows[p] :
            /\ rows[p][j].body = rows[p][i].body
            /\ rows[p][j].uses = k
            /\ rows[p][j].flags <= rows[p][i].flags
            /\ rows[p][j].scored = rows[p][i].scored
      BY <3>1, <1>2 DEF Fits, Counted
    <3>3. rows[p][j].flags \in Nat /\ rows[p][i].flags \in Nat
      BY <1>2, RowTyped DEF Inv, Row
    <3>4. rows[p][j].flags <= used(i).flags
      BY <3>2, <3>3, <1>3
    <3> QED
      BY <3>2, <3>4, <1>3
  <2> QED
    BY <2>2, <2>3
<1>5. ASSUME Promotes(used(i)) PROVE EarnedIn(rows, p, used(i).body)
  <2> SUFFICES ASSUME NEW k \in 0 .. PromoteThreshold - 1
               PROVE  \E j \in DOMAIN rows[p] :
                        /\ rows[p][j].body = used(i).body
                        /\ rows[p][j].uses = k
                        /\ rows[p][j].flags = 0
                        /\ rows[p][j].scored
    BY DEF EarnedIn
  <2>1. k \in 0 .. used(i).uses - 1
    BY <1>5, <1>3 DEF Promotes, Row
  <2>2. PICK j \in DOMAIN rows[p] :
          /\ rows[p][j].body = used(i).body
          /\ rows[p][j].uses = k
          /\ rows[p][j].flags <= used(i).flags
          /\ rows[p][j].scored = used(i).scored
    BY <2>1, <1>4 DEF Counted
  <2>3. rows[p][j].flags \in Nat
    BY RowTyped DEF Inv, Row
  <2>4. used(i).flags = 0 /\ used(i).scored
    BY <1>5 DEF Promotes
  <2>5. rows[p][j].flags = 0
    BY <2>2, <2>3, <2>4
  <2> QED
    BY <2>2, <2>4, <2>5
<1>6. row(i) \in Row /\ Fits(rows, p, row(i))
  <2>1. CASE Promotes(used(i))
    <3>1. row(i) = [used(i) EXCEPT !.state = "active"]
      BY <2>1
    <3>2. /\ row(i) \in Row /\ row(i).state = "active" /\ row(i).body = used(i).body
          /\ row(i).uses = used(i).uses /\ row(i).flags = used(i).flags
          /\ row(i).scored = used(i).scored
      BY <3>1, <1>3 DEF Row, States
    <3> QED
      BY <3>2, <1>4, <1>5, <2>1 DEF Fits, Counted
  <2>2. CASE ~Promotes(used(i))
    <3>1. row(i) = used(i)
      BY <2>2
    <3> QED
      BY <3>1, <1>2, <1>3, <1>4 DEF Fits
  <2> QED
    BY <2>1, <2>2
<1> QED
  BY <1>1, <1>6, PreparedKeeps

(* What is promoted is active, so it was earned. *)
LEMMA PromoteKeeps ==
  ASSUME Inv, NEW a \in Agents, NEW p \in Projects, PromoteToGlobal(a, p)
  PROVE  Inv'
<1> USE GlobalAssumption DEF Files
<1> DEFINE row(i) == [rows[p][i] EXCEPT !.state = "global", !.version = 1,
                                        !.uses = 0, !.flags = 0]
<1>1. PICK i \in DOMAIN rows[p] :
        rows[p][i].state = "active" /\ Prepare(a, Global, row(i), FALSE)
  BY DEF PromoteToGlobal, ReadRows
<1>2. rows[p][i] \in Row /\ Fits(rows, p, rows[p][i])
  BY RowTyped DEF Inv, RowsFit
<1>3. row(i) \in Row /\ row(i).state = "global" /\ row(i).body = rows[p][i].body
  BY <1>2 DEF Row, States
<1>4. Fits(rows, Global, row(i))
  BY <1>1, <1>2, <1>3 DEF Fits
<1> QED
  BY <1>1, <1>3, <1>4, PreparedKeeps

(* A row of the file with another version, or as a tombstone, fits as it
   did. *)
LEMMA RewrittenFits ==
  ASSUME Inv, NEW f \in Files, NEW i \in DOMAIN rows[f], NEW r \in Row,
         r.body = rows[f][i].body, r.state = rows[f][i].state,
         r.uses = rows[f][i].uses, r.flags = rows[f][i].flags,
         r.scored = rows[f][i].scored
  PROVE  Fits(rows, f, r)
BY DEF Inv, RowsFit, Fits, Counted

LEMMA RollbackKeeps ==
  ASSUME Inv, NEW a \in Agents, NEW f \in Files, RollbackSkill(a, f)
  PROVE  Inv'
<1> DEFINE row(i, j) == [rows[f][i] EXCEPT !.version = rows[f][j].version + 1]
<1>1. PICK i, j \in DOMAIN rows[f] : Prepare(a, f, row(i, j), TRUE)
  BY DEF RollbackSkill, ReadRows
<1>2. rows[f][i] \in Row /\ rows[f][j].version + 1 \in Nat
  BY RowTyped DEF Inv, Row
<1>3. /\ row(i, j) \in Row
      /\ row(i, j).body = rows[f][i].body /\ row(i, j).state = rows[f][i].state
      /\ row(i, j).uses = rows[f][i].uses /\ row(i, j).flags = rows[f][i].flags
      /\ row(i, j).scored = rows[f][i].scored
  BY <1>2 DEF Row
<1>4. Fits(rows, f, row(i, j))
  BY <1>3, RewrittenFits
<1> QED
  BY <1>1, <1>3, <1>4, PreparedKeeps

LEMMA DeleteKeeps ==
  ASSUME Inv, NEW a \in Agents, NEW f \in Files, DeleteSkill(a, f)
  PROVE  Inv'
<1> DEFINE row(i) == [rows[f][i] EXCEPT !.tombstone = TRUE, !.version = @ + 1]
<1>1. PICK i \in DOMAIN rows[f] : Prepare(a, f, row(i), FALSE)
  BY DEF DeleteSkill, ReadRows
<1>2. rows[f][i] \in Row
  BY RowTyped DEF Inv
<1>3. /\ row(i) \in Row
      /\ row(i).body = rows[f][i].body /\ row(i).state = rows[f][i].state
      /\ row(i).uses = rows[f][i].uses /\ row(i).flags = rows[f][i].flags
      /\ row(i).scored = rows[f][i].scored
  <2> DEFINE r == rows[f][i]
             one == [r EXCEPT !.tombstone = TRUE]
             two == [one EXCEPT !.version = r.version + 1]
  <2>1. row(i) = two
    BY Zenon
  <2>2. r \in Row
    BY <1>2
  <2> HIDE DEF r, row
  <2>3. /\ one \in Row /\ one.body = r.body /\ one.state = r.state
        /\ one.uses = r.uses /\ one.flags = r.flags /\ one.scored = r.scored
    BY <2>2 DEF Row
  <2> HIDE DEF one
  <2>4. /\ two \in Row /\ two.body = r.body /\ two.state = r.state
        /\ two.uses = r.uses /\ two.flags = r.flags /\ two.scored = r.scored
    BY <2>2, <2>3 DEF Row
  <2> HIDE DEF two
  <2> QED
    BY <2>1, <2>4 DEF r
<1>4. Fits(rows, f, row(i))
  BY <1>3, RewrittenFits
<1> QED
  BY <1>1, <1>3, <1>4, PreparedKeeps

(* The write itself, whole or cut short. *)
LEMMA AppendKeeps ==
  ASSUME Inv, NEW a \in Agents, AppendRow(a) \/ TornAppend(a)
  PROVE  Inv'
<1> USE NoneAssumption
<1>1. /\ pending[a] # None /\ pending[a] \in Writing
      /\ pending[a].file \in Files /\ pending[a].row \in Row
      /\ Fits(rows, pending[a].file, pending[a].row)
  BY DEF AppendRow, TornAppend, Inv, TypeOK, Writing, PendingFits
<1> DEFINE f == pending[a].file
           r == pending[a].row
<1>2. rows' \in {rows, [rows EXCEPT ![f] = Append(@, r)]}
  BY DEF AppendRow, TornAppend
<1>3. rows[f] \in Seq(Row)
  BY <1>1 DEF Inv, TypeOK
<1> HIDE DEF f, r
<1>4. TypeOK'
  <2>1. Append(rows[f], r) \in Seq(Row)
    BY <1>1, <1>3 DEF r
  <2>2. rows' \in [Files -> Seq(Row)]
    BY <1>1, <1>2, <2>1 DEF Inv, TypeOK, f
  <2>3. partial' \subseteq Files /\ unended' \subseteq Files /\ torn' \in Nat
    BY <1>1 DEF AppendRow, TornAppend, Inv, TypeOK
  <2>5. lost' \in [Files -> SUBSET Nat]
    <3>1. Len(rows[f]) \in Nat
      BY <1>3
    <3>2. lost' \in {lost, [lost EXCEPT ![f] = @ \cup {Len(rows[f])}]}
      BY DEF AppendRow, TornAppend, Lose, f
    <3>3. lost \in [Files -> SUBSET Nat] /\ f \in Files
      BY <1>1 DEF Inv, TypeOK, f
    <3> QED
      BY <3>1, <3>2, <3>3
  <2>4. pending' \in [Agents -> Writing \cup {None}]
    BY DEF AppendRow, TornAppend, Inv, TypeOK
  <2> QED
    BY <2>2, <2>3, <2>4, <2>5 DEF TypeOK
<1>5. \A g \in Files : rows'[g] = rows[g] \/ (g = f /\ rows'[g] = Append(rows[g], r))
  BY <1>2 DEF Inv, TypeOK
<1>6. /\ \A g \in Files : \A i \in DOMAIN rows[g] :
           i \in DOMAIN rows'[g] /\ rows'[g][i] = rows[g][i]
      /\ \A g \in Files : \A i \in DOMAIN rows'[g] :
           \/ i \in DOMAIN rows[g] /\ rows'[g][i] = rows[g][i]
           \/ g = f /\ rows'[g][i] = r
  <2> SUFFICES ASSUME NEW g \in Files
               PROVE  /\ \A i \in DOMAIN rows[g] :
                           i \in DOMAIN rows'[g] /\ rows'[g][i] = rows[g][i]
                      /\ \A i \in DOMAIN rows'[g] :
                           \/ i \in DOMAIN rows[g] /\ rows'[g][i] = rows[g][i]
                           \/ g = f /\ rows'[g][i] = r
    OBVIOUS
  <2>1. rows[g] \in Seq(Row) /\ r \in Row
    BY <1>1 DEF Inv, TypeOK, r
  <2>2. CASE rows'[g] = rows[g]
    BY <2>2
  <2>3. CASE g = f /\ rows'[g] = Append(rows[g], r)
    BY <2>1, <2>3
  <2> QED
    BY <2>2, <2>3, <1>5
<1>7. RowsFit'
  <2> SUFFICES ASSUME NEW g \in Files, NEW i \in DOMAIN rows'[g]
               PROVE  Fits(rows', g, rows'[g][i])
    BY DEF RowsFit
  <2>1. CASE i \in DOMAIN rows[g] /\ rows'[g][i] = rows[g][i]
    BY <2>1, <1>6, FitsKept DEF Inv, RowsFit
  <2>2. CASE g = f /\ rows'[g][i] = r
    BY <2>2, <1>1, <1>6, FitsKept DEF f, r
  <2> QED
    BY <2>1, <2>2, <1>6
<1>8. PendingFits'
  <2> SUFFICES ASSUME NEW c \in Agents, pending'[c] # None
               PROVE  Fits(rows', pending'[c].file, pending'[c].row)
    BY DEF PendingFits
  <2>1. pending'[c] = pending[c]
    BY DEF AppendRow, TornAppend, Inv, TypeOK
  <2>2. pending[c].file \in Files /\ Fits(rows, pending[c].file, pending[c].row)
    BY <2>1 DEF Inv, TypeOK, Writing, PendingFits
  <2> QED
    BY <2>1, <2>2, <1>6, FitsKept
<1> QED
  BY <1>4, <1>7, <1>8 DEF Inv

-----------------------------------------------------------------------------
THEOREM Invariance == Spec => []Inv
<1>1. Init => Inv
  <2> SUFFICES ASSUME Init PROVE Inv
    OBVIOUS
  <2>1. \A f \in Files : rows[f] = <<>> /\ DOMAIN rows[f] = {}
    BY DEF Init
  <2>2. TypeOK
    BY DEF Init, TypeOK
  <2> QED
    BY <2>1, <2>2 DEF Init, Inv, RowsFit, PendingFits
<1>2. Inv /\ [Next]_vars => Inv'
  <2> SUFFICES ASSUME Inv, [Next]_vars PROVE Inv'
    OBVIOUS
  <2>1. CASE Next
    BY <2>1, WriteKeeps, UseKeeps, PromoteKeeps, RollbackKeeps, DeleteKeeps, AppendKeeps
       DEF Next
  <2>2. CASE UNCHANGED vars
    BY <2>2 DEF vars, Inv, TypeOK, RowsFit, PendingFits
  <2> QED
    BY <2>1, <2>2
<1> QED
  BY <1>1, <1>2, PTL DEF Spec

(* Every variable keeps its type. *)
THEOREM TypeCorrect == Spec => []TypeOK
BY Invariance, PTL DEF Inv

(* An active note earned it: as many uses as promotion asks, one after the
   other and none flagged, are in the file or were there. *)
THEOREM ActiveEarned == Spec => []ActiveWasEarned
<1>1. Inv => ActiveWasEarned
  BY GlobalAssumption DEF Inv, RowsFit, Fits, EarnedIn, Earned, ActiveWasEarned, Files
<1> QED
  BY <1>1, Invariance, PTL

(* So did every note that a project gets to read, its own or the global
   one. *)
THEOREM FiringEarned == Spec => []FiringWasEarned
<1>1. Inv => FiringWasEarned
  <2> SUFFICES ASSUME Inv, NEW p \in Projects, NEW r \in ReadSkill(p)
               PROVE  \/ r.state = "active" /\ Earned(p, r.body)
                      \/ r.state = "global" /\ \E q \in Projects : Earned(q, r.body)
    BY DEF FiringWasEarned
  <2>1. \/ \E i \in DOMAIN rows[p] : r = rows[p][i] /\ r.state = "active"
        \/ \E i \in DOMAIN rows[Global] : r = rows[Global][i]
    BY DEF ReadSkill, ReadRows
  <2>2. CASE \E i \in DOMAIN rows[p] : r = rows[p][i] /\ r.state = "active"
    BY <2>2, GlobalAssumption DEF Inv, RowsFit, Fits, EarnedIn, Earned, Files
  <2>3. CASE \E i \in DOMAIN rows[Global] : r = rows[Global][i]
    BY <2>3 DEF Inv, RowsFit, Fits, EarnedIn, Earned, Files
  <2> QED
    BY <2>1, <2>2, <2>3
<1> QED
  BY <1>1, Invariance, PTL

-----------------------------------------------------------------------------
(***************************************************************************)
(* A deleted note stays deleted.  The argument: versions start at 1 and a  *)
(* tombstone is written on top of a row, so it is never the first version; *)
(* what is not a rollback is therefore a first version, which does not     *)
(* beat a tombstone, or was written on top of a note that won among the    *)
(* rows its command had read, so that a tombstone that wins now is not     *)
(* among those, or that note is lost.  And of the rows, only the last one  *)
(* of a file can be lost, when it has no newline.                          *)
(***************************************************************************)
Numbered(r) == r.version >= 1 /\ (r.tombstone => r.version >= 2)

(* Row i of fs[f] wins among those at ns. *)
WinsAmong(fs, f, ns, i) ==
  /\ i \in ns
  /\ \A j \in ns : \/ fs[f][j].version < fs[f][i].version
                   \/ fs[f][j].version = fs[f][i].version /\ j <= i

(* What a write w other than a rollback was computed from. *)
Knows(fs, w) ==
  /\ Numbered(w.row)
  /\ w.seen \subseteq DOMAIN fs[w.file]
  /\ \/ w.restores \/ w.row.tombstone \/ w.row.version = 1
     \/ \E i \in DOMAIN fs[w.file] :
          WinsAmong(fs, w.file, w.seen, i) /\ ~fs[w.file][i].tombstone

RowsNumbered == \A p \in Projects : \A i \in DOMAIN rows[p] : Numbered(rows[p][i])
PendingKnows ==
  \A a \in Agents :
    pending[a] # None /\ pending[a].file \in Projects => Knows(rows, pending[a])

InvVersions == RowsNumbered /\ PendingKnows

(* A command that prepares a numbered row of a project's file, with what it
   knows of that file, keeps the invariant; so does one of the global file. *)
LEMMA PreparedVersions ==
  ASSUME TypeOK, InvVersions, NEW a \in Agents, NEW f \in Files, NEW r,
         NEW b \in BOOLEAN, Prepare(a, f, r, b),
         f \in Projects =>
           /\ Numbered(r)
           /\ \/ b \/ r.tombstone \/ r.version = 1
              \/ \E i \in ReadRows(f) : Current(f, i)
  PROVE  InvVersions'
<1>1. rows' = rows
  BY DEF Prepare
<1>2. RowsNumbered'
  BY <1>1 DEF InvVersions, RowsNumbered
<1>3. PendingKnows'
  <2> SUFFICES ASSUME NEW c \in Agents, pending'[c] # None, pending'[c].file \in Projects
               PROVE  Knows(rows, pending'[c])
    BY <1>1 DEF PendingKnows
  <2>1. CASE c # a
    <3>1. pending'[c] = pending[c]
      BY <2>1 DEF Prepare, TypeOK
    <3> QED
      BY <3>1 DEF InvVersions, PendingKnows
  <2>2. CASE c = a
    <3> DEFINE w == [file |-> f, row |-> r, seen |-> ReadRows(f), restores |-> b]
    <3>1. pending'[c] = w
      BY <2>2 DEF Prepare, TypeOK
    <3>2. ReadRows(f) \subseteq DOMAIN rows[f]
      BY DEF ReadRows
    <3>3. f \in Projects
      BY <3>1
    <3>4. ASSUME NEW i \in ReadRows(f), Current(f, i)
          PROVE  WinsAmong(rows, f, ReadRows(f), i) /\ ~rows[f][i].tombstone
      BY <3>2, <3>4 DEF Current, IsLatest, WinsAmong
    <3> QED
      BY <3>1, <3>2, <3>3, <3>4 DEF Knows
  <2> QED
    BY <2>1, <2>2
<1> QED
  BY <1>2, <1>3 DEF InvVersions

LEMMA WriteVersions ==
  ASSUME TypeOK, InvVersions, NEW a \in Agents, NEW p \in Projects, NEW body \in Bodies,
         NEW scored \in BOOLEAN, WriteSkill(a, p, body, scored)
  PROVE  InvVersions'
<1> USE DEF Files
<1>1. CASE Prepare(a, p, NewRow(body, 1, scored), FALSE)
  <2>1. Numbered(NewRow(body, 1, scored)) /\ NewRow(body, 1, scored).version = 1
    BY DEF Numbered, NewRow
  <2> QED
    BY <1>1, <2>1, PreparedVersions
<1>2. ASSUME NEW i \in DOMAIN rows[p], Current(p, i),
             Prepare(a, p, NewRow(body, rows[p][i].version + 1, scored), FALSE)
      PROVE  InvVersions'
  <2>1. Numbered(NewRow(body, rows[p][i].version + 1, scored))
    BY RowTyped DEF Numbered, NewRow, Row
  <2> QED
    BY <1>2, <2>1, PreparedVersions DEF Current, IsLatest
<1> QED
  BY <1>1, <1>2 DEF WriteSkill, ReadRows

LEMMA UseVersions ==
  ASSUME TypeOK, InvVersions, NEW a \in Agents, NEW p \in Projects,
         NEW flagged \in BOOLEAN, RecordSkillUse(a, p, flagged)
  PROVE  InvVersions'
<1> USE DEF Files
<1> DEFINE used(i) == [rows[p][i] EXCEPT !.uses = @ + 1,
                                         !.flags = @ + (IF flagged THEN 1 ELSE 0),
                                         !.version = @ + 1]
           row(i) == IF Promotes(used(i)) THEN [used(i) EXCEPT !.state = "active"]
                     ELSE used(i)
<1>1. PICK i \in DOMAIN rows[p] : Current(p, i) /\ Prepare(a, p, row(i), FALSE)
  BY DEF RecordSkillUse, ReadRows
<1>2. rows[p][i] \in Row
  BY RowTyped
<1>3. used(i).version = rows[p][i].version + 1 /\ used(i).tombstone = rows[p][i].tombstone
      /\ row(i).version = used(i).version /\ row(i).tombstone = used(i).tombstone
  BY <1>2 DEF Row
<1>4. ~rows[p][i].tombstone /\ rows[p][i].version \in Nat
  BY <1>1, <1>2 DEF Current, Row
<1> HIDE DEF used, row
<1>5. Numbered(row(i))
  BY <1>3, <1>4 DEF Numbered
<1> QED
  BY <1>1, <1>5, PreparedVersions DEF Current, IsLatest

LEMMA PromoteVersions ==
  ASSUME TypeOK, InvVersions, NEW a \in Agents, NEW p \in Projects, PromoteToGlobal(a, p)
  PROVE  InvVersions'
<1> DEFINE row(i) == [rows[p][i] EXCEPT !.state = "global", !.version = 1,
                                        !.uses = 0, !.flags = 0]
<1>1. PICK i \in DOMAIN rows[p] : Prepare(a, Global, row(i), FALSE)
  BY DEF PromoteToGlobal, ReadRows
<1> HIDE DEF row
<1> QED
  BY <1>1, GlobalAssumption, PreparedVersions DEF Files

LEMMA RollbackVersions ==
  ASSUME TypeOK, InvVersions, NEW a \in Agents, NEW f \in Files, RollbackSkill(a, f)
  PROVE  InvVersions'
<1> DEFINE row(i, j) == [rows[f][i] EXCEPT !.version = rows[f][j].version + 1]
<1>1. PICK i, j \in DOMAIN rows[f] : ~rows[f][i].tombstone /\ Prepare(a, f, row(i, j), TRUE)
  BY DEF RollbackSkill, ReadRows
<1>2. rows[f][i] \in Row /\ rows[f][j].version \in Nat
  BY RowTyped DEF Row
<1>3. Numbered(row(i, j))
  BY <1>1, <1>2 DEF Numbered, Row
<1> QED
  BY <1>1, <1>3, PreparedVersions

(* A tombstone is at least a second version. *)
LEMMA DeleteVersions ==
  ASSUME TypeOK, InvVersions, NEW a \in Agents, NEW f \in Files, DeleteSkill(a, f)
  PROVE  InvVersions'
<1> DEFINE row(i) == [rows[f][i] EXCEPT !.tombstone = TRUE, !.version = @ + 1]
<1>1. PICK i \in DOMAIN rows[f] : Prepare(a, f, row(i), FALSE)
  BY DEF DeleteSkill, ReadRows
<1>2. rows[f][i] \in Row
  BY RowTyped
<1>3. row(i).tombstone /\ row(i).version = rows[f][i].version + 1
  BY <1>2 DEF Row
<1>4. f \in Projects => rows[f][i].version >= 1 /\ rows[f][i].version \in Nat
  BY <1>2 DEF InvVersions, RowsNumbered, Numbered, Row
<1> HIDE DEF row
<1>5. f \in Projects => Numbered(row(i))
  BY <1>3, <1>4 DEF Numbered
<1> QED
  BY <1>1, <1>3, <1>5, PreparedVersions


(* What the write of a row does to the rows of a file. *)
LEMMA Appended ==
  ASSUME TypeOK, NEW a \in Agents, AppendRow(a) \/ TornAppend(a), NEW f \in Files
  PROVE  /\ pending[a] # None /\ pending[a] \in Writing
         /\ \/ rows'[f] = rows[f]
            \/ f = pending[a].file /\ rows'[f] = Append(rows[f], pending[a].row)
         /\ rows[f] \in Seq(Row)
         /\ pending' = [pending EXCEPT ![a] = None]
BY NoneAssumption DEF AppendRow, TornAppend, TypeOK, Writing

LEMMA AppendVersions ==
  ASSUME TypeOK, InvVersions, NEW a \in Agents, AppendRow(a) \/ TornAppend(a)
  PROVE  InvVersions'
<1> USE DEF Files
<1>1. RowsNumbered'
  <2> SUFFICES ASSUME NEW p \in Projects, NEW i \in DOMAIN rows'[p]
               PROVE  Numbered(rows'[p][i])
    BY DEF RowsNumbered
  <2>1. CASE i \in DOMAIN rows[p] /\ rows'[p][i] = rows[p][i]
    BY <2>1 DEF InvVersions, RowsNumbered
  <2>2. CASE pending[a] # None /\ pending[a].file = p /\ rows'[p][i] = pending[a].row
    BY <2>2 DEF InvVersions, PendingKnows, Knows
  <2>3. \/ i \in DOMAIN rows[p] /\ rows'[p][i] = rows[p][i]
        \/ pending[a] # None /\ pending[a].file = p /\ rows'[p][i] = pending[a].row
    <3>1. pending[a].row \in Row
      BY Appended DEF Writing
    <3> QED
      BY <3>1, Appended
  <2> QED
    BY <2>1, <2>2, <2>3
<1>2. PendingKnows'
  <2> SUFFICES ASSUME NEW c \in Agents, pending'[c] # None, pending'[c].file \in Projects
               PROVE  Knows(rows', pending'[c])
    BY DEF PendingKnows
  <2>1. pending'[c] = pending[c] /\ pending[c] \in Writing
    BY Appended DEF TypeOK
  <2> DEFINE w == pending[c]
             f == w.file
  <2>2. Knows(rows, w)
    BY <2>1 DEF InvVersions, PendingKnows
  <2>3. f \in Files
    BY <2>1
  <2> HIDE DEF w
  <2>4. /\ DOMAIN rows[f] \subseteq DOMAIN rows'[f]
        /\ \A i \in DOMAIN rows[f] : rows'[f][i] = rows[f][i]
    <3>1. rows[f] \in Seq(Row)
      BY <2>3, Appended
    <3>2. CASE rows'[f] = rows[f]
      BY <3>1, <3>2
    <3>3. CASE f = pending[a].file /\ rows'[f] = Append(rows[f], pending[a].row)
      <4>1. pending[a].row \in Row
        BY Appended DEF Writing
      <4> QED
        BY <3>1, <3>3, <4>1
    <3> QED
      BY <2>3, <3>2, <3>3, Appended
  <2>5. w.seen \subseteq DOMAIN rows[f]
    BY <2>2 DEF Knows
  <2>6. ASSUME NEW i \in DOMAIN rows[f], WinsAmong(rows, f, w.seen, i),
               ~rows[f][i].tombstone
        PROVE  /\ i \in DOMAIN rows'[f]
               /\ WinsAmong(rows', f, w.seen, i) /\ ~rows'[f][i].tombstone
    BY <2>4, <2>5, <2>6 DEF WinsAmong
  <2>7. Knows(rows', w)
    BY <2>2, <2>4, <2>5, <2>6 DEF Knows
  <2> QED
    BY <2>1, <2>7 DEF w
<1> QED
  BY <1>1, <1>2 DEF InvVersions

THEOREM VersionsInvariance == Spec => []InvVersions
<1>1. Init => InvVersions
  BY DEF Init, InvVersions, RowsNumbered, PendingKnows, Files
<1>2. TypeOK /\ InvVersions /\ [Next]_vars => InvVersions'
  <2> SUFFICES ASSUME TypeOK, InvVersions, [Next]_vars PROVE InvVersions'
    OBVIOUS
  <2>1. CASE Next
    BY <2>1, WriteVersions, UseVersions, PromoteVersions, RollbackVersions,
       DeleteVersions, AppendVersions DEF Next
  <2>2. CASE UNCHANGED vars
    BY <2>2 DEF vars, InvVersions, RowsNumbered, PendingKnows
  <2> QED
    BY <2>1, <2>2
<1> QED
  BY <1>1, <1>2, TypeCorrect, PTL DEF Spec

(* A write that adds no row reveals a deleted note only by losing the
   tombstone, when that is the last row and has no newline. *)
LEMMA SpoilingWrite ==
  ASSUME TypeOK, NEW a \in Agents, AppendRow(a) \/ TornAppend(a),
         NEW p \in Projects, rows'[p] = rows[p], Deleted(p), ~Deleted(p)'
  PROVE  TombstoneLost(p)
<1> USE DEF Files
<1>1. PICK t \in ReadRows(p) : IsLatest(p, t) /\ rows[p][t].tombstone
  BY DEF Deleted
<1>2. \/ p \in unended /\ lost'[p] = lost[p] \cup {Len(rows[p])}
      \/ lost'[p] = lost[p]
  <2> DEFINE f == pending[a].file
  <2>1. \/ lost' = lost
        \/ f \in unended /\ lost' = [lost EXCEPT ![f] = @ \cup {Len(rows[f])}]
    BY DEF AppendRow, TornAppend, Lose
  <2> HIDE DEF f
  <2>2. lost \in [Files -> SUBSET Nat]
    BY DEF TypeOK
  <2>3. CASE p = f
    BY <2>1, <2>2, <2>3
  <2>4. CASE p # f
    BY <2>1, <2>2, <2>4
  <2> QED
    BY <2>3, <2>4
<1>3. t \in lost'[p]
  <2> SUFFICES ASSUME t \notin lost'[p] PROVE FALSE
    OBVIOUS
  <2>1. t \in ReadRows(p)' /\ ReadRows(p)' \subseteq ReadRows(p)
    BY <1>1, <1>2 DEF ReadRows
  <2>2. Deleted(p)'
    BY <1>1, <2>1 DEF Deleted, IsLatest
  <2> QED
    BY <2>2
<1>4. t \notin lost[p]
  BY DEF ReadRows
<1>5. p \in unended /\ t = Len(rows[p]) /\ lost'[p] # lost[p]
  BY <1>2, <1>3, <1>4
<1> QED
  BY <1>1, <1>5 DEF TombstoneLost

(* A row that is added does so only as a rollback, or when its command had not
   read the tombstone or had read a row that is lost. *)
LEMMA RevivingWrite ==
  ASSUME TypeOK, InvVersions, NEW a \in Agents, AppendRow(a) \/ TornAppend(a),
         NEW p \in Projects, rows'[p] # rows[p], Deleted(p), ~Deleted(p)'
  PROVE  Revives(a, p)
<1> USE DEF Files
<1> DEFINE w == pending[a]
           n == Len(rows[p])
           R == ReadRows(p)
<1>1. PICK t \in R : IsLatest(p, t) /\ rows[p][t].tombstone
  BY DEF Deleted
<1>2. /\ w # None /\ w \in Writing /\ rows[p] \in Seq(Row) /\ w.row \in Row
      /\ w.file = p /\ rows'[p] = Append(rows[p], w.row)
  BY Appended DEF Writing
<1>3. lost'[p] = lost[p]
  BY <1>2 DEF AppendRow, TornAppend, Ended, Lose, TypeOK
<1>4. /\ n \in Nat /\ DOMAIN rows[p] = 1 .. n /\ DOMAIN rows'[p] = 1 .. n + 1
      /\ \A i \in 1 .. n : rows'[p][i] = rows[p][i]
      /\ rows'[p][n + 1] = w.row
  BY <1>2
<1>5. R = (1 .. n) \ lost[p] /\ ReadRows(p)' = (1 .. n + 1) \ lost[p]
  BY <1>3, <1>4 DEF ReadRows
<1>6. Knows(rows, w) /\ Numbered(rows[p][t])
  BY <1>1, <1>2, <1>4, <1>5 DEF InvVersions, PendingKnows, RowsNumbered
<1>7. /\ w.row.version \in Nat
      /\ \A i \in R : rows[p][i].version \in Nat
  BY <1>2, <1>4, <1>5, RowTyped DEF Row
<1>8. ASSUME NEW j \in R PROVE rows[p][j].version <= rows[p][t].version
  <2>1. \/ rows[p][j].version < rows[p][t].version
        \/ rows[p][j].version = rows[p][t].version
    BY <1>1 DEF IsLatest
  <2> QED
    BY <1>7, <2>1
<1> HIDE DEF w, n, R
<1>9. ASSUME NEW j \in ReadRows(p)'
      PROVE  \/ j \in R /\ j \in 1 .. n /\ rows'[p][j] = rows[p][j]
             \/ j = n + 1 /\ rows'[p][j] = w.row
  BY <1>4, <1>5
<1>10. w.row.version >= rows[p][t].version
  <2> SUFFICES ASSUME w.row.version < rows[p][t].version PROVE FALSE
    BY <1>1, <1>7
  <2>1. t \in ReadRows(p)' /\ rows'[p][t] = rows[p][t]
    BY <1>1, <1>4, <1>5
  <2>2. \A j \in ReadRows(p)' :
          \/ rows'[p][j].version < rows'[p][t].version
          \/ rows'[p][j].version = rows'[p][t].version /\ j <= t
    <3> SUFFICES ASSUME NEW j \in ReadRows(p)'
                 PROVE  \/ rows'[p][j].version < rows'[p][t].version
                        \/ rows'[p][j].version = rows'[p][t].version /\ j <= t
      OBVIOUS
    <3>1. CASE j \in R /\ rows'[p][j] = rows[p][j]
      BY <1>1, <2>1, <3>1 DEF IsLatest, R
    <3>2. CASE rows'[p][j] = w.row
      BY <2>1, <3>2
    <3> QED
      BY <1>9, <3>1, <3>2
  <2>3. Deleted(p)'
    BY <1>1, <2>1, <2>2 DEF Deleted, IsLatest
  <2> QED
    BY <2>3
<1>11. n + 1 \in ReadRows(p)'
  <2> SUFFICES ASSUME n + 1 \notin ReadRows(p)' PROVE FALSE
    OBVIOUS
  <2>1. ReadRows(p)' = R /\ \A j \in R : rows'[p][j] = rows[p][j]
    BY <1>4, <1>5
  <2>2. Deleted(p)'
    BY <1>1, <2>1 DEF Deleted, IsLatest, R
  <2> QED
    BY <2>2
<1>12. ~w.row.tombstone
  <2> SUFFICES ASSUME w.row.tombstone PROVE FALSE
    OBVIOUS
  <2>1. \A j \in ReadRows(p)' :
          \/ rows'[p][j].version < rows'[p][n + 1].version
          \/ rows'[p][j].version = rows'[p][n + 1].version /\ j <= n + 1
    <3> SUFFICES ASSUME NEW j \in ReadRows(p)'
                 PROVE  \/ rows'[p][j].version < rows'[p][n + 1].version
                        \/ rows'[p][j].version = rows'[p][n + 1].version /\ j <= n + 1
      OBVIOUS
    <3>1. CASE j \in R /\ j \in 1 .. n /\ rows'[p][j] = rows[p][j]
      <4>1. rows[p][j].version <= w.row.version
        <5>1. rows[p][j].version \in Nat /\ rows[p][t].version \in Nat
          BY <3>1, <1>1, <1>7
        <5>2. rows[p][j].version <= rows[p][t].version
          BY <3>1, <1>8
        <5> HIDE DEF Numbered
        <5> QED
          BY <5>1, <5>2, <1>7, <1>10
      <4> QED
        BY <3>1, <4>1, <1>4, <1>7
    <3>2. CASE j = n + 1
      BY <3>2, <1>4
    <3> QED
      BY <1>9, <3>1, <3>2
  <2>2. Deleted(p)'
    BY <2>1, <1>4, <1>11 DEF Deleted, IsLatest
  <2> QED
    BY <2>2
<1>13. ASSUME ~w.restores, w.seen \cap lost[p] = {}, t \in w.seen
       PROVE  FALSE
  <2>1. w.row.version # 1
    BY <1>1, <1>6, <1>7, <1>10 DEF Numbered
  <2>2. PICK i \in DOMAIN rows[p] :
          WinsAmong(rows, p, w.seen, i) /\ ~rows[p][i].tombstone
    BY <1>2, <1>6, <1>12, <1>13, <2>1 DEF Knows
  <2>3. i \in R
    BY <1>4, <1>5, <1>13, <2>2 DEF WinsAmong
  <2>4. /\ \/ rows[p][t].version < rows[p][i].version
           \/ rows[p][t].version = rows[p][i].version /\ t <= i
        /\ \/ rows[p][i].version < rows[p][t].version
           \/ rows[p][i].version = rows[p][t].version /\ i <= t
    BY <1>1, <1>13, <2>2, <2>3 DEF WinsAmong, IsLatest, R
  <2>5. t \in Nat /\ i \in Nat
    BY <1>1, <1>4, <1>5, <2>3
  <2>6. i = t
    BY <1>1, <1>7, <2>3, <2>4, <2>5
  <2> QED
    BY <1>1, <2>2, <2>6
<1> QED
  BY <1>1, <1>2, <1>13 DEF Revives, w, R

(* A note that was deleted is seen again only by a rollback, by a command that
   had not read the tombstone or had read a row lost since, or when the
   tombstone is lost to a write cut short. *)
THEOREM StaysDeleted == Spec => DeletedStaysDeleted
<1> DEFINE Kept == \A p \in Projects : Deleted(p) /\ ~Deleted(p)' =>
                    TombstoneLost(p) \/ \E a \in Agents : Revives(a, p)
<1>1. TypeOK /\ InvVersions /\ [Next]_vars => [Kept]_vars
  <2> SUFFICES ASSUME TypeOK, InvVersions, Next PROVE Kept
    OBVIOUS
  <2>1. (\E a \in Agents : AppendRow(a) \/ TornAppend(a)) \/ (rows' = rows /\ lost' = lost)
    <3>1. PICK a \in Agents :
            \/ \E p \in Projects :
                 \/ \E body \in Bodies, scored \in BOOLEAN : WriteSkill(a, p, body, scored)
                 \/ \E flagged \in BOOLEAN : RecordSkillUse(a, p, flagged)
                 \/ PromoteToGlobal(a, p)
            \/ \E f \in Files : RollbackSkill(a, f) \/ DeleteSkill(a, f)
            \/ AppendRow(a)
            \/ TornAppend(a)
      BY DEF Next
    <3>2. ASSUME NEW p \in Projects, NEW body \in Bodies, NEW scored \in BOOLEAN,
                 WriteSkill(a, p, body, scored)
          PROVE  rows' = rows /\ lost' = lost
      BY <3>2 DEF WriteSkill, Prepare
    <3>3. ASSUME NEW p \in Projects, NEW flagged \in BOOLEAN, RecordSkillUse(a, p, flagged)
          PROVE  rows' = rows /\ lost' = lost
      BY <3>3 DEF RecordSkillUse, Prepare
    <3>4. ASSUME NEW p \in Projects, PromoteToGlobal(a, p) PROVE rows' = rows /\ lost' = lost
      BY <3>4 DEF PromoteToGlobal, Prepare
    <3>5. ASSUME NEW f \in Files, RollbackSkill(a, f) \/ DeleteSkill(a, f)
          PROVE  rows' = rows /\ lost' = lost
      BY <3>5 DEF RollbackSkill, DeleteSkill, Prepare
    <3> QED
      BY <3>1, <3>2, <3>3, <3>4, <3>5
  <2>2. CASE \E a \in Agents : AppendRow(a) \/ TornAppend(a)
    BY <2>2, RevivingWrite, SpoilingWrite
  <2>3. CASE rows' = rows /\ lost' = lost
    BY <2>3 DEF Deleted, IsLatest, ReadRows
  <2> QED
    BY <2>1, <2>2, <2>3
<1> QED
  BY <1>1, TypeCorrect, VersionsInvariance, PTL DEF Spec, DeletedStaysDeleted
=============================================================================
