--------------------------- MODULE PlanningProofs ---------------------------
(***************************************************************************)
(* Proofs about Planning, for any terminals, plans, roles and number of    *)
(* runs: the types, that the rows mirror the plan that was wanted, and on  *)
(* which entries the planner's validation and the pod's agree.             *)
(***************************************************************************)
EXTENDS Planning, TLAPS

\* The rows of run r at position p.
RowsAt(r, p) == {j \in DOMAIN rows : rows[j].run = r /\ rows[j].position = p}

\* An entry t stands for the entry w at position i of what was wanted.
StandsFor(t, w, i) ==
    /\ t.role = w.role /\ t.goal = w.goal /\ t.types = w.types
    /\ t.names = w.names
    /\ \A d \in 0 .. i - 2 : d \in t.positions <=> d \in w.positions

Mirrors(tasks, plan) ==
    /\ Len(tasks) = Len(plan)
    /\ \A i \in 1 .. Len(tasks) : StandsFor(tasks[i], plan[i], i)

\* A row, present or to come, is the entry wanted at its position.
IsWanted(row) ==
    /\ row.position \in 1 .. Len(begun[row.run])
    /\ LET t == begun[row.run][row.position]
       IN /\ row.role = t.role /\ row.goal = t.goal /\ row.types = t.types
          /\ row.depends_on.names = t.names
          /\ \A j : j \in row.depends_on.rows <=>
                \E p \in 1 .. row.position - 1 :
                    p - 1 \in t.positions /\ j \in RowsAt(row.run, p)

\* The entries before it have one row each, with an id below n.
Follows(row, n) ==
    \A p \in 1 .. row.position - 1 : \E j \in 1 .. n - 1 : RowsAt(row.run, p) = {j}

\* A command knows the row of each entry before its place, and no row is there
\* for the entries from its place on.
Knows(c) ==
    /\ Mirrors(cli[c].tasks, begun[cli[c].run])
    /\ \A p \in 1 .. cli[c].at - 1 : RowsAt(cli[c].run, p) = {cli[c].real_ids[p]}
    /\ \A p \in Nat : p >= cli[c].at => RowsAt(cli[c].run, p) = {}

\* Nobody else adds rows to its run.
Alone(c) ==
    /\ \A d \in Clis : d # c => cli[d].run # cli[c].run
    /\ \A row \in late : row.run # cli[c].run

\* A late row is the only one of its run that is to come.
IsLate(row) ==
    /\ IsWanted(row) /\ Follows(row, Len(rows) + 1)
    /\ RowsAt(row.run, row.position) = {}
    /\ \A other \in late : other.run = row.run => other = row

RowsOK ==
    \A k \in 1 .. Len(rows) :
        /\ IsWanted(rows[k]) /\ Follows(rows[k], k)
        /\ RowsAt(rows[k].run, rows[k].position) = {k}

PInv ==
    /\ TypeOK
    /\ Mirrors(file, wanted)
    /\ \A c \in Clis : cli[c].run # 0 => Knows(c) /\ Alone(c)
    /\ \A row \in late : IsLate(row)
    /\ RowsOK

-----------------------------------------------------------------------------
(* Types. *)

LEMMA EntryTypes ==
    ASSUME NEW t \in Entries
    PROVE  /\ t.role \in Roles /\ t.goal \in Goals /\ t.types \in TypeLists
           /\ t.positions \subseteq Int /\ t.names \subseteq Names
BY DEF Entries

LEMMA ElementInRange ==
    ASSUME NEW S, NEW s \in Seq(S), NEW p \in 1 .. Len(s)
    PROVE  s[p] \in S
OBVIOUS

LEMMA StripType ==
    ASSUME NEW t \in Entries, NEW i \in Nat \ {0}
    PROVE  /\ StripToTaskspec(t, i) \in Entries
           /\ StandsFor(StripToTaskspec(t, i), t, i)
<1>1. StripToTaskspec(t, i) =
        [role |-> t.role, goal |-> t.goal, types |-> t.types,
         positions |-> {d \in t.positions : 0 <= d /\ d < i - 1},
         names |-> t.names]
  <2>1. ASSUME NEW S
        PROVE  [t EXCEPT !.positions = S] =
                  [role |-> t.role, goal |-> t.goal, types |-> t.types,
                   positions |-> S, names |-> t.names]
    BY DEF Entries
  <2> QED BY <2>1 DEF StripToTaskspec
<1>2. {d \in t.positions : 0 <= d /\ d < i - 1} \in SUBSET Int
  BY EntryTypes
<1>3. StripToTaskspec(t, i) \in Entries
  BY <1>1, <1>2, EntryTypes DEF Entries
<1>4. \A d \in 0 .. i - 2 :
        d \in {e \in t.positions : 0 <= e /\ e < i - 1} <=> d \in t.positions
  OBVIOUS
<1> QED BY <1>1, <1>3, <1>4 DEF StandsFor

LEMMA RowTypeGrows ==
    ASSUME TypeOK, Len(begun) \in Nat, Len(rows) \in Nat,
           Len(begun') \in Nat, Len(rows') \in Nat,
           Len(begun) <= Len(begun'), Len(rows) <= Len(rows')
    PROVE  RowType \subseteq RowType'
<1>1. 1 .. Len(begun) \subseteq 1 .. Len(begun')
  OBVIOUS
<1>2. SUBSET (1 .. Len(rows)) \subseteq SUBSET (1 .. Len(rows'))
  OBVIOUS
<1>3. [rows: SUBSET (1 .. Len(rows)), names: SUBSET Names]
        \subseteq [rows: SUBSET (1 .. Len(rows')), names: SUBSET Names]
  BY <1>2
<1> QED BY <1>1, <1>3 DEF RowType

LEMMA MirrorsItself ==
    ASSUME NEW plan \in Seq(Entries) PROVE Mirrors(plan, plan)
BY DEF Mirrors, StandsFor

\* What a command posts.
LEMMA RowIsWanted ==
    ASSUME PInv, NEW c \in Clis, cli[c].run # 0
    PROVE  /\ Row(c) \in RowType
           /\ Row(c).run = cli[c].run /\ Row(c).position = cli[c].at
           /\ IsWanted(Row(c)) /\ Follows(Row(c), Len(rows) + 1)
           /\ RowsAt(Row(c).run, Row(c).position) = {}
<1> DEFINE r    == cli[c].run
           i    == cli[c].at
           ids  == cli[c].real_ids
           t    == cli[c].tasks[i]
           plan == begun[r]
           deps == {ids[d + 1] : d \in {p \in t.positions : 0 <= p /\ p < i - 1}}
<1>1. /\ r \in 1 .. Len(begun) /\ cli[c].tasks \in Seq(Entries)
      /\ i \in Nat \ {0} /\ i <= Len(cli[c].tasks)
      /\ ids \in Seq(1 .. Len(rows)) /\ Len(ids) = i - 1
      /\ begun \in Seq(Seq(Entries)) /\ rows \in Seq(RowType)
  BY DEF PInv, TypeOK
<1>2. /\ Mirrors(cli[c].tasks, plan)
      /\ \A p \in 1 .. i - 1 : RowsAt(r, p) = {ids[p]}
      /\ RowsAt(r, i) = {}
  <2>1. Knows(c)
    BY DEF PInv
  <2>2. i \in Nat /\ i >= i
    BY <1>1
  <2> QED BY <2>1, <2>2 DEF Knows
<1>3. t \in Entries /\ plan \in Seq(Entries)
  BY <1>1
<1>4. /\ Len(cli[c].tasks) = Len(plan) /\ i \in 1 .. Len(plan)
      /\ StandsFor(t, plan[i], i)
  <2>1. i \in 1 .. Len(cli[c].tasks)
    BY <1>1
  <2> QED BY <1>2, <2>1 DEF Mirrors
<1>5. \A p \in 1 .. i - 1 : ids[p] \in 1 .. Len(rows)
  <2>1. i - 1 = Len(ids)
    BY <1>1
  <2> HIDE DEF ids, i
  <2> QED BY <1>1, <2>1, ElementInRange
<1>6. Row(c) = [run |-> r, position |-> i, role |-> t.role, goal |-> t.goal,
                types |-> t.types, depends_on |-> [rows |-> deps, names |-> t.names]]
  BY DEF Row, Resolve
<1>w. r = cli[c].run /\ i = cli[c].at
  OBVIOUS
<1> HIDE DEF r, i, ids, t, plan
<1>7. \A d \in t.positions : 0 <= d /\ d < i - 1 => d + 1 \in 1 .. i - 1
  BY <1>1, <1>3, EntryTypes
<1>8. deps \subseteq 1 .. Len(rows)
  BY <1>5, <1>7
<1>9. Row(c) \in RowType
  <2>1. [rows |-> deps, names |-> t.names]
          \in [rows: SUBSET (1 .. Len(rows)), names: SUBSET Names]
    BY <1>3, <1>8, EntryTypes
  <2> HIDE DEF deps
  <2> QED BY <1>1, <1>3, <1>6, <2>1, EntryTypes DEF RowType
<1>10. \A x : x \in deps <=>
          \E q \in 1 .. i - 1 : q - 1 \in plan[i].positions /\ x \in RowsAt(r, q)
  <2>1. ASSUME NEW d \in t.positions, 0 <= d, d < i - 1
        PROVE  /\ d + 1 \in 1 .. i - 1 /\ (d + 1) - 1 \in plan[i].positions
               /\ ids[d + 1] \in RowsAt(r, d + 1)
    <3>1. d \in Int /\ d \in 0 .. i - 2 /\ (d + 1) - 1 = d
      BY <1>1, <1>3, <2>1, EntryTypes
    <3>2. d \in plan[i].positions
      BY <1>4, <3>1 DEF StandsFor
    <3> QED BY <1>2, <1>7, <2>1, <3>1, <3>2
  <2>2. ASSUME NEW q \in 1 .. i - 1, q - 1 \in plan[i].positions,
               NEW x \in RowsAt(r, q)
        PROVE  x \in deps
    <3>1. q - 1 \in 0 .. i - 2 /\ (q - 1) + 1 = q /\ 0 <= q - 1 /\ q - 1 < i - 1
      BY <1>1
    <3>2. q - 1 \in t.positions
      BY <1>4, <2>2, <3>1 DEF StandsFor
    <3>3. x = ids[(q - 1) + 1]
      BY <1>2, <2>2, <3>1
    <3> QED BY <3>1, <3>2, <3>3
  <2>3. \A x \in deps :
          \E q \in 1 .. i - 1 : q - 1 \in plan[i].positions /\ x \in RowsAt(r, q)
    BY <2>1
  <2> HIDE DEF deps
  <2> QED BY <2>2, <2>3
<1>11. IsWanted(Row(c))
  <2> HIDE DEF deps
  <2>1. /\ t.role = plan[i].role /\ t.goal = plan[i].goal
        /\ t.types = plan[i].types /\ t.names = plan[i].names
    BY <1>4 DEF StandsFor
  <2>2. begun[Row(c).run] = plan
    BY <1>6 DEF plan
  <2>3. /\ Row(c).position = i /\ Row(c).run = r
        /\ Row(c).role = t.role /\ Row(c).goal = t.goal /\ Row(c).types = t.types
        /\ Row(c).depends_on.names = t.names /\ Row(c).depends_on.rows = deps
    BY <1>6
  <2> QED BY <1>4, <1>10, <2>1, <2>2, <2>3 DEF IsWanted
<1>12. Follows(Row(c), Len(rows) + 1)
  <2>0. 1 .. (Len(rows) + 1) - 1 = 1 .. Len(rows)
    <3>1. Len(rows) \in Nat
      BY <1>1
    <3> QED BY <3>1
  <2>1. \A p \in 1 .. i - 1 : \E j \in 1 .. (Len(rows) + 1) - 1 : RowsAt(r, p) = {j}
    BY <1>2, <1>5, <2>0
  <2> QED BY <1>6, <2>1 DEF Follows
<1>13. Row(c).run = r /\ Row(c).position = i
  BY <1>6
<1> QED BY <1>w, <1>2, <1>9, <1>11, <1>12, <1>13

-----------------------------------------------------------------------------
(* A row is added. *)

LEMMA SameRow ==
    ASSUME NEW k, NEW x, rows'[k] = x, IsWanted(x)', Follows(x, k)',
           RowsAt(x.run, x.position)' = {k}
    PROVE  (/\ IsWanted(rows[k]) /\ Follows(rows[k], k)
            /\ RowsAt(rows[k].run, rows[k].position) = {k})'
<1>1. IsWanted(rows[k])'
  <2>1. (/\ rows[k].position \in 1 .. Len(begun[rows[k].run])
         /\ LET t == begun[rows[k].run][rows[k].position]
            IN /\ rows[k].role = t.role /\ rows[k].goal = t.goal
               /\ rows[k].types = t.types
               /\ rows[k].depends_on.names = t.names)'
    BY DEF IsWanted
  <2>2. ASSUME NEW j
        PROVE  (j \in rows[k].depends_on.rows <=>
                  \E p \in 1 .. rows[k].position - 1 :
                     /\ p - 1 \in begun[rows[k].run][rows[k].position].positions
                     /\ j \in RowsAt(rows[k].run, p))'
    <3>1. j \in x.depends_on.rows <=>
            (\E p \in 1 .. x.position - 1 :
                /\ p - 1 \in begun'[x.run][x.position].positions
                /\ j \in RowsAt(x.run, p)')
      BY DEF IsWanted
    <3>2. \A p : j \in RowsAt(x.run, p)' <=> (j \in RowsAt(rows[k].run, p))'
      BY DEF RowsAt
    <3> QED BY <3>1, <3>2
  <2> QED BY <2>1, <2>2 DEF IsWanted, RowsAt
<1>2. Follows(rows[k], k)'
  BY DEF Follows, RowsAt
<1>3. (RowsAt(rows[k].run, rows[k].position) = {k})'
  BY DEF RowsAt
<1> QED BY <1>1, <1>2, <1>3

LEMMA RowAdded ==
    ASSUME PInv, NEW row \in RowType, rows' = Append(rows, row),
           UNCHANGED begun, IsWanted(row), Follows(row, Len(rows) + 1),
           RowsAt(row.run, row.position) = {}
    PROVE  /\ Len(rows') = Len(rows) + 1 /\ rows' \in Seq(RowType')
           /\ RowType \subseteq RowType'
           /\ RowsOK'
           /\ RowsAt(row.run, row.position)' = {Len(rows) + 1}
           /\ \A r, p : ~(r = row.run /\ p = row.position)
                           => RowsAt(r, p)' = RowsAt(r, p)
           /\ \A other \in RowType :
                 IsWanted(other) /\ Follows(other, Len(rows) + 1)
                 => IsWanted(other)' /\ Follows(other, Len(rows) + 1)'
<1>0. PICK n : n = Len(rows)
  OBVIOUS
<1>1. /\ rows \in Seq(RowType) /\ n \in Nat /\ begun \in Seq(Seq(Entries))
      /\ Len(begun) \in Nat
  BY <1>0 DEF PInv, TypeOK
<1>2. /\ Len(rows') = n + 1 /\ rows'[n + 1] = row
      /\ \A k \in 1 .. n : rows'[k] = rows[k]
      /\ DOMAIN rows' = 1 .. n + 1 /\ DOMAIN rows = 1 .. n
  BY <1>0, <1>1
<1>3. RowType \subseteq RowType'
  BY <1>0, <1>1, <1>2, RowTypeGrows DEF PInv
<1>4. rows' \in Seq(RowType')
  <2>1. Append(rows, row) \in Seq(RowType)
    BY <1>1
  <2>2. \A k \in 1 .. Len(rows') : rows'[k] \in RowType
    BY <2>1
  <2>3. rows' \in Seq(RowType)
    BY <2>1
  <2> QED BY <1>3, <2>3
<1>5. RowsAt(row.run, row.position)' = {n + 1}
  <2>1. \A j \in 1 .. n : ~(rows[j].run = row.run /\ rows[j].position = row.position)
    BY <1>2 DEF RowsAt
  <2>2. \A j \in 1 .. n + 1 : j # n + 1 => j \in 1 .. n
    BY <1>1
  <2>3. n + 1 \in 1 .. n + 1
    BY <1>1
  <2> QED BY <1>2, <2>1, <2>2, <2>3 DEF RowsAt
<1>6. ASSUME NEW r, NEW p, ~(r = row.run /\ p = row.position)
      PROVE  RowsAt(r, p)' = RowsAt(r, p)
  <2>1. \A j \in 1 .. n + 1 : j # n + 1 => j \in 1 .. n
    BY <1>1
  <2>2. \A j \in 1 .. n : j \in 1 .. n + 1
    BY <1>1
  <2> QED BY <1>2, <1>6, <2>1, <2>2 DEF RowsAt
<1>7. ASSUME NEW other \in RowType, NEW m, 1 .. m - 1 \subseteq 1 .. n,
             Follows(other, m)
      PROVE  /\ \A p \in 1 .. other.position - 1 :
                   RowsAt(other.run, p)' = RowsAt(other.run, p)
             /\ Follows(other, m)'
  <2>1. ASSUME NEW p \in 1 .. other.position - 1
        PROVE  RowsAt(other.run, p)' = RowsAt(other.run, p)
    <3>1. RowsAt(other.run, p) # {}
      BY <1>7 DEF Follows
    <3>2. ~(other.run = row.run /\ p = row.position)
      BY <3>1
    <3> QED BY <1>6, <3>2
  <2> QED BY <1>7, <2>1 DEF Follows
<1>8. ASSUME NEW other, IsWanted(other),
             \A p \in 1 .. other.position - 1 :
                RowsAt(other.run, p)' = RowsAt(other.run, p)
      PROVE  IsWanted(other)'
  BY <1>8 DEF IsWanted
<1>9. RowsOK'
  <2>1. ASSUME NEW k \in 1 .. n, NEW x \in RowType, x = rows[k]
        PROVE  /\ IsWanted(x)' /\ Follows(x, k)' /\ RowsAt(x.run, x.position)' = {k}
    <3>1. IsWanted(x) /\ Follows(x, k) /\ RowsAt(x.run, x.position) = {k}
      BY <1>0, <2>1 DEF PInv, RowsOK
    <3>2. 1 .. k - 1 \subseteq 1 .. n
      BY <1>1
    <3>3. RowsAt(x.run, x.position)' = {k}
      BY <1>6, <3>1
    <3> QED BY <1>7, <1>8, <3>1, <3>2, <3>3
  <2>2. IsWanted(row)' /\ Follows(row, n + 1)' /\ RowsAt(row.run, row.position)' = {n + 1}
    <3>1. 1 .. (n + 1) - 1 \subseteq 1 .. n
      BY <1>1
    <3>2. Follows(row, n + 1)
      BY <1>0
    <3> QED BY <1>5, <1>7, <1>8, <3>1, <3>2
  <2>3. ASSUME NEW k \in 1 .. n + 1, NEW x, x = rows'[k]
        PROVE  IsWanted(x)' /\ Follows(x, k)' /\ RowsAt(x.run, x.position)' = {k}
    <3>1. CASE k = n + 1
      BY <1>2, <2>2, <2>3, <3>1
    <3>2. CASE k # n + 1
      <4>1. k \in 1 .. n
        BY <1>1, <3>2
      <4>2. x \in RowType /\ x = rows[k]
        BY <1>0, <1>1, <1>2, <2>3, <4>1
      <4> QED BY <2>1, <4>1, <4>2
    <3> QED BY <3>1, <3>2
  <2>4. ASSUME NEW k \in 1 .. n + 1
        PROVE  (/\ IsWanted(rows[k]) /\ Follows(rows[k], k)
                /\ RowsAt(rows[k].run, rows[k].position) = {k})'
    <3>1. PICK x : x = rows'[k]
      OBVIOUS
    <3> QED BY <2>3, <3>1, SameRow
  <2> QED BY <1>2, <2>4 DEF RowsOK
<1>10. ASSUME NEW other \in RowType, IsWanted(other), Follows(other, n + 1)
       PROVE  IsWanted(other)' /\ Follows(other, Len(rows) + 1)'
  <2>1. 1 .. (n + 1) - 1 = 1 .. n /\ 1 .. (n + 2) - 1 = 1 .. n + 1
    BY <1>1
  <2>2. /\ Follows(other, n + 1)'
        /\ \A p \in 1 .. other.position - 1 :
              RowsAt(other.run, p)' = RowsAt(other.run, p)
    BY <1>7, <1>10, <2>1
  <2>3. IsWanted(other)'
    BY <1>8, <1>10, <2>2
  <2>4. \A j \in 1 .. n : j \in 1 .. n + 1
    BY <1>1
  <2>5. Follows(other, n + 2)'
    BY <2>1, <2>2, <2>4 DEF Follows
  <2>6. Len(rows') + 1 = n + 2
    BY <1>1, <1>2
  <2>7. Follows(other, Len(rows) + 1)'
    BY <2>5, <2>6 DEF Follows
  <2> QED BY <2>3, <2>7
<1> QED BY <1>2, <1>3, <1>4, <1>5, <1>6, <1>9, <1>10, <1>0

-----------------------------------------------------------------------------
(* The invariant. *)

LEMMA PlanningInit == ASSUME Init PROVE PInv
<1>1. TypeOK
  <2>1. /\ wanted \in Seq(Entries) /\ file \in Seq(Entries)
        /\ begun \in Seq(Seq(Entries)) /\ Len(begun) = 0
        /\ rows \in Seq(RowType) /\ late \subseteq RowType
    BY DEF Init
  <2>2. Idle \in [run: 0 .. Len(begun), tasks: Seq(Entries), at: Nat \ {0},
                  real_ids: Seq(1 .. Len(rows))]
    <3>1. 0 \in 0 .. Len(begun) /\ 1 \in Nat \ {0}
      BY <2>1
    <3> QED BY <3>1 DEF Idle
  <2>3. \A c \in Clis : cli[c] = Idle
    BY DEF Init
  <2>4. \A c \in Clis : cli[c].run = 0
    BY <2>3 DEF Idle
  <2>5. cli \in [Clis -> [run: 0 .. Len(begun), tasks: Seq(Entries),
                          at: Nat \ {0}, real_ids: Seq(1 .. Len(rows))]]
    BY <2>2 DEF Init
  <2> QED BY <2>1, <2>4, <2>5 DEF TypeOK
<1>2. \A c \in Clis : cli[c].run = 0
  BY DEF Init, Idle
<1>3. Mirrors(file, wanted) /\ late = {} /\ RowsOK
  BY DEF Init, Mirrors, RowsOK
<1> QED BY <1>1, <1>2, <1>3 DEF PInv

\* The rows stay: what they and the late ones are said to be stays too.
LEMMA RowsStay ==
    ASSUME PInv, UNCHANGED rows,
           \A r \in 1 .. Len(begun) : begun'[r] = begun[r]
    PROVE  /\ RowsOK'
           /\ \A r, p : RowsAt(r, p)' = RowsAt(r, p)
           /\ \A row \in RowType :
                 /\ IsWanted(row) => IsWanted(row)'
                 /\ Follows(row, Len(rows) + 1) => Follows(row, Len(rows) + 1)'
<1>1. \A r, p : RowsAt(r, p)' = RowsAt(r, p)
  BY DEF RowsAt
<1>2. ASSUME NEW row \in RowType, IsWanted(row) PROVE IsWanted(row)'
  <2>1. begun'[row.run] = begun[row.run]
    BY DEF RowType
  <2> QED BY <1>1, <1>2, <2>1 DEF IsWanted
<1>3. \A row, n : Follows(row, n) => Follows(row, n)'
  BY <1>1 DEF Follows
<1>4. RowsOK'
  <2>1. ASSUME NEW k \in 1 .. Len(rows)
        PROVE  (/\ IsWanted(rows[k]) /\ Follows(rows[k], k)
                /\ RowsAt(rows[k].run, rows[k].position) = {k})'
    <3>1. PICK x : x = rows[k]
      OBVIOUS
    <3>2. rows'[k] = x
      BY <3>1
    <3>3. /\ x \in RowType /\ IsWanted(x) /\ Follows(x, k)
          /\ RowsAt(x.run, x.position) = {k}
      <4>1. rows \in Seq(RowType) /\ RowsOK
        BY DEF PInv, TypeOK
      <4>2. x \in RowType
        BY <3>1, <4>1
      <4> QED BY <3>1, <4>1, <4>2 DEF RowsOK
    <3>4. IsWanted(x)' /\ Follows(x, k)' /\ RowsAt(x.run, x.position)' = {k}
      BY <1>1, <1>2, <1>3, <3>3
    <3> QED BY <3>2, <3>4, SameRow
  <2> QED BY <2>1 DEF RowsOK
<1> QED BY <1>1, <1>2, <1>3, <1>4

CliType(n, m) == [run: 0 .. n, tasks: Seq(Entries), at: Nat \ {0}, real_ids: Seq(1 .. m)]

\* What TypeOK says of one command.
InPlace(c) ==
    cli[c].run # 0 =>
        cli[c].at <= Len(cli[c].tasks) /\ Len(cli[c].real_ids) = cli[c].at - 1

LEMMA CliTypeGrows ==
    ASSUME NEW n \in Nat, NEW m \in Nat, NEW n1 \in Nat, NEW m1 \in Nat,
           n <= n1, m <= m1
    PROVE  CliType(n, m) \subseteq CliType(n1, m1)
<1>1. 0 .. n \subseteq 0 .. n1 /\ 1 .. m \subseteq 1 .. m1
  OBVIOUS
<1>2. Seq(1 .. m) \subseteq Seq(1 .. m1)
  BY <1>1
<1> QED BY <1>1, <1>2 DEF CliType

LEMMA IdleType ==
    ASSUME NEW n \in Nat, NEW m \in Nat
    PROVE  Idle \in CliType(n, m) /\ Idle.run = 0
<1>1. 0 \in 0 .. n /\ 1 \in Nat \ {0} /\ <<>> \in Seq(Entries) /\ <<>> \in Seq(1 .. m)
  OBVIOUS
<1> QED BY <1>1 DEF Idle, CliType

\* The types, one variable at a time.
LEMMA VariableTypes ==
    ASSUME PInv
    PROVE  /\ wanted \in Seq(Entries) /\ file \in Seq(Entries)
           /\ begun \in Seq(Seq(Entries)) /\ Len(begun) \in Nat
           /\ rows \in Seq(RowType) /\ Len(rows) \in Nat
           /\ late \subseteq RowType
           /\ cli \in [Clis -> CliType(Len(begun), Len(rows))]
           /\ \A c \in Clis : InPlace(c)
<1>1. TypeOK
  BY DEF PInv
<1>2. /\ wanted \in Seq(Entries) /\ file \in Seq(Entries)
      /\ begun \in Seq(Seq(Entries)) /\ rows \in Seq(RowType)
      /\ late \subseteq RowType
  BY <1>1 DEF TypeOK
<1>3. Len(begun) \in Nat /\ Len(rows) \in Nat
  BY <1>2
<1>4. cli \in [Clis -> CliType(Len(begun), Len(rows))]
  BY <1>1 DEF TypeOK, CliType
<1>5. \A c \in Clis : InPlace(c)
  BY <1>1 DEF TypeOK, InPlace
<1> QED BY <1>2, <1>3, <1>4, <1>5

LEMMA KnowsStill ==
    ASSUME NEW c \in Clis, Knows(c), cli'[c] = cli[c],
           begun'[cli[c].run] = begun[cli[c].run],
           \A p : RowsAt(cli[c].run, p)' = RowsAt(cli[c].run, p)
    PROVE  Knows(c)'
<1>1. PICK r : r = cli[c].run
  OBVIOUS
<1>2. \A p : RowsAt(r, p)' = RowsAt(r, p)
  BY <1>1 DEF RowsAt
<1> QED BY <1>1, <1>2 DEF Knows

LEMMA PlanWritten ==
    ASSUME PInv, NEW plan \in Seq(Entries),
           wanted' = plan, file' \in Seq(Entries), Mirrors(file', plan),
           UNCHANGED <<begun, cli, rows, late>>
    PROVE  PInv'
<1>1. TypeOK'
  BY DEF PInv, TypeOK, RowType
<1>2. Mirrors(file, wanted)'
  OBVIOUS
<1>3. ASSUME NEW c \in Clis, cli'[c].run # 0 PROVE Knows(c)' /\ Alone(c)'
  BY <1>3 DEF PInv, Knows, Alone, RowsAt
<1>4. RowsOK' /\ \A row \in late' : IsLate(row)'
  <2>1. /\ RowsOK'
        /\ \A r, p : RowsAt(r, p)' = RowsAt(r, p)
        /\ \A row \in RowType :
              /\ IsWanted(row) => IsWanted(row)'
              /\ Follows(row, Len(rows) + 1) => Follows(row, Len(rows) + 1)'
    BY RowsStay
  <2>2. ASSUME NEW row \in late PROVE IsLate(row)'
    <3>1. row \in RowType /\ IsLate(row)
      BY VariableTypes DEF PInv
    <3> QED BY <2>1, <3>1 DEF IsLate
  <2> QED BY <2>1, <2>2
<1> QED BY <1>1, <1>2, <1>3, <1>4 DEF PInv

LEMMA InvokeWrites ==
    ASSUME NEW plan \in Plans, SubagentInvoke(plan)
    PROVE  plan \in Seq(Entries) /\ file' \in Seq(Entries) /\ Mirrors(file', plan)
<1>1. plan \in Seq(Entries) /\ Len(plan) \in Nat /\ DOMAIN plan = 1 .. Len(plan)
  BY PlanningAssumption
<1>2. file' = [i \in 1 .. Len(plan) |-> StripToTaskspec(plan[i], i)]
  BY <1>1 DEF SubagentInvoke
<1>3. \A i \in 1 .. Len(plan) :
        /\ StripToTaskspec(plan[i], i) \in Entries
        /\ StandsFor(StripToTaskspec(plan[i], i), plan[i], i)
  BY <1>1, StripType
<1>4. file' \in Seq(Entries) /\ Len(file') = Len(plan)
  BY <1>1, <1>2, <1>3
<1> QED BY <1>1, <1>2, <1>3, <1>4 DEF Mirrors

LEMMA PlanCreated ==
    ASSUME PInv, NEW c \in Clis, PlanCreate(c)
    PROVE  PInv'
<1>1. PICK n, m, new :
        /\ n = Len(begun) /\ m = Len(rows)
        /\ new = [run |-> n + 1, tasks |-> file, at |-> 1, real_ids |-> <<>>]
  OBVIOUS
<1>2. /\ n \in Nat /\ m \in Nat /\ cli \in [Clis -> CliType(n, m)]
      /\ file # <<>> /\ file \in Seq(Entries) /\ wanted \in Seq(Entries)
      /\ rows \in Seq(RowType) /\ late \subseteq RowType
      /\ \A d \in Clis : InPlace(d)
  BY <1>1, VariableTypes DEF PlanCreate
<1>3. /\ begun' = Append(begun, wanted) /\ cli' = [cli EXCEPT ![c] = new]
      /\ UNCHANGED <<wanted, file, rows, late>>
  BY <1>1 DEF PlanCreate
<1>4. /\ begun' \in Seq(Seq(Entries)) /\ Len(begun') = n + 1
      /\ begun'[n + 1] = wanted
      /\ \A r \in 1 .. n : begun'[r] = begun[r]
  BY <1>1, <1>2, <1>3, VariableTypes
<1>5. /\ RowsOK'
      /\ \A r, p : RowsAt(r, p)' = RowsAt(r, p)
      /\ \A row \in RowType :
            /\ IsWanted(row) => IsWanted(row)'
            /\ Follows(row, Len(rows) + 1) => Follows(row, Len(rows) + 1)'
  BY <1>1, <1>3, <1>4, RowsStay
<1>6. RowType \subseteq RowType'
  BY <1>1, <1>2, <1>3, <1>4, RowTypeGrows DEF PInv
<1>7. new \in CliType(n + 1, m) /\ new.run = n + 1
  <2>1. n + 1 \in 0 .. n + 1 /\ 1 \in Nat \ {0} /\ <<>> \in Seq(1 .. m)
    BY <1>2
  <2> QED BY <1>1, <1>2, <2>1 DEF CliType
<1>8. /\ \A d \in Clis : d # c => cli'[d] = cli[d]
      /\ cli'[c] = new
  BY <1>2, <1>3
<1>9. TypeOK'
  <2>1. cli' \in [Clis -> CliType(n + 1, m)]
    <3>1. CliType(n, m) \subseteq CliType(n + 1, m)
      BY <1>2, CliTypeGrows
    <3> QED BY <1>2, <1>3, <1>7, <3>1
  <2>2. \A d \in Clis : InPlace(d)'
    <3>1. InPlace(c)'
      BY <1>1, <1>2, <1>8 DEF InPlace
    <3> QED BY <1>2, <1>8, <3>1 DEF InPlace
  <2>3. rows' \in Seq(RowType') /\ late' \subseteq RowType'
    BY <1>2, <1>3, <1>6
  <2> QED BY <1>1, <1>2, <1>3, <1>4, <2>1, <2>2, <2>3 DEF TypeOK, CliType, InPlace
<1>10. ASSUME NEW r \in 0 .. n PROVE r # n + 1
  BY <1>2
<1>11. \A d \in Clis : cli[d].run \in 0 .. n
  BY <1>2 DEF CliType
<1>12. \A row \in RowType : row.run \in 1 .. n
  BY <1>1 DEF RowType
<1>13. ASSUME NEW d \in Clis, cli'[d].run # 0 PROVE Knows(d)' /\ Alone(d)'
  <2>1. CASE d = c
    <3>1. \A p : RowsAt(n + 1, p)' = {}
      <4>1. \A j \in DOMAIN rows : rows[j].run # n + 1
        BY <1>2, <1>12
      <4> QED BY <1>5, <4>1 DEF RowsAt
    <3>2. Mirrors(file, wanted)
      BY DEF PInv
    <3>3. Knows(c)'
      BY <1>1, <1>3, <1>4, <1>8, <3>1, <3>2 DEF Knows
    <3>4. Alone(c)'
      BY <1>2, <1>3, <1>7, <1>8, <1>10, <1>11, <1>12 DEF Alone
    <3> QED BY <2>1, <3>3, <3>4
  <2>2. CASE d # c
    <3>1. Knows(d) /\ Alone(d) /\ cli'[d] = cli[d] /\ cli[d].run \in 1 .. n
      BY <1>8, <1>11, <1>13, <2>2, <1>2 DEF PInv
    <3>2. Knows(d)'
      BY <1>4, <1>5, <3>1, KnowsStill
    <3>3. Alone(d)'
      BY <1>3, <1>7, <1>8, <1>10, <1>11, <3>1 DEF Alone
    <3> QED BY <3>2, <3>3
  <2> QED BY <2>1, <2>2
<1>14. \A row \in late' : IsLate(row)'
  <2>1. ASSUME NEW row \in late PROVE IsLate(row)'
    <3>1. row \in RowType /\ IsLate(row)
      BY <1>2 DEF PInv
    <3> QED BY <1>3, <1>5, <3>1 DEF IsLate
  <2> QED BY <1>3, <2>1
<1>15. Mirrors(file, wanted)'
  BY <1>3 DEF PInv
<1> QED BY <1>5, <1>9, <1>13, <1>14, <1>15 DEF PInv

\* A command ends on an error.
LEMMA PlanFailed ==
    ASSUME PInv, NEW c \in Clis, CreateTaskFails(c)
    PROVE  PInv'
<1>1. PICK n, m, row : n = Len(begun) /\ m = Len(rows) /\ row = Row(c)
  OBVIOUS
<1>2. /\ n \in Nat /\ m \in Nat /\ cli \in [Clis -> CliType(n, m)]
      /\ late \subseteq RowType /\ \A d \in Clis : InPlace(d)
  BY <1>1, VariableTypes
<1>3. /\ cli[c].run # 0 /\ cli' = [cli EXCEPT ![c] = Idle]
      /\ late' \in {late, late \union {row}}
      /\ UNCHANGED <<wanted, file, begun, rows>>
  BY <1>1 DEF CreateTaskFails
<1>4. /\ RowsOK'
      /\ \A r, p : RowsAt(r, p)' = RowsAt(r, p)
      /\ \A other \in RowType :
            /\ IsWanted(other) => IsWanted(other)'
            /\ Follows(other, Len(rows) + 1) => Follows(other, Len(rows) + 1)'
  BY <1>3, RowsStay
<1>5. RowType \subseteq RowType'
  BY <1>3 DEF RowType
<1>6. /\ row \in RowType /\ row.run = cli[c].run
      /\ IsWanted(row) /\ Follows(row, Len(rows) + 1)
      /\ RowsAt(row.run, row.position) = {}
  BY <1>1, <1>3, RowIsWanted
<1>7. /\ cli'[c] = Idle /\ Idle.run = 0 /\ Idle \in CliType(n, m)
      /\ \A d \in Clis : d # c => cli'[d] = cli[d]
  BY <1>2, <1>3, IdleType
<1>8. TypeOK'
  <2>1. cli' \in [Clis -> CliType(n, m)]
    BY <1>2, <1>3, <1>7
  <2>2. \A d \in Clis : InPlace(d)'
    BY <1>2, <1>7 DEF InPlace
  <2>3. rows' \in Seq(RowType')
    <3>1. rows \in Seq(RowType)
      BY VariableTypes
    <3> QED BY <1>3, <1>5, <3>1
  <2>4. late' \subseteq RowType'
    BY <1>2, <1>3, <1>5, <1>6
  <2>5. wanted \in Seq(Entries) /\ file \in Seq(Entries) /\ begun \in Seq(Seq(Entries))
    BY VariableTypes
  <2> QED BY <1>1, <1>3, <2>1, <2>2, <2>3, <2>4, <2>5 DEF TypeOK, CliType, InPlace
<1>9. Alone(c)
  BY <1>3 DEF PInv
<1>10. ASSUME NEW d \in Clis, cli'[d].run # 0 PROVE Knows(d)' /\ Alone(d)'
  <2>1. /\ d # c /\ cli'[d] = cli[d] /\ cli[d].run # 0
        /\ Knows(d) /\ Alone(d)
    BY <1>7, <1>10 DEF PInv
  <2>2. Knows(d)'
    BY <1>3, <1>4, <2>1, KnowsStill
  <2>3. cli[d].run # row.run
    BY <1>6, <1>9, <2>1 DEF Alone
  <2>4. Alone(d)'
    BY <1>3, <1>7, <2>1, <2>3 DEF Alone
  <2> QED BY <2>2, <2>4
<1>11. ASSUME NEW other \in late' PROVE IsLate(other)'
  <2>1. CASE other \in late
    <3>1. other \in RowType /\ IsLate(other) /\ other.run # row.run
      BY <1>2, <1>6, <1>9, <2>1 DEF PInv, Alone
    <3> QED BY <1>3, <1>4, <3>1 DEF IsLate
  <2>2. CASE other = row
    <3>1. \A x \in late : x.run # row.run
      BY <1>6, <1>9 DEF Alone
    <3> QED BY <1>3, <1>4, <1>6, <2>2, <3>1 DEF IsLate
  <2> QED BY <1>3, <2>1, <2>2
<1>12. Mirrors(file, wanted)'
  BY <1>3 DEF PInv
<1> QED BY <1>4, <1>8, <1>10, <1>11, <1>12 DEF PInv

\* A command posts an entry and goes on.
LEMMA TaskCreated ==
    ASSUME PInv, NEW c \in Clis, CreateTask(c)
    PROVE  PInv'
<1>1. PICK n, m, row, old :
        n = Len(begun) /\ m = Len(rows) /\ row = Row(c) /\ old = cli[c]
  OBVIOUS
<1>2. /\ n \in Nat /\ m \in Nat /\ cli \in [Clis -> CliType(n, m)]
      /\ late \subseteq RowType /\ \A d \in Clis : InPlace(d)
      /\ wanted \in Seq(Entries) /\ file \in Seq(Entries) /\ begun \in Seq(Seq(Entries))
  BY <1>1, VariableTypes
<1>3. PICK new :
        /\ new = IF old.at = Len(old.tasks) THEN Idle
                 ELSE [old EXCEPT !.at = old.at + 1,
                                  !.real_ids = Append(old.real_ids, m + 1)]
        /\ cli' = [cli EXCEPT ![c] = new]
  <2>1. cli' = [cli EXCEPT ![c] =
                  IF cli[c].at = Len(cli[c].tasks) THEN Idle
                  ELSE [cli[c] EXCEPT !.at = cli[c].at + 1,
                          !.real_ids = Append(cli[c].real_ids, Len(rows) + 1)]]
    BY DEF CreateTask
  <2> QED BY <1>1, <2>1
<1>4. /\ cli[c].run # 0 /\ rows' = Append(rows, row)
      /\ UNCHANGED <<wanted, file, begun, late>>
  BY <1>1 DEF CreateTask
<1>5. /\ row \in RowType /\ row.run = old.run /\ row.position = old.at
      /\ IsWanted(row) /\ Follows(row, Len(rows) + 1)
      /\ RowsAt(row.run, row.position) = {}
  BY <1>1, <1>4, RowIsWanted
<1>6. /\ Len(rows') = m + 1 /\ rows' \in Seq(RowType')
      /\ RowType \subseteq RowType'
      /\ RowsOK'
      /\ RowsAt(old.run, old.at)' = {m + 1}
      /\ \A r, p : ~(r = old.run /\ p = old.at) => RowsAt(r, p)' = RowsAt(r, p)
      /\ \A other \in RowType :
            IsWanted(other) /\ Follows(other, Len(rows) + 1)
            => IsWanted(other)' /\ Follows(other, Len(rows) + 1)'
  BY <1>1, <1>4, <1>5, RowAdded
<1>7. /\ old \in CliType(n, m) /\ old.run # 0
      /\ old.at <= Len(old.tasks) /\ Len(old.real_ids) = old.at - 1
      /\ old.at \in Nat \ {0} /\ old.real_ids \in Seq(1 .. m) /\ old.tasks \in Seq(Entries)
      /\ Knows(c) /\ Alone(c)
  BY <1>1, <1>2, <1>4 DEF PInv, InPlace, CliType
<1>8. /\ cli'[c] = new /\ \A d \in Clis : d # c => cli'[d] = cli[d]
  BY <1>2, <1>3
<1>9. old = [run |-> old.run, tasks |-> old.tasks, at |-> old.at,
             real_ids |-> old.real_ids]
  BY <1>7 DEF CliType
<1>10. new.run # 0 =>
          /\ old.at < Len(old.tasks) /\ new.run = old.run /\ new.tasks = old.tasks
          /\ new.at = old.at + 1 /\ new.real_ids = Append(old.real_ids, m + 1)
  <2>1. CASE old.at = Len(old.tasks)
    BY <1>2, <1>3, <2>1, IdleType
  <2>2. CASE old.at # Len(old.tasks)
    <3>1. new = [run |-> old.run, tasks |-> old.tasks, at |-> old.at + 1,
                 real_ids |-> Append(old.real_ids, m + 1)]
      BY <1>3, <1>9, <2>2
    <3>2. Len(old.tasks) \in Nat
      BY <1>7
    <3> QED BY <1>7, <2>2, <3>1, <3>2
  <2> QED BY <2>1, <2>2
<1>11. new \in CliType(n, m + 1)
  <2>1. CASE old.at = Len(old.tasks)
    <3>1. new = Idle /\ m + 1 \in Nat
      BY <1>2, <1>3, <2>1
    <3> QED BY <1>2, <3>1, IdleType
  <2>2. CASE old.at # Len(old.tasks)
    <3>1. new = [run |-> old.run, tasks |-> old.tasks, at |-> old.at + 1,
                 real_ids |-> Append(old.real_ids, m + 1)]
      BY <1>3, <1>9, <2>2
    <3>2. old.real_ids \in Seq(1 .. m + 1) /\ m + 1 \in 1 .. m + 1
      <4>1. 1 .. m \subseteq 1 .. m + 1
        BY <1>2
      <4> QED BY <1>2, <1>7, <4>1
    <3>3. Append(old.real_ids, m + 1) \in Seq(1 .. m + 1)
      BY <3>2
    <3>4. old.run \in 0 .. n /\ old.at + 1 \in Nat \ {0}
      BY <1>7 DEF CliType
    <3> QED BY <1>7, <3>1, <3>3, <3>4 DEF CliType
  <2> QED BY <2>1, <2>2
<1>12. TypeOK'
  <2>1. cli' \in [Clis -> CliType(n, m + 1)]
    <3>1. CliType(n, m) \subseteq CliType(n, m + 1)
      BY <1>2, CliTypeGrows
    <3> QED BY <1>2, <1>3, <1>11, <3>1
  <2>2. \A d \in Clis : InPlace(d)'
    <3>1. InPlace(c)'
      <4>1. Len(Append(old.real_ids, m + 1)) = old.at /\ old.at = (old.at + 1) - 1
        BY <1>7
      <4>2. Len(old.tasks) \in Nat
        BY <1>7
      <4> QED BY <1>7, <1>8, <1>10, <4>1, <4>2 DEF InPlace
    <3> QED BY <1>2, <1>8, <3>1 DEF InPlace
  <2>3. late' \subseteq RowType'
    BY <1>2, <1>4, <1>6
  <2> QED BY <1>1, <1>2, <1>4, <1>6, <2>1, <2>2, <2>3 DEF TypeOK, CliType, InPlace
<1>13. ASSUME new.run # 0 PROVE Knows(c)' /\ Alone(c)'
  <2>1. /\ new.run = old.run /\ new.tasks = old.tasks /\ new.at = old.at + 1
        /\ new.real_ids = Append(old.real_ids, m + 1)
    BY <1>10, <1>13
  <2>2. Mirrors(old.tasks, begun[old.run])
    BY <1>1, <1>7 DEF Knows
  <2>3. ASSUME NEW p \in 1 .. (old.at + 1) - 1
        PROVE  RowsAt(old.run, p)' = {Append(old.real_ids, m + 1)[p]}
    <3>1. CASE p = old.at
      <4>1. Append(old.real_ids, m + 1)[old.at] = m + 1
        BY <1>7
      <4> QED BY <1>6, <3>1, <4>1
    <3>2. CASE p # old.at
      <4>1. p \in 1 .. old.at - 1
        BY <1>7, <3>2
      <4>2. Append(old.real_ids, m + 1)[p] = old.real_ids[p]
        BY <1>7, <4>1
      <4>3. RowsAt(old.run, p)' = RowsAt(old.run, p)
        BY <1>6, <3>2
      <4> QED BY <1>1, <1>7, <4>1, <4>2, <4>3 DEF Knows
    <3> QED BY <3>1, <3>2
  <2>4. ASSUME NEW p \in Nat, p >= old.at + 1
        PROVE  RowsAt(old.run, p)' = {}
    <3>1. p # old.at /\ p >= old.at
      BY <1>7, <2>4
    <3>2. RowsAt(old.run, p)' = RowsAt(old.run, p)
      BY <1>6, <3>1
    <3> QED BY <1>1, <1>7, <3>1, <3>2 DEF Knows
  <2>5. Knows(c)'
    <3>1. Mirrors(new.tasks, begun'[new.run])
      BY <1>4, <2>1, <2>2
    <3>2. \A p : RowsAt(new.run, p)' = RowsAt(old.run, p)'
      BY <2>1
    <3>3. \A p : RowsAt(cli[c].run, p)' = RowsAt(new.run, p)'
      BY <1>8 DEF RowsAt
    <3>4. Mirrors(cli'[c].tasks, begun'[cli'[c].run])
      BY <1>8, <3>1
    <3>5. /\ \A p \in 1 .. cli'[c].at - 1 :
                RowsAt(cli[c].run, p)' = {cli'[c].real_ids[p]}
          /\ \A p \in Nat : p >= cli'[c].at => RowsAt(cli[c].run, p)' = {}
      BY <1>8, <2>1, <2>3, <2>4, <3>2, <3>3
    <3> QED BY <3>4, <3>5 DEF Knows
  <2>6. Alone(c)'
    BY <1>1, <1>4, <1>7, <1>8, <2>1 DEF Alone
  <2> QED BY <2>5, <2>6
<1>14. ASSUME NEW d \in Clis, d # c, cli'[d].run # 0
       PROVE  Knows(d)' /\ Alone(d)'
  <2>1. cli'[d] = cli[d] /\ Knows(d) /\ Alone(d) /\ cli[d].run # old.run
    BY <1>1, <1>7, <1>8, <1>14 DEF PInv, Alone
  <2>2. Knows(d)'
    <3>1. \A p : RowsAt(cli[d].run, p)' = RowsAt(cli[d].run, p)
      <4>1. PICK r : r = cli[d].run
        OBVIOUS
      <4>2. \A p : RowsAt(r, p)' = RowsAt(r, p)
        BY <1>6, <2>1, <4>1
      <4> QED BY <2>1, <4>1, <4>2 DEF RowsAt
    <3> QED BY <1>4, <2>1, <3>1, KnowsStill
  <2>3. Alone(d)'
    BY <1>4, <1>8, <1>10, <1>14, <2>1 DEF Alone
  <2> QED BY <2>2, <2>3
<1>15. ASSUME NEW other \in late PROVE IsLate(other)'
  <2>1. other \in RowType /\ IsLate(other) /\ other.run # old.run
    BY <1>1, <1>2, <1>7 DEF PInv, Alone
  <2>2. RowsAt(other.run, other.position)' = {}
    BY <1>6, <2>1 DEF IsLate
  <2> QED BY <1>4, <1>6, <2>1, <2>2 DEF IsLate
<1>16. Mirrors(file, wanted)'
  BY <1>4 DEF PInv
<1>17. \A d \in Clis : cli'[d].run # 0 => Knows(d)' /\ Alone(d)'
  BY <1>8, <1>13, <1>14
<1> QED BY <1>4, <1>6, <1>12, <1>15, <1>16, <1>17 DEF PInv

\* The backend serves a post whose command is gone.
LEMMA TaskCreatedLate ==
    ASSUME PInv, NEW row \in late, CreateTaskLate(row)
    PROVE  PInv'
<1>1. PICK n, m : n = Len(begun) /\ m = Len(rows)
  OBVIOUS
<1>2. /\ n \in Nat /\ m \in Nat /\ cli \in [Clis -> CliType(n, m)]
      /\ late \subseteq RowType /\ \A d \in Clis : InPlace(d)
      /\ wanted \in Seq(Entries) /\ file \in Seq(Entries) /\ begun \in Seq(Seq(Entries))
  BY <1>1, VariableTypes
<1>3. /\ rows' = Append(rows, row) /\ late' = late \ {row}
      /\ UNCHANGED <<wanted, file, begun, cli>>
  BY DEF CreateTaskLate
<1>4. row \in RowType /\ IsLate(row)
  BY <1>2 DEF PInv
<1>5. /\ Len(rows') = m + 1 /\ rows' \in Seq(RowType')
      /\ RowType \subseteq RowType'
      /\ RowsOK'
      /\ \A r, p : ~(r = row.run /\ p = row.position)
                      => RowsAt(r, p)' = RowsAt(r, p)
      /\ \A other \in RowType :
            IsWanted(other) /\ Follows(other, Len(rows) + 1)
            => IsWanted(other)' /\ Follows(other, Len(rows) + 1)'
  BY <1>1, <1>3, <1>4, RowAdded DEF IsLate
<1>6. TypeOK'
  <2>1. cli' \in [Clis -> CliType(n, m + 1)]
    <3>1. CliType(n, m) \subseteq CliType(n, m + 1)
      BY <1>2, CliTypeGrows
    <3> QED BY <1>2, <1>3, <3>1
  <2>2. \A d \in Clis : InPlace(d)'
    BY <1>2, <1>3 DEF InPlace
  <2>3. late' \subseteq RowType'
    BY <1>2, <1>3, <1>5
  <2> QED BY <1>1, <1>2, <1>3, <1>5, <2>1, <2>2, <2>3 DEF TypeOK, CliType, InPlace
<1>7. ASSUME NEW d \in Clis, cli'[d].run # 0 PROVE Knows(d)' /\ Alone(d)'
  <2>1. cli'[d] = cli[d] /\ Knows(d) /\ Alone(d) /\ cli[d].run # row.run
    BY <1>3, <1>7 DEF PInv, Alone
  <2>2. \A p : RowsAt(cli[d].run, p)' = RowsAt(cli[d].run, p)
    <3>1. PICK r : r = cli[d].run
      OBVIOUS
    <3>2. \A p : RowsAt(r, p)' = RowsAt(r, p)
      BY <1>5, <2>1, <3>1
    <3> QED BY <2>1, <3>1, <3>2 DEF RowsAt
  <2>3. Knows(d)'
    BY <1>3, <2>1, <2>2, KnowsStill
  <2>4. Alone(d)'
    BY <1>3, <2>1 DEF Alone
  <2> QED BY <2>3, <2>4
<1>8. ASSUME NEW other \in late' PROVE IsLate(other)'
  <2>1. /\ other \in RowType /\ IsLate(other) /\ other \in late /\ other.run # row.run
    BY <1>2, <1>3, <1>4, <1>8 DEF PInv, IsLate
  <2>2. RowsAt(other.run, other.position)' = {}
    BY <1>5, <2>1 DEF IsLate
  <2> QED BY <1>3, <1>5, <2>1, <2>2 DEF IsLate
<1>9. Mirrors(file, wanted)'
  BY <1>3 DEF PInv
<1> QED BY <1>3, <1>5, <1>6, <1>7, <1>8, <1>9 DEF PInv

LEMMA PlanningNext ==
    ASSUME PInv, [Next]_vars
    PROVE  PInv'
<1>1. ASSUME NEW plan \in Plans, SubagentInvoke(plan) PROVE PInv'
  BY <1>1, InvokeWrites, PlanWritten DEF SubagentInvoke
<1>2. ASSUME NEW plan \in Plans, EditPlan(plan) PROVE PInv'
  <2>1. plan \in Seq(Entries)
    BY PlanningAssumption
  <2> QED BY <1>2, <2>1, MirrorsItself, PlanWritten DEF EditPlan
<1>3. ASSUME NEW c \in Clis, PlanCreate(c) \/ CreateTask(c) \/ CreateTaskFails(c)
      PROVE  PInv'
  BY <1>3, PlanCreated, TaskCreated, PlanFailed
<1>4. ASSUME NEW row \in late, CreateTaskLate(row) PROVE PInv'
  BY <1>4, TaskCreatedLate
<1>5. ASSUME UNCHANGED vars PROVE PInv'
  <2>1. UNCHANGED <<wanted, file, begun, cli, rows, late>>
    BY <1>5 DEF vars
  <2>2. wanted \in Seq(Entries) /\ file' \in Seq(Entries) /\ Mirrors(file', wanted)
    BY <2>1, VariableTypes DEF PInv
  <2> QED BY <2>1, <2>2, PlanWritten
<1> QED BY <1>1, <1>2, <1>3, <1>4, <1>5 DEF Next

LEMMA PlanningInvariant == Spec => []PInv
<1>1. Init => PInv
  BY PlanningInit
<1>2. PInv /\ [Next]_vars => PInv'
  BY PlanningNext
<1> QED BY <1>1, <1>2, PTL DEF Spec

-----------------------------------------------------------------------------

\* Every variable keeps its type: a running command is inside its plan and has
\* the id of each entry before.
THEOREM PlanningTypeCorrect == Spec => []TypeOK
<1>1. PInv => TypeOK
  BY DEF PInv
<1> QED BY <1>1, PlanningInvariant, PTL

\* For any plans and any number of terminals and runs, whatever fails or is
\* served late, the rows are the plan that was wanted, in its order and with
\* its dependencies.
THEOREM RowsMirrorThePlan == Spec => []RowsMirrorPlan
<1>1. ASSUME PInv PROVE RowsMirrorPlan
  <2> SUFFICES ASSUME NEW k \in DOMAIN rows
      PROVE  LET row  == rows[k]
                 plan == begun[row.run]
                 At(p) == {j \in DOMAIN rows :
                             rows[j].run = row.run /\ rows[j].position = p}
             IN /\ row.position \in DOMAIN plan
                /\ LET t == plan[row.position]
                   IN /\ row.role = t.role /\ row.goal = t.goal /\ row.types = t.types
                      /\ row.depends_on.names = t.names
                      /\ row.depends_on.rows =
                            UNION {At(p) : p \in {q \in 1 .. row.position - 1 :
                                                     q - 1 \in t.positions}}
                /\ At(row.position) = {k}
                /\ \A p \in 1 .. row.position - 1 : \E j \in 1 .. k - 1 : At(p) = {j}
    BY DEF RowsMirrorPlan
  <2> DEFINE row == rows[k]
             t   == begun[row.run][row.position]
             S   == {q \in 1 .. row.position - 1 : q - 1 \in t.positions}
  <2>1. rows \in Seq(RowType) /\ begun \in Seq(Seq(Entries)) /\ k \in 1 .. Len(rows)
    BY <1>1, VariableTypes
  <2>2. /\ IsWanted(row) /\ Follows(row, k) /\ RowsAt(row.run, row.position) = {k}
        /\ row \in RowType
    <3>1. RowsOK /\ row \in RowType
      BY <1>1, <2>1 DEF PInv
    <3>2. IsWanted(row) /\ Follows(row, k) /\ RowsAt(row.run, row.position) = {k}
      BY <2>1, <3>1 DEF RowsOK
    <3> QED BY <3>1, <3>2
  <2>3. row.run \in DOMAIN begun /\ begun[row.run] \in Seq(Entries)
    BY <2>1, <2>2 DEF RowType
  <2>4. row.position \in DOMAIN begun[row.run]
    BY <2>2, <2>3 DEF IsWanted
  <2>5. /\ row.role = t.role /\ row.goal = t.goal /\ row.types = t.types
        /\ row.depends_on.names = t.names
    BY <2>2 DEF IsWanted
  <2>6. row.depends_on.rows = UNION {RowsAt(row.run, p) : p \in S}
    <3>1. \A j : j \in row.depends_on.rows <=> \E p \in S : j \in RowsAt(row.run, p)
      BY <2>2 DEF IsWanted
    <3> HIDE DEF row, S
    <3> QED BY <3>1
  <2>7. \A p \in 1 .. row.position - 1 : \E j \in 1 .. k - 1 : RowsAt(row.run, p) = {j}
    BY <2>2 DEF Follows
  <2> QED BY <2>2, <2>4, <2>5, <2>6, <2>7 DEF RowsAt
<1> QED BY <1>1, PlanningInvariant, PTL
-----------------------------------------------------------------------------
(* The two validators. *)

\* A role produces something, and not what the framework writes for it.
ProperRole(role) ==
    /\ PrimaryOutputs[role] # {}
    /\ ProgressLogEntry \notin PrimaryOutputs[role]
    /\ FailureReport \notin PrimaryOutputs[role]

\* Of the entries the planner lets pass, a pod whose agent file is the template
\* takes exactly those whose list begins with an output of the role: an empty
\* list, or one that begins with a type of the framework, is refused after it
\* was approved and claimed (subagent.py, worker.py).
THEOREM ValidatorsMeet ==
    ASSUME NEW t \in Entries, WellFormed(t), WithinRole(t), ProperRole(t.role)
    PROVE  ContractAllows(Template(t.role), PrimaryArtifactType(t.types))
             <=> /\ t.types # <<>>
                 /\ t.types[1] \notin {ProgressLogEntry, FailureReport}
<1>1. Submittable(Template(t.role)) = PrimaryOutputs[t.role]
  BY DEF Submittable, Template, ProperRole
<1>2. ContractAllows(Template(t.role), PrimaryArtifactType(t.types))
        <=> PrimaryArtifactType(t.types) \in PrimaryOutputs[t.role]
  BY <1>1 DEF ContractAllows, ProperRole
<1>3. CASE t.types = <<>>
  BY <1>2, <1>3 DEF PrimaryArtifactType, ProperRole
<1>4. CASE t.types # <<>>
  <2>1. t.types \in Seq(Types)
    BY PlanningAssumption DEF Entries
  <2>2. 1 \in DOMAIN t.types
    BY <1>4, <2>1
  <2>3. t.types[1] \in PrimaryOutputs[t.role] \union {ProgressLogEntry, FailureReport}
    BY <2>2 DEF WithinRole
  <2> QED BY <1>2, <1>4, <2>3 DEF PrimaryArtifactType, ProperRole
<1> QED BY <1>3, <1>4
=============================================================================
