--------------------------- MODULE Alerting_proofs ---------------------------
(***************************************************************************)
(* Proofs about Alerting, for any number of alarms and of reports that     *)
(* overlap, and any number of failures, restarts, deaths and deletions.    *)
(***************************************************************************)
EXTENDS Alerting, TLAPS

-----------------------------------------------------------------------------
(* The inductive invariant *)

\* A writer has at most one event of a key, none where it is not writing, and is
\* past the first statement only with an event that fires.  Alarms are written
\* by reports, the offline alert by the monitor.
TodoInv ==
  \A w \in Writer :
    /\ \A e \in todo[w], f \in todo[w] : e.key = f.key => e = f
    /\ pc[w] \notin {"write", "insert", "refresh", "dispatch"} => todo[w] = {}
    /\ pc[w] \in {"insert", "refresh", "dispatch"} =>
         \E e \in todo[w] : Current(w, e) /\ e.event = "firing"
    /\ \A e \in todo[w] : e.key = Offline <=> w = Monitor

\* The writer has created a row of the key and not announced it yet.
Announcing(w, k) == pc[w] = "dispatch" /\ \E e \in todo[w] : Current(w, e) /\ e.key = k

\* A row that is not announced has just one writer that will.
AnnounceInv ==
  /\ \A w \in Writer, k \in Key : Announcing(w, k) =>
       id[w] \in DOMAIN rows[k] /\ rows[k][id[w]].announced = 0
  /\ \A v \in Writer, w \in Writer, k \in Key :
       Announcing(v, k) /\ Announcing(w, k) /\ id[v] = id[w] => v = w
  /\ \A k \in Key : \A i \in DOMAIN rows[k] :
       \/ rows[k][i].announced = 1
       \/ /\ rows[k][i].announced = 0
          /\ \/ "restart" \in troubles
             \/ \E w \in Writer : Announcing(w, k) /\ id[w] = i

\* From the moment the rows of the host are closed until it is gone, and then
\* for ever, only rows that came later fire.
OrphanInv ==
  deletion = "closed" \/ host = "gone" =>
    \A k \in Key : \A i \in DOMAIN rows[k] : rows[k][i].state = "firing" => rows[k][i].late

\* The newest event of an alarm that is still to be written agrees with the engine.
NewestInv ==
  \A w \in Writer, a \in Alarm : <<w, a>> \in newest =>
    \A e \in todo[w] : e.key = a => (firing[a] <=> e.event = "firing")

\* The row of the alarm is right, or its newest event is on the way, alone.
RowOK(a) ==
  /\ Pending(a) = {} => (RowFires(a) <=> firing[a])
  /\ \A w \in Pending(a) :
       /\ \A v \in Pending(a) : v = w
       /\ <<w, a>> \in newest
       /\ \A e \in todo[w] : Current(w, e) /\ e.key = a =>
            /\ pc[w] # "refresh"
            /\ pc[w] = "insert" => ~RowFires(a)
            /\ pc[w] = "dispatch" => RowFires(a)

RowInv == \A a \in Alarm \ disturbed : RowOK(a)

IInv == TypeOK /\ TodoInv /\ AnnounceInv /\ OrphanInv /\ NewestInv /\ RowInv

Writing == {"write", "insert", "refresh", "dispatch"}

-----------------------------------------------------------------------------
(* Facts about keys, events and rows *)

LEMMA KeyFacts ==
  /\ Alarm \subseteq Key /\ Key \subseteq Nat
  /\ Offline \in Key /\ Offline \notin Alarm
  /\ \A k \in Key : k # Offline => k \in Alarm
BY AlertingAssumption DEF Alarm, Key, Offline

\* A writer is at one event at a time.
LEMMA CurrentUnique ==
  ASSUME TypeOK, TodoInv, NEW w \in Writer, NEW e, NEW f, Current(w, e), Current(w, f)
  PROVE  e = f /\ e \in Event
<1>1. e \in todo[w] /\ f \in todo[w] /\ e.key <= f.key /\ f.key <= e.key
  BY DEF Current
<1>2. e \in Event /\ f \in Event
  BY <1>1 DEF TypeOK
<1>3. e.key \in Nat /\ f.key \in Nat
  BY <1>2, KeyFacts DEF Event
<1>4. QED
  BY <1>1, <1>2, <1>3 DEF TodoInv

\* Past the first statement a writer's event is one that fires.
LEMMA CurrentFires ==
  ASSUME TypeOK, TodoInv, NEW w \in Writer, NEW e, Current(w, e),
         pc[w] \in {"insert", "refresh", "dispatch"}
  PROVE  e.event = "firing"
BY CurrentUnique DEF TodoInv

LEMMA MatchingFires == \A k : RowFires(k) <=> Matching(k) # {}
BY DEF RowFires, Matching

\* Closing changes the state of rows and nothing else.
LEMMA ClosedFacts ==
  ASSUME TypeOK, NEW keys
  PROVE  /\ Closed(keys) \in [Key -> Seq(Row)]
         /\ \A k \in Key :
              /\ DOMAIN Closed(keys)[k] = DOMAIN rows[k]
              /\ \A i \in DOMAIN rows[k] :
                   /\ Closed(keys)[k][i].announced = rows[k][i].announced
                   /\ Closed(keys)[k][i].late = rows[k][i].late
                   /\ Closed(keys)[k][i].state =
                        IF k \in keys THEN "resolved" ELSE rows[k][i].state
<1>1. ASSUME NEW k \in Key, NEW i \in DOMAIN rows[k]
      PROVE  /\ rows[k][i] \in Row
             /\ [rows[k][i] EXCEPT !.state = "resolved"] \in Row
  <2>1. rows[k] \in Seq(Row)
    BY <1>1 DEF TypeOK
  <2>2. rows[k][i] \in Row
    BY <1>1, <2>1
  <2>3. QED
    BY <2>2 DEF Row
<1> DEFINE row(k, i) == IF k \in keys THEN [rows[k][i] EXCEPT !.state = "resolved"]
                                       ELSE rows[k][i]
           closed(k) == [i \in DOMAIN rows[k] |-> row(k, i)]
<1>2. \A k \in Key : closed(k) \in Seq(Row)
  <2>1. SUFFICES ASSUME NEW k \in Key PROVE closed(k) \in Seq(Row)
    OBVIOUS
  <2>2. \A i \in DOMAIN rows[k] : row(k, i) \in Row
    BY <1>1
  <2>3. DOMAIN rows[k] = 1..Len(rows[k]) /\ Len(rows[k]) \in Nat
    BY DEF TypeOK
  <2> HIDE DEF row
  <2>4. QED
    BY <2>2, <2>3
<1>3. Closed(keys) = [k \in Key |-> closed(k)]
  BY DEF Closed
<1>4. ASSUME NEW k \in Key, NEW i \in DOMAIN rows[k]
      PROVE  /\ row(k, i).announced = rows[k][i].announced
             /\ row(k, i).late = rows[k][i].late
             /\ row(k, i).state = IF k \in keys THEN "resolved" ELSE rows[k][i].state
  BY <1>1, <1>4 DEF Row
<1>5. \A k \in Key : /\ DOMAIN closed(k) = DOMAIN rows[k]
                      /\ \A i \in DOMAIN rows[k] : closed(k)[i] = row(k, i)
  OBVIOUS
<1> HIDE DEF row, closed
<1>6. QED
  BY <1>2, <1>3, <1>4, <1>5

LEMMA ClosedFires ==
  ASSUME TypeOK, NEW keys, rows' = Closed(keys), NEW k \in Key
  PROVE  IF k \in keys THEN ~RowFires(k)' ELSE RowFires(k)' <=> RowFires(k)
BY ClosedFacts DEF RowFires

\* A new row goes to the end of its key's.
LEMMA InsertFacts ==
  ASSUME TypeOK, NEW key \in Key, NEW r, NEW n, n = Len(rows[key]) + 1,
         rows'[key] = Append(rows[key], r), \A k \in Key \ {key} : rows'[k] = rows[k]
  PROVE  /\ n \in Nat /\ n \notin DOMAIN rows[key] /\ n \in DOMAIN rows'[key]
         /\ rows'[key][n] = r
         /\ \A k \in Key : \A i \in DOMAIN rows'[k] : i \in DOMAIN rows[k] \/ (k = key /\ i = n)
         /\ \A k \in Key : \A i \in DOMAIN rows[k] :
              i \in DOMAIN rows'[k] /\ rows'[k][i] = rows[k][i]
<1>1. rows[key] \in Seq(Row)
  BY DEF TypeOK
<1>2. /\ n \in Nat /\ n \notin DOMAIN rows[key] /\ n \in DOMAIN rows'[key]
      /\ rows'[key][n] = r
      /\ \A i \in DOMAIN rows'[key] : i \in DOMAIN rows[key] \/ i = n
      /\ \A i \in DOMAIN rows[key] : i \in DOMAIN rows'[key] /\ rows'[key][i] = rows[key][i]
  BY <1>1
<1>3. QED
  BY <1>2

LEMMA InitIInv == Init => IInv
<1>1. SUFFICES ASSUME Init PROVE IInv
  OBVIOUS
<1>2. TypeOK
  BY <1>1, AlertingAssumption DEF Init, TypeOK
<1>3. TodoInv /\ AnnounceInv /\ OrphanInv /\ NewestInv
  BY <1>1 DEF Init, TodoInv, AnnounceInv, Announcing, OrphanInv, NewestInv
<1>4. RowInv
  BY <1>1, KeyFacts DEF Init, RowInv, RowOK, Pending, Keys, RowFires
<1>5. QED
  BY <1>2, <1>3, <1>4 DEF IInv

-----------------------------------------------------------------------------
(* What a step leaves alone *)

\* The announcements depend on the writers that dispatch, and on which rows
\* there are and have been announced.
LEMMA AnnounceFrame ==
  ASSUME IInv, UNCHANGED id, troubles \subseteq troubles',
         \A w \in Writer, k \in Key : Announcing(w, k)' <=> Announcing(w, k),
         \A k \in Key :
           /\ DOMAIN rows'[k] = DOMAIN rows[k]
           /\ \A i \in DOMAIN rows[k] : rows'[k][i].announced = rows[k][i].announced
  PROVE  AnnounceInv'
BY DEF IInv, AnnounceInv

\* A writer that neither was nor is at a dispatch announces nothing.
LEMMA NoDispatch ==
  ASSUME IInv, NEW w \in Writer, NEW to, to # "dispatch", pc[w] # "dispatch",
         pc' = [pc EXCEPT ![w] = to],
         \A v \in Writer \ {w} : todo'[v] = todo[v]
  PROVE  \A v \in Writer, k \in Key : Announcing(v, k)' <=> Announcing(v, k)
BY DEF IInv, TypeOK, Announcing, Current

LEMMA OrphanFrame ==
  ASSUME IInv, UNCHANGED rows,
         deletion' = "closed" \/ host' = "gone" => deletion = "closed" \/ host = "gone"
  PROVE  OrphanInv'
BY DEF IInv, OrphanInv

LEMMA NewestFrame ==
  ASSUME IInv, UNCHANGED <<firing, newest>>, \A w \in Writer : todo'[w] \subseteq todo[w]
  PROVE  NewestInv'
BY DEF IInv, NewestInv

\* An alarm does not notice what happens to the others: its pending events, its
\* rows and its state in the engine stay, and a writer that comes to its event
\* starts with the first statement.
LEMMA RowFrame ==
  ASSUME IInv, NEW a \in Alarm, RowOK(a),
         Pending(a)' = Pending(a), RowFires(a)' <=> RowFires(a), firing'[a] = firing[a],
         \A w \in Writer : <<w, a>> \in newest => <<w, a>> \in newest',
         \A w \in Writer : \A e \in todo'[w] : Current(w, e)' /\ e.key = a =>
           pc'[w] = "write" \/ (Current(w, e) /\ pc'[w] = pc[w])
  PROVE  RowOK(a)'
<1>1. Pending(a)' = {} => (RowFires(a)' <=> firing'[a])
  BY DEF RowOK
<1>2. ASSUME NEW w \in Pending(a)'
      PROVE  (\A v \in Pending(a)' : v = w) /\ <<w, a>> \in newest'
  BY DEF RowOK, Pending
<1>3. ASSUME NEW w \in Pending(a)', NEW e \in todo'[w], Current(w, e)', e.key = a
      PROVE  /\ pc'[w] # "refresh"
             /\ pc'[w] = "insert" => ~RowFires(a)'
             /\ pc'[w] = "dispatch" => RowFires(a)'
  <2>1. w \in Pending(a) /\ w \in Writer
    BY DEF Pending
  <2>2. CASE pc'[w] = "write"
    BY <2>2
  <2>3. CASE Current(w, e) /\ pc'[w] = pc[w]
    <3>1. e \in todo[w]
      BY <2>3 DEF Current
    <3>2. QED
      BY <1>3, <2>1, <2>3, <3>1 DEF RowOK
  <2>4. QED
    BY <1>3, <2>1, <2>2, <2>3
<1>4. QED
  BY <1>1, <1>2, <1>3 DEF RowOK

\* A step that only moves writers which are not writing, and what is outside
\* the engine, its events and its rows.
LEMMA OutsideInv ==
  ASSUME IInv, UNCHANGED <<firing, rows, todo, id, newest, disturbed>>,
         troubles \subseteq troubles',
         \A w \in Writer :
           pc'[w] = pc[w] \/ (pc[w] \notin Writing /\ pc'[w] \notin Writing)
  PROVE  TodoInv' /\ AnnounceInv' /\ NewestInv' /\ RowInv'
<1>1. TodoInv'
  BY DEF IInv, TodoInv, Current, Writing
<1>2. AnnounceInv'
  <2>1. \A w \in Writer, k \in Key : Announcing(w, k)' <=> Announcing(w, k)
    BY DEF Announcing, Current, Writing
  <2>2. QED
    BY <2>1, AnnounceFrame
<1>3. NewestInv'
  BY NewestFrame
<1>4. ASSUME NEW a \in Alarm \ disturbed'
      PROVE  RowOK(a)'
  <2>1. \A w \in Writer : \A e \in todo'[w] : Current(w, e)' => Current(w, e) /\ pc'[w] = pc[w]
    BY DEF IInv, TodoInv, Current, Writing
  <2>2. Pending(a)' = Pending(a) /\ (RowFires(a)' <=> RowFires(a))
    BY DEF Pending, Keys, RowFires
  <2>3. RowOK(a)
    BY <1>4 DEF IInv, RowInv
  <2>4. QED
    BY <2>1, <2>2, <2>3, RowFrame
<1>5. RowInv'
  BY <1>4 DEF RowInv
<1>6. QED
  BY <1>1, <1>2, <1>3, <1>5

-----------------------------------------------------------------------------
(* What a writer does *)

\* The writer goes on with the same event, which fires.
LEMMA GoTodo ==
  ASSUME IInv, NEW w \in Writer, NEW e, Current(w, e), e.event = "firing",
         NEW to \in {"insert", "refresh", "dispatch"}, pc' = [pc EXCEPT ![w] = to],
         UNCHANGED todo
  PROVE  TodoInv'
BY DEF IInv, TypeOK, TodoInv, Current

\* The writer is done with the event.
LEMMA FinishTodo ==
  ASSUME IInv, NEW w \in Writer, NEW e \in todo[w], Finish(w, e)
  PROVE  /\ TodoInv'
         /\ todo' = [todo EXCEPT ![w] = todo[w] \ {e}]
         /\ todo' \in [Writer -> SUBSET Event]
         /\ \E to \in {"write", "status", "recheck", "idle"} : pc' = [pc EXCEPT ![w] = to]
<1>1. todo' = [todo EXCEPT ![w] = todo[w] \ {e}]
  BY DEF Finish
<1>2. todo' \in [Writer -> SUBSET Event]
  BY <1>1 DEF IInv, TypeOK
<1>3. PICK to \in {"write", "status", "recheck", "idle"} :
        /\ pc' = [pc EXCEPT ![w] = to]
        /\ to # "write" => todo[w] = {e}
  BY DEF Finish, Go
<1>4. \A v \in Writer : todo'[v] = IF v = w THEN todo[w] \ {e} ELSE todo[v]
  BY <1>1 DEF IInv, TypeOK
<1>5. \A v \in Writer : pc'[v] = IF v = w THEN to ELSE pc[v]
  BY <1>3 DEF IInv, TypeOK
<1>6. TodoInv'
  BY <1>3, <1>4, <1>5 DEF IInv, TodoInv, Current
<1>7. QED
  BY <1>1, <1>2, <1>3, <1>6

\* Who has an event of another key does not notice.
LEMMA FinishPending ==
  ASSUME IInv, NEW w \in Writer, NEW e \in todo[w], Finish(w, e)
  PROVE  /\ Pending(e.key)' = Pending(e.key) \ {w}
         /\ \A a \in Alarm \ {e.key} :
              /\ Pending(a)' = Pending(a)
              /\ \A v \in Writer : \A f \in todo'[v] : Current(v, f)' /\ f.key = a =>
                   pc'[v] = "write" \/ (Current(v, f) /\ pc'[v] = pc[v])
<1>1. \A v \in Writer : todo'[v] = IF v = w THEN todo[w] \ {e} ELSE todo[v]
  BY DEF Finish, IInv, TypeOK
<1>2. \A v \in Writer : v # w => pc'[v] = pc[v]
  BY FinishTodo DEF IInv, TypeOK
<1>3. todo'[w] # {} => pc'[w] = "write"
  BY <1>1 DEF Finish, Go, IInv, TypeOK
<1>4. \A f \in todo[w] : f.key = e.key => f = e
  BY DEF IInv, TodoInv
<1>5. Pending(e.key)' = Pending(e.key) \ {w}
  BY <1>1, <1>4 DEF Pending, Keys
<1>6. ASSUME NEW a \in Alarm \ {e.key}
      PROVE  Pending(a)' = Pending(a)
  BY <1>1, <1>6 DEF Pending, Keys
<1>7. ASSUME NEW v \in Writer, NEW f \in todo'[v], Current(v, f)'
      PROVE  pc'[v] = "write" \/ (Current(v, f) /\ pc'[v] = pc[v])
  BY <1>1, <1>2, <1>3, <1>7 DEF Current
<1>8. QED
  BY <1>5, <1>6, <1>7

\* The other alarms do not notice a writer that finishes an event.
LEMMA FinishRow ==
  ASSUME IInv, NEW w \in Writer, NEW e \in todo[w], Finish(w, e),
         UNCHANGED <<firing, newest>>, disturbed \ {e.key} \subseteq disturbed',
         \A a \in Alarm \ {e.key} : RowFires(a)' <=> RowFires(a),
         e.key \in Alarm \ disturbed' => RowOK(e.key)'
  PROVE  RowInv'
<1>1. ASSUME NEW a \in Alarm \ disturbed', a # e.key
      PROVE  RowOK(a)'
  <2>1. RowOK(a)
    BY <1>1 DEF IInv, RowInv
  <2>2. QED
    BY <1>1, <2>1, FinishPending, RowFrame
<1>2. QED
  BY <1>1 DEF RowInv

\* Nor a writer that goes on with its event.
LEMMA GoRow ==
  ASSUME IInv, NEW w \in Writer, NEW e, Current(w, e), NEW to, pc' = [pc EXCEPT ![w] = to],
         UNCHANGED <<todo, firing, newest>>, disturbed \ {e.key} \subseteq disturbed',
         \A a \in Alarm \ {e.key} : RowFires(a)' <=> RowFires(a),
         e.key \in Alarm \ disturbed' => RowOK(e.key)'
  PROVE  RowInv'
<1>1. ASSUME NEW a \in Alarm \ disturbed', a # e.key
      PROVE  RowOK(a)'
  <2>1. RowOK(a)
    BY <1>1 DEF IInv, RowInv
  <2>2. Pending(a)' = Pending(a)
    BY DEF Pending, Keys
  <2>3. ASSUME NEW v \in Writer, NEW f \in todo'[v], Current(v, f)', f.key = a
        PROVE  Current(v, f) /\ pc'[v] = pc[v]
    <3>1. Current(v, f)
      BY <2>3 DEF Current
    <3>2. v # w
      BY <1>1, <2>3, <3>1, CurrentUnique DEF IInv
    <3>3. QED
      BY <3>1, <3>2 DEF IInv, TypeOK
  <2>4. QED
    BY <1>1, <2>1, <2>2, <2>3, RowFrame
<1>2. QED
  BY <1>1 DEF RowInv

\* The last event of an alarm, written alone, sets its row right.
LEMMA SettledRow ==
  ASSUME IInv, NEW w \in Writer, NEW e, Current(w, e), Finish(w, e), Settle(w, e),
         UNCHANGED <<firing, newest>>, e.key \in Alarm \ disturbed',
         RowFires(e.key)' <=> e.event = "firing"
  PROVE  RowOK(e.key)'
<1>1. e \in todo[w] /\ w \in Pending(e.key)
  BY DEF Current, Pending, Keys
<1>2. Pending(e.key) = {w} /\ <<w, e.key>> \in newest
  <2>1. CASE Pending(e.key) = {w} /\ <<w, e.key>> \in newest
    BY <2>1
  <2>2. CASE ~(Pending(e.key) = {w} /\ <<w, e.key>> \in newest)
    <3>1. e.key \notin disturbed
      BY <2>2 DEF Settle
    <3>2. RowOK(e.key)
      BY <3>1 DEF IInv, RowInv
    <3>3. QED
      BY <1>1, <3>2 DEF RowOK
  <2>3. QED
    BY <2>1, <2>2
<1>3. Pending(e.key)' = {}
  BY <1>1, <1>2, FinishPending
<1>4. firing[e.key] <=> e.event = "firing"
  BY <1>1, <1>2 DEF IInv, NewestInv
<1>5. QED
  BY <1>3, <1>4 DEF RowOK

\* Settle makes no other alarm undisturbed.
LEMMA SettleKeeps ==
  ASSUME NEW w, NEW e, Settle(w, e)
  PROVE  disturbed \ {e.key} \subseteq disturbed' /\ disturbed' \subseteq disturbed
BY DEF Settle

\* A writer that was not at a dispatch and finishes an event, without an effect on
\* the rows but their state.
LEMMA FinishAnnounce ==
  ASSUME IInv, NEW w \in Writer, NEW e \in todo[w], Finish(w, e), pc[w] # "dispatch",
         UNCHANGED id, troubles \subseteq troubles',
         \A k \in Key :
           /\ DOMAIN rows'[k] = DOMAIN rows[k]
           /\ \A i \in DOMAIN rows[k] : rows'[k][i].announced = rows[k][i].announced
  PROVE  AnnounceInv'
<1>1. PICK to \in {"write", "status", "recheck", "idle"} : pc' = [pc EXCEPT ![w] = to]
  BY FinishTodo
<1>2. \A v \in Writer \ {w} : todo'[v] = todo[v]
  BY FinishTodo DEF IInv, TypeOK
<1>3. \A v \in Writer, k \in Key : Announcing(v, k)' <=> Announcing(v, k)
  BY <1>1, <1>2, NoDispatch
<1>4. QED
  BY <1>3, AnnounceFrame

\* The types of what Finish and Go change.
LEMMA FinishType ==
  ASSUME IInv, NEW w \in Writer, NEW e \in todo[w], Finish(w, e)
  PROVE  /\ todo' \in [Writer -> SUBSET Event]
         /\ pc' \in [Writer -> {"idle", "write", "insert", "refresh", "dispatch",
                                "status", "offline", "recheck"}]
<1>1. PICK to \in {"write", "status", "recheck", "idle"} : pc' = [pc EXCEPT ![w] = to]
  BY FinishTodo
<1>2. QED
  BY <1>1, FinishTodo DEF IInv, TypeOK

LEMMA FinishNewest ==
  ASSUME IInv, NEW w \in Writer, NEW e \in todo[w], Finish(w, e), UNCHANGED <<firing, newest>>
  PROVE  NewestInv'
<1>1. \A v \in Writer : todo'[v] \subseteq todo[v]
  BY FinishTodo DEF IInv, TypeOK
<1>2. QED
  BY <1>1, NewestFrame

-----------------------------------------------------------------------------
(* The statements of a writer *)

LEMMA UpdateInv ==
  ASSUME IInv, NEW w \in Writer, NEW e \in todo[w], Update(w, e)
  PROVE  IInv'
<1>1. /\ pc[w] = "write" /\ Current(w, e) /\ e.event = "firing"
      /\ UNCHANGED <<firing, rows, id, host, alive, deletion, newest, counts>>
  BY DEF Update
<1>2. OrphanInv' /\ \A k : RowFires(k)' <=> RowFires(k)
  BY <1>1, OrphanFrame DEF RowFires
<1>3. CASE Matching(e.key) = {}
  <2>1. pc' = [pc EXCEPT ![w] = "insert"] /\ UNCHANGED <<todo, disturbed>>
    BY <1>3 DEF Update, Go
  <2>2. TypeOK'
    BY <1>1, <2>1 DEF IInv, TypeOK, counts
  <2>3. TodoInv'
    BY <1>1, <2>1, GoTodo
  <2>4. AnnounceInv'
    BY <1>1, <2>1, NoDispatch, AnnounceFrame DEF counts
  <2>5. NewestInv'
    BY <1>1, <2>1, NewestFrame
  <2>6. ASSUME e.key \in Alarm \ disturbed' PROVE RowOK(e.key)'
    <3>1. RowOK(e.key)
      BY <2>1, <2>6 DEF IInv, RowInv
    <3>2. ~RowFires(e.key)
      BY <1>3, MatchingFires
    <3>3. Pending(e.key)' = Pending(e.key) /\ w \in Pending(e.key)
      BY <1>1, <2>1 DEF Pending, Keys
    <3>4. pc'[w] = "insert"
      BY <2>1 DEF IInv, TypeOK
    <3>5. QED
      BY <1>1, <1>2, <2>1, <3>1, <3>2, <3>3, <3>4 DEF RowOK
  <2>7. RowInv'
    BY <1>1, <1>2, <2>1, <2>6, GoRow
  <2>8. QED
    BY <1>2, <2>2, <2>3, <2>4, <2>5, <2>7 DEF IInv
<1>4. CASE Matching(e.key) # {}
  <2>1. Finish(w, e) /\ Settle(w, e)
    BY <1>4 DEF Update
  <2>2. disturbed' \subseteq disturbed /\ disturbed \ {e.key} \subseteq disturbed'
    BY <2>1, SettleKeeps
  <2>3. TypeOK'
    BY <1>1, <2>1, <2>2, FinishType DEF IInv, TypeOK, counts
  <2>4. TodoInv' /\ AnnounceInv' /\ NewestInv'
    BY <1>1, <2>1, FinishTodo, FinishAnnounce, FinishNewest DEF counts
  <2>5. RowFires(e.key)'
    BY <1>2, <1>4, MatchingFires
  <2>6. RowInv'
    BY <1>1, <1>2, <2>1, <2>2, <2>5, SettledRow, FinishRow
  <2>7. QED
    BY <1>2, <2>3, <2>4, <2>6 DEF IInv
<1>5. QED
  BY <1>3, <1>4

\* The new row is announced by its writer and nobody else.
LEMMA InsertAnnounce ==
  ASSUME IInv, NEW w \in Writer, NEW e \in todo[w], Insert(w, e)
  PROVE  AnnounceInv'
<1> DEFINE n == Len(rows[e.key]) + 1
           row == [state |-> "firing", announced |-> 0, late |-> deletion = "closed"]
<1>1. /\ pc[w] = "insert" /\ Current(w, e) /\ UNCHANGED <<todo, troubles>>
      /\ rows' = [rows EXCEPT ![e.key] = Append(@, row)]
      /\ id' = [id EXCEPT ![w] = n]
      /\ pc' = [pc EXCEPT ![w] = "dispatch"]
  BY DEF Insert, Go, counts
<1>2. e.key \in Key
  BY DEF IInv, TypeOK, Event
<1>3. row \in Row /\ row.announced = 0
  BY DEF Row
<1>4. /\ n \notin DOMAIN rows[e.key] /\ n \in DOMAIN rows'[e.key]
      /\ rows'[e.key][n] = row
      /\ \A k \in Key : \A i \in DOMAIN rows'[k] : i \in DOMAIN rows[k] \/ (k = e.key /\ i = n)
      /\ \A k \in Key : \A i \in DOMAIN rows[k] :
           i \in DOMAIN rows'[k] /\ rows'[k][i] = rows[k][i]
  <2>1. n = Len(rows[e.key]) + 1
    OBVIOUS
  <2> HIDE DEF row, n
  <2>2. rows'[e.key] = Append(rows[e.key], row) /\ \A k \in Key \ {e.key} : rows'[k] = rows[k]
    BY <1>1, <1>2 DEF IInv, TypeOK
  <2>3. QED
    BY <1>2, <2>1, <2>2, InsertFacts DEF IInv
<1>5. \A v \in Writer \ {w}, k \in Key : Announcing(v, k)' <=> Announcing(v, k)
  BY <1>1 DEF IInv, TypeOK, Announcing, Current
<1>6. \A k \in Key : Announcing(w, k)' <=> k = e.key
  <2>1. pc'[w] = "dispatch"
    BY <1>1 DEF IInv, TypeOK
  <2>2. \A f : Current(w, f)' <=> f = e
    <3>1. \A f : Current(w, f)' <=> Current(w, f)
      BY <1>1 DEF Current
    <3>2. QED
      BY <1>1, <3>1, CurrentUnique DEF IInv
  <2>3. QED
    BY <1>1, <2>1, <2>2 DEF Announcing
<1>7. id'[w] = n /\ \A v \in Writer \ {w} : id'[v] = id[v]
  BY <1>1 DEF IInv, TypeOK
<1> HIDE DEF n, row
<1>8. \A v \in Writer, k \in Key : Announcing(v, k)' =>
        id'[v] \in DOMAIN rows'[k] /\ rows'[k][id'[v]].announced = 0
  <2>1. SUFFICES ASSUME NEW v \in Writer, NEW k \in Key, Announcing(v, k)'
                 PROVE  id'[v] \in DOMAIN rows'[k] /\ rows'[k][id'[v]].announced = 0
    OBVIOUS
  <2>2. CASE v = w
    BY <1>3, <1>4, <1>6, <1>7, <2>1, <2>2
  <2>3. CASE v # w
    <3>1. id[v] \in DOMAIN rows[k] /\ rows[k][id[v]].announced = 0
      BY <1>5, <2>1, <2>3 DEF IInv, AnnounceInv
    <3>2. QED
      BY <1>4, <1>7, <2>3, <3>1
  <2>4. QED
    BY <2>2, <2>3
<1>9. \A u \in Writer, v \in Writer, k \in Key :
        Announcing(u, k)' /\ Announcing(v, k)' /\ id'[u] = id'[v] => u = v
  <2>1. SUFFICES ASSUME NEW u \in Writer, NEW v \in Writer, NEW k \in Key,
                        Announcing(u, k)', Announcing(v, k)', id'[u] = id'[v]
                 PROVE  u = v
    OBVIOUS
  <2>2. CASE u # w /\ v # w
    BY <1>5, <1>7, <2>1, <2>2 DEF IInv, AnnounceInv
  <2>3. ASSUME NEW x \in Writer \ {w}, Announcing(x, e.key)', id'[x] = n
        PROVE  FALSE
    <3>1. id[x] \in DOMAIN rows[e.key]
      BY <1>2, <1>4, <1>5, <2>3 DEF IInv, AnnounceInv
    <3>2. QED
      BY <1>4, <1>7, <2>3, <3>1
  <2>4. QED
    BY <1>6, <1>7, <2>1, <2>2, <2>3
<1>10. \A k \in Key : \A i \in DOMAIN rows'[k] :
        \/ rows'[k][i].announced = 1
        \/ /\ rows'[k][i].announced = 0
           /\ \/ "restart" \in troubles'
              \/ \E v \in Writer : Announcing(v, k)' /\ id'[v] = i
  <2>1. SUFFICES ASSUME NEW k \in Key, NEW i \in DOMAIN rows'[k]
                 PROVE  \/ rows'[k][i].announced = 1
                        \/ /\ rows'[k][i].announced = 0
                           /\ \/ "restart" \in troubles'
                              \/ \E v \in Writer : Announcing(v, k)' /\ id'[v] = i
    OBVIOUS
  <2>2. CASE k = e.key /\ i = n
    BY <1>3, <1>4, <1>6, <1>7, <2>2
  <2>3. CASE ~(k = e.key /\ i = n)
    <3>1. i \in DOMAIN rows[k] /\ rows'[k][i] = rows[k][i]
      BY <1>4, <2>1, <2>3
    <3>2. ASSUME NEW v \in Writer, Announcing(v, k), id[v] = i
          PROVE  Announcing(v, k)' /\ id'[v] = i
      <4>1. v # w
        BY <1>1, <3>2 DEF Announcing
      <4>2. QED
        BY <1>5, <1>7, <3>2, <4>1
    <3>3. QED
      BY <1>1, <3>1, <3>2 DEF IInv, AnnounceInv
  <2>4. QED
    BY <2>2, <2>3
<1>11. QED
  BY <1>8, <1>9, <1>10 DEF AnnounceInv

LEMMA InsertInv ==
  ASSUME IInv, NEW w \in Writer, NEW e \in todo[w], Insert(w, e)
  PROVE  IInv'
<1> DEFINE n == Len(rows[e.key]) + 1
           row == [state |-> "firing", announced |-> 0, late |-> deletion = "closed"]
<1>1. /\ pc[w] = "insert" /\ Current(w, e) /\ host # "gone"
      /\ rows' = [rows EXCEPT ![e.key] = Append(@, row)]
      /\ id' = [id EXCEPT ![w] = n]
      /\ pc' = [pc EXCEPT ![w] = "dispatch"]
      /\ Settle(w, e)
      /\ UNCHANGED <<firing, todo, host, alive, deletion, newest, counts>>
  BY DEF Insert, Go
<1>2. e.key \in Key /\ row \in Row /\ row.state = "firing" /\ row.late = (deletion = "closed")
  BY DEF IInv, TypeOK, Event, Row
<1>3. /\ rows' \in [Key -> Seq(Row)]
      /\ n \in Nat /\ n \in DOMAIN rows'[e.key] /\ rows'[e.key][n] = row
      /\ \A k \in Key : \A i \in DOMAIN rows'[k] : i \in DOMAIN rows[k] \/ (k = e.key /\ i = n)
      /\ \A k \in Key : \A i \in DOMAIN rows[k] :
           i \in DOMAIN rows'[k] /\ rows'[k][i] = rows[k][i]
  <2>1. n = Len(rows[e.key]) + 1
    OBVIOUS
  <2> HIDE DEF row, n
  <2>2. rows'[e.key] = Append(rows[e.key], row) /\ \A k \in Key \ {e.key} : rows'[k] = rows[k]
    BY <1>1, <1>2 DEF IInv, TypeOK
  <2>3. rows' \in [Key -> Seq(Row)]
    <3>1. Append(rows[e.key], row) \in Seq(Row)
      BY <1>2 DEF IInv, TypeOK
    <3>2. QED
      BY <1>1, <3>1 DEF IInv, TypeOK
  <2>4. QED
    BY <1>2, <2>1, <2>2, <2>3, InsertFacts DEF IInv
<1> HIDE DEF row, n
<1>4. e.event = "firing"
  BY <1>1, CurrentFires DEF IInv
<1>5. disturbed' \subseteq disturbed /\ disturbed \ {e.key} \subseteq disturbed'
  BY <1>1, SettleKeeps
<1>6. TypeOK'
  <2>1. id' \in [Writer -> Nat]
    BY <1>1, <1>3 DEF IInv, TypeOK
  <2>2. QED
    BY <1>1, <1>3, <1>5, <2>1 DEF IInv, TypeOK, counts
<1>7. TodoInv'
  BY <1>1, <1>4, GoTodo
<1>8. AnnounceInv'
  BY InsertAnnounce
<1>9. OrphanInv'
  <2>1. SUFFICES ASSUME deletion = "closed", NEW k \in Key, NEW i \in DOMAIN rows'[k],
                        rows'[k][i].state = "firing"
                 PROVE  rows'[k][i].late
    BY <1>1 DEF OrphanInv
  <2>2. CASE k = e.key /\ i = n
    BY <1>2, <1>3, <2>1, <2>2
  <2>3. CASE ~(k = e.key /\ i = n)
    <3>1. i \in DOMAIN rows[k] /\ rows'[k][i] = rows[k][i]
      BY <1>3, <2>1, <2>3
    <3>2. QED
      BY <2>1, <3>1 DEF IInv, OrphanInv
  <2>4. QED
    BY <2>2, <2>3
<1>10. NewestInv'
  BY <1>1, NewestFrame
<1>11. RowFires(e.key)' /\ \A a \in Alarm \ {e.key} : RowFires(a)' <=> RowFires(a)
  BY <1>2, <1>3, KeyFacts DEF RowFires
<1>12. ASSUME e.key \in Alarm \ disturbed' PROVE RowOK(e.key)'
  <2>1. w \in Pending(e.key) /\ Pending(e.key)' = Pending(e.key)
    BY <1>1 DEF Pending, Keys
  <2>2. Pending(e.key) = {w} /\ <<w, e.key>> \in newest
    <3>1. CASE Pending(e.key) = {w} /\ <<w, e.key>> \in newest
      BY <3>1
    <3>2. CASE ~(Pending(e.key) = {w} /\ <<w, e.key>> \in newest)
      <4>1. RowOK(e.key)
        BY <1>1, <1>12, <3>2 DEF Settle, IInv, RowInv
      <4>2. QED
        BY <2>1, <4>1 DEF RowOK
    <3>3. QED
      BY <3>1, <3>2
  <2>3. pc'[w] = "dispatch"
    BY <1>1 DEF IInv, TypeOK
  <2>4. QED
    BY <1>1, <1>11, <2>1, <2>2, <2>3 DEF RowOK
<1>13. RowInv'
  BY <1>1, <1>5, <1>11, <1>12, GoRow
<1>14. QED
  BY <1>6, <1>7, <1>8, <1>9, <1>10, <1>13 DEF IInv

LEMMA CollideInv ==
  ASSUME IInv, NEW w \in Writer, NEW e \in todo[w], Collide(w, e)
  PROVE  IInv'
<1>1. /\ pc[w] = "insert" /\ Current(w, e) /\ Matching(e.key) # {}
      /\ pc' = [pc EXCEPT ![w] = "refresh"]
      /\ UNCHANGED <<firing, rows, todo, id, host, alive, deletion, histories, counts>>
  BY DEF Collide, Go
<1>2. e.event = "firing"
  BY <1>1, CurrentFires DEF IInv
<1>3. TypeOK'
  BY <1>1 DEF IInv, TypeOK, counts, histories
<1>4. TodoInv'
  BY <1>1, <1>2, GoTodo
<1>5. AnnounceInv'
  BY <1>1, NoDispatch, AnnounceFrame DEF counts
<1>6. OrphanInv' /\ NewestInv' /\ \A k : RowFires(k)' <=> RowFires(k)
  BY <1>1, OrphanFrame, NewestFrame DEF RowFires, histories
<1>7. e.key \notin Alarm \ disturbed'
  <2>1. SUFFICES ASSUME e.key \in Alarm \ disturbed' PROVE FALSE
    OBVIOUS
  <2>2. RowOK(e.key)
    BY <1>1, <2>1 DEF IInv, RowInv, histories
  <2>3. w \in Pending(e.key)
    BY DEF Pending, Keys
  <2>4. ~RowFires(e.key)
    BY <1>1, <2>2, <2>3 DEF RowOK
  <2>5. QED
    BY <1>1, <2>4, MatchingFires
<1>8. RowInv'
  BY <1>1, <1>6, <1>7, GoRow DEF histories
<1>9. QED
  BY <1>3, <1>4, <1>5, <1>6, <1>8 DEF IInv

LEMMA RefreshInv ==
  ASSUME IInv, NEW w \in Writer, NEW e \in todo[w], Refresh(w, e)
  PROVE  IInv'
<1>1. /\ pc[w] = "refresh" /\ Current(w, e) /\ Finish(w, e)
      /\ UNCHANGED <<firing, rows, id, host, alive, deletion, newest, counts>>
      /\ IF Matching(e.key) = {} THEN UNCHANGED disturbed ELSE Settle(w, e)
  BY DEF Refresh
<1>2. e.event = "firing"
  BY <1>1, CurrentFires DEF IInv
<1>3. disturbed' \subseteq disturbed /\ disturbed \ {e.key} \subseteq disturbed'
  BY <1>1, SettleKeeps
<1>4. OrphanInv' /\ \A k : RowFires(k)' <=> RowFires(k)
  BY <1>1, OrphanFrame DEF RowFires
<1>5. TypeOK'
  BY <1>1, <1>3, FinishType DEF IInv, TypeOK, counts
<1>6. TodoInv' /\ AnnounceInv' /\ NewestInv'
  BY <1>1, FinishTodo, FinishAnnounce, FinishNewest DEF counts
<1>7. ASSUME e.key \in Alarm \ disturbed' PROVE RowOK(e.key)'
  <2>1. CASE Matching(e.key) = {}
    <3>1. RowOK(e.key)
      BY <1>1, <1>7, <2>1 DEF IInv, RowInv
    <3>2. w \in Pending(e.key)
      BY DEF Pending, Keys
    <3>3. QED
      BY <1>1, <3>1, <3>2 DEF RowOK
  <2>2. CASE Matching(e.key) # {}
    <3>1. RowFires(e.key)'
      BY <1>4, <2>2, MatchingFires
    <3>2. QED
      BY <1>1, <1>2, <1>7, <2>2, <3>1, SettledRow
  <2>3. QED
    BY <2>1, <2>2
<1>8. RowInv'
  BY <1>1, <1>3, <1>4, <1>7, FinishRow
<1>9. QED
  BY <1>4, <1>5, <1>6, <1>8 DEF IInv

LEMMA ResolveInv ==
  ASSUME IInv, NEW w \in Writer, NEW e \in todo[w], Resolve(w, e)
  PROVE  IInv'
<1>1. /\ pc[w] = "write" /\ Current(w, e) /\ e.event = "recovered"
      /\ rows' = Closed({e.key}) /\ Finish(w, e) /\ Settle(w, e)
      /\ UNCHANGED <<firing, id, host, alive, deletion, newest, counts>>
  BY DEF Resolve
<1>2. disturbed' \subseteq disturbed /\ disturbed \ {e.key} \subseteq disturbed'
  BY <1>1, SettleKeeps
<1>3. e.key \in Key
  BY DEF IInv, TypeOK, Event
<1>4. /\ rows' \in [Key -> Seq(Row)]
      /\ \A k \in Key :
           /\ DOMAIN rows'[k] = DOMAIN rows[k]
           /\ \A i \in DOMAIN rows[k] :
                /\ rows'[k][i].announced = rows[k][i].announced
                /\ rows'[k][i].late = rows[k][i].late
                /\ rows'[k][i].state = "firing" => rows[k][i].state = "firing"
  BY <1>1, ClosedFacts DEF IInv
<1>5. ~RowFires(e.key)' /\ \A a \in Alarm \ {e.key} : RowFires(a)' <=> RowFires(a)
  BY <1>1, <1>3, ClosedFires, KeyFacts DEF IInv
<1>6. TypeOK'
  BY <1>1, <1>2, <1>4, FinishType DEF IInv, TypeOK, counts
<1>7. TodoInv' /\ NewestInv'
  BY <1>1, FinishTodo, FinishNewest
<1>8. AnnounceInv'
  BY <1>1, <1>4, FinishAnnounce DEF counts
<1>9. OrphanInv'
  BY <1>1, <1>4 DEF IInv, OrphanInv
<1>10. RowInv'
  BY <1>1, <1>2, <1>5, SettledRow, FinishRow
<1>11. QED
  BY <1>6, <1>7, <1>8, <1>9, <1>10 DEF IInv

LEMMA SkipInv ==
  ASSUME IInv, NEW w \in Writer, NEW e \in todo[w], Skip(w, e)
  PROVE  IInv'
<1>1. /\ pc[w] \in {"write", "insert", "refresh"} /\ Current(w, e)
      /\ Finish(w, e) /\ Disturb({e.key})
      /\ UNCHANGED <<firing, rows, id, host, alive, deletion, newest, raises>>
  BY DEF Skip
<1>2. troubles \subseteq troubles' /\ troubles' \subseteq Trouble
  BY DEF Skip, Suffer, IInv, TypeOK, Trouble
<1>3. disturbed' = disturbed \cup ({e.key} \cap Alarm)
  BY <1>1 DEF Disturb
<1>4. OrphanInv' /\ \A k : RowFires(k)' <=> RowFires(k)
  BY <1>1, OrphanFrame DEF RowFires
<1>5. TypeOK'
  BY <1>1, <1>2, <1>3, FinishType DEF IInv, TypeOK
<1>6. TodoInv' /\ AnnounceInv' /\ NewestInv'
  BY <1>1, <1>2, FinishTodo, FinishAnnounce, FinishNewest
<1>7. RowInv'
  BY <1>1, <1>3, <1>4, FinishRow
<1>8. QED
  BY <1>4, <1>5, <1>6, <1>7 DEF IInv

\* Announcing a row changes nothing that the engine or the deletion looks at.
LEMMA DispatchRows ==
  ASSUME IInv, NEW w \in Writer, NEW e \in todo[w], Dispatch(w, e)
  PROVE  /\ e.key \in Key /\ Announcing(w, e.key)
         /\ id[w] \in DOMAIN rows[e.key]
         /\ rows' \in [Key -> Seq(Row)]
         /\ \A k \in Key :
              /\ DOMAIN rows'[k] = DOMAIN rows[k]
              /\ \A i \in DOMAIN rows[k] :
                   /\ rows'[k][i].state = rows[k][i].state
                   /\ rows'[k][i].late = rows[k][i].late
                   /\ rows'[k][i].announced =
                        IF k = e.key /\ i = id[w] THEN 1 ELSE rows[k][i].announced
<1>1. /\ pc[w] = "dispatch" /\ Current(w, e)
      /\ rows' = [rows EXCEPT ![e.key][id[w]].announced = @ + 1]
  BY DEF Dispatch
<1>2. e.key \in Key
  BY DEF IInv, TypeOK, Event
<1>3. Announcing(w, e.key)
  BY <1>1 DEF Announcing
<1>4. id[w] \in DOMAIN rows[e.key] /\ rows[e.key][id[w]].announced = 0
  BY <1>2, <1>3 DEF IInv, AnnounceInv
<1>5. rows[e.key] \in Seq(Row)
  BY <1>2 DEF IInv, TypeOK
<1>6. rows[e.key][id[w]] \in Row
  BY <1>4, <1>5
<1> DEFINE row == [rows[e.key][id[w]] EXCEPT !.announced = @ + 1]
           new == [rows[e.key] EXCEPT ![id[w]] = row]
<1>7. /\ row \in Row /\ row.announced = 1
      /\ row.state = rows[e.key][id[w]].state /\ row.late = rows[e.key][id[w]].late
  BY <1>4, <1>6 DEF Row
<1>8. rows' = [rows EXCEPT ![e.key] = new]
  BY <1>1
<1> HIDE DEF row
<1>9. /\ new \in Seq(Row) /\ DOMAIN new = DOMAIN rows[e.key]
      /\ \A i \in DOMAIN rows[e.key] : new[i] = IF i = id[w] THEN row ELSE rows[e.key][i]
  BY <1>4, <1>5, <1>7
<1> HIDE DEF new
<1>10. rows' \in [Key -> Seq(Row)] /\ rows'[e.key] = new /\ \A k \in Key \ {e.key} : rows'[k] = rows[k]
  BY <1>2, <1>8, <1>9 DEF IInv, TypeOK
<1>11. QED
  BY <1>2, <1>3, <1>4, <1>7, <1>9, <1>10

LEMMA DispatchAnnounce ==
  ASSUME IInv, NEW w \in Writer, NEW e \in todo[w], Dispatch(w, e)
  PROVE  AnnounceInv'
<1>1. /\ Current(w, e) /\ Finish(w, e) /\ UNCHANGED troubles
      /\ id' = [id EXCEPT ![w] = 0]
  BY DEF Dispatch, counts
<1>2. \A v \in Writer \ {w} : id'[v] = id[v]
  BY <1>1 DEF IInv, TypeOK
<1>3. /\ \A k \in Key : ~Announcing(w, k)'
      /\ \A v \in Writer \ {w}, k \in Key : Announcing(v, k)' <=> Announcing(v, k)
  <2>1. PICK to \in {"write", "status", "recheck", "idle"} : pc' = [pc EXCEPT ![w] = to]
    BY <1>1, FinishTodo
  <2>2. \A v \in Writer \ {w} : todo'[v] = todo[v]
    BY <1>1, FinishTodo DEF IInv, TypeOK
  <2>3. QED
    BY <2>1, <2>2 DEF IInv, TypeOK, Announcing, Current
<1>4. \A k \in Key : Announcing(w, k) => k = e.key
  BY <1>1, CurrentUnique DEF Announcing, IInv
<1>5. \A v \in Writer, k \in Key : Announcing(v, k)' =>
        id'[v] \in DOMAIN rows'[k] /\ rows'[k][id'[v]].announced = 0
  <2>1. SUFFICES ASSUME NEW v \in Writer, NEW k \in Key, Announcing(v, k)'
                 PROVE  id'[v] \in DOMAIN rows'[k] /\ rows'[k][id'[v]].announced = 0
    OBVIOUS
  <2>2. v # w /\ Announcing(v, k)
    BY <1>3, <2>1
  <2>3. id[v] \in DOMAIN rows[k] /\ rows[k][id[v]].announced = 0
    BY <2>2 DEF IInv, AnnounceInv
  <2>4. ~(k = e.key /\ id[v] = id[w])
    BY <2>2, DispatchRows DEF IInv, AnnounceInv
  <2>5. QED
    BY <1>2, <2>2, <2>3, <2>4, DispatchRows
<1>6. \A u \in Writer, v \in Writer, k \in Key :
        Announcing(u, k)' /\ Announcing(v, k)' /\ id'[u] = id'[v] => u = v
  BY <1>2, <1>3 DEF IInv, AnnounceInv
<1>7. \A k \in Key : \A i \in DOMAIN rows'[k] :
        \/ rows'[k][i].announced = 1
        \/ /\ rows'[k][i].announced = 0
           /\ \/ "restart" \in troubles'
              \/ \E v \in Writer : Announcing(v, k)' /\ id'[v] = i
  <2>1. SUFFICES ASSUME NEW k \in Key, NEW i \in DOMAIN rows'[k], rows'[k][i].announced # 1
                 PROVE  /\ rows'[k][i].announced = 0
                        /\ \/ "restart" \in troubles'
                           \/ \E v \in Writer : Announcing(v, k)' /\ id'[v] = i
    OBVIOUS
  <2>2. /\ i \in DOMAIN rows[k] /\ ~(k = e.key /\ i = id[w])
        /\ rows'[k][i].announced = rows[k][i].announced
    BY <2>1, DispatchRows
  <2>3. ASSUME NEW v \in Writer, Announcing(v, k), id[v] = i
        PROVE  Announcing(v, k)' /\ id'[v] = i
    BY <1>2, <1>3, <1>4, <2>2, <2>3
  <2>4. QED
    BY <1>1, <2>1, <2>2, <2>3 DEF IInv, AnnounceInv
<1>8. QED
  BY <1>5, <1>6, <1>7 DEF AnnounceInv

LEMMA DispatchInv ==
  ASSUME IInv, NEW w \in Writer, NEW e \in todo[w], Dispatch(w, e)
  PROVE  IInv'
<1>1. /\ pc[w] = "dispatch" /\ Current(w, e) /\ Finish(w, e)
      /\ id' = [id EXCEPT ![w] = 0]
      /\ UNCHANGED <<firing, host, alive, deletion, histories, counts>>
  BY DEF Dispatch
<1>2. TypeOK'
  <2>1. id' \in [Writer -> Nat]
    BY <1>1 DEF IInv, TypeOK
  <2>2. rows' \in [Key -> Seq(Row)]
    BY DispatchRows
  <2>3. QED
    BY <1>1, <2>1, <2>2, FinishType DEF IInv, TypeOK, counts, histories
<1>3. TodoInv' /\ NewestInv'
  BY <1>1, FinishTodo, FinishNewest DEF histories
<1>4. AnnounceInv'
  BY DispatchAnnounce
<1>5. OrphanInv'
  BY <1>1, DispatchRows DEF IInv, OrphanInv
<1>6. \A k \in Key : RowFires(k)' <=> RowFires(k)
  <2>1. \A k \in Key :
          /\ DOMAIN rows'[k] = DOMAIN rows[k]
          /\ \A i \in DOMAIN rows[k] : rows'[k][i].state = rows[k][i].state
    BY DispatchRows
  <2>2. QED
    BY <2>1 DEF RowFires
<1>7. ASSUME e.key \in Alarm \ disturbed' PROVE RowOK(e.key)'
  <2>1. RowOK(e.key)
    BY <1>1, <1>7 DEF IInv, RowInv, histories
  <2>2. w \in Pending(e.key)
    BY DEF Pending, Keys
  <2>3. Pending(e.key) = {w} /\ <<w, e.key>> \in newest /\ RowFires(e.key)
    BY <1>1, <2>1, <2>2 DEF RowOK, Pending
  <2>4. e.event = "firing"
    BY <1>1, CurrentFires DEF IInv
  <2>5. firing[e.key]
    BY <1>7, <2>3, <2>4 DEF IInv, NewestInv
  <2>6. Pending(e.key)' = {}
    BY <1>1, <2>3, FinishPending
  <2>7. QED
    BY <1>1, <1>6, <1>7, <2>3, <2>5, <2>6, KeyFacts DEF RowOK
<1>8. RowInv'
  BY <1>1, <1>6, <1>7, FinishRow, KeyFacts DEF histories
<1>9. QED
  BY <1>2, <1>3, <1>4, <1>5, <1>8 DEF IInv

LEMMA WriteInv ==
  ASSUME IInv, NEW w \in Writer, Write(w)
  PROVE  IInv'
BY UpdateInv, InsertInv, CollideInv, RefreshInv, DispatchInv, ResolveInv, SkipInv DEF Write

-----------------------------------------------------------------------------
(* A report passes the engine *)

\* What the steps of an alarm's life mean for the events that are written.
LEMMA LifeFacts ==
  ASSUME NEW step \in Life
  PROVE  /\ step.before \in BOOLEAN /\ step.after \in BOOLEAN
         /\ step.event \notin Written => step.after = step.before
         /\ step.event = "firing" => step.after
         /\ step.event = "recovered" => ~step.after
BY DEF Life, Engine!Life, Written

LEMMA ProcessInv ==
  ASSUME IInv, NEW r \in Report, Process(r)
  PROVE  IInv'
<1>1. PICK step \in [Alarm -> Life] :
       /\ \A a \in Alarm : step[a].before = firing[a]
       /\ firing' = [a \in Alarm |-> step[a].after]
       /\ LET events == {[key |-> a, event |-> step[a].event] :
                            a \in {b \in Alarm : step[b].event \in Written}}
          IN  /\ IF \E e \in events : e.event = "firing"
                 THEN raises < MaxRaises /\ raises' = raises + 1 ELSE UNCHANGED raises
              /\ todo' = [todo EXCEPT ![r] = events]
              /\ Go(r, IF events = {} THEN "status" ELSE "write")
              /\ newest' = {x \in newest : x[2] \notin Keys(events)} \cup ({r} \X Keys(events))
              /\ Disturb({a \in Keys(events) : Pending(a) # {}})
  BY DEF Process
<1>2. pc[r] = "idle" /\ UNCHANGED <<rows, id, host, alive, deletion, troubles>>
  BY DEF Process
<1> DEFINE loud == {a \in Alarm : step[a].event \in Written}
           events == {[key |-> a, event |-> step[a].event] : a \in loud}
           to == IF events = {} THEN "status" ELSE "write"
<1>3. \A a \in Alarm :
        /\ step[a].after \in BOOLEAN
        /\ step[a].event \notin Written => step[a].after = firing[a]
        /\ step[a].event = "firing" => step[a].after
        /\ step[a].event = "recovered" => ~step[a].after
  <2>1. \A a \in Alarm : step[a] \in Life
    BY <1>1
  <2>2. QED
    BY <1>1, <2>1, LifeFacts
<1>4. /\ events \subseteq Event /\ Keys(events) = loud /\ loud \subseteq Alarm
      /\ \A e \in events : e.key \in loud /\ e.event = step[e.key].event
  <2>1. \A e \in events : e.key \in loud /\ e.event = step[e.key].event /\ e \in Event
    BY KeyFacts DEF Event
  <2>2. ASSUME NEW a \in loud PROVE a \in Keys(events)
    <3>1. [key |-> a, event |-> step[a].event] \in events
      OBVIOUS
    <3>2. QED
      BY <3>1 DEF Keys
  <2> HIDE DEF events
  <2>3. QED
    BY <2>1, <2>2 DEF Keys
<1>5. /\ firing' = [a \in Alarm |-> step[a].after]
      /\ todo' = [todo EXCEPT ![r] = events]
      /\ pc' = [pc EXCEPT ![r] = to]
      /\ newest' = {x \in newest : x[2] \notin loud} \cup ({r} \X loud)
      /\ disturbed' = disturbed \cup {a \in loud : Pending(a) # {}}
  BY <1>1, <1>4 DEF Go, Disturb
<1>6. to \in {"status", "write"} /\ (to = "status" => events = {})
  OBVIOUS
<1> HIDE DEF events, to
<1>7. /\ r \in Writer /\ r # Monitor /\ todo[r] = {}
      /\ todo'[r] = events /\ pc'[r] = to
      /\ \A w \in Writer \ {r} : todo'[w] = todo[w] /\ pc'[w] = pc[w]
  BY <1>2, <1>5, AlertingAssumption DEF IInv, TypeOK, TodoInv, Writer
<1>8. \A w \in Writer, a \in Alarm : <<w, a>> \in newest' <=>
        IF a \in loud THEN w = r ELSE <<w, a>> \in newest
  BY <1>5, <1>7
<1>9. \A a \in Alarm : firing'[a] = step[a].after
  BY <1>5
<1>10. TypeOK'
  <2>1. firing' \in [Alarm -> BOOLEAN]
    BY <1>3, <1>5
  <2>2. todo' \in [Writer -> SUBSET Event]
    BY <1>4, <1>5 DEF IInv, TypeOK
  <2>3. pc' \in [Writer -> {"idle", "write", "insert", "refresh", "dispatch",
                            "status", "offline", "recheck"}]
    BY <1>5, <1>6 DEF IInv, TypeOK
  <2>4. newest' \subseteq Report \X Alarm /\ disturbed' \subseteq Alarm
    BY <1>5 DEF IInv, TypeOK
  <2>5. raises' \in 0..MaxRaises
    BY <1>1, AlertingAssumption DEF IInv, TypeOK
  <2>6. QED
    BY <1>2, <2>1, <2>2, <2>3, <2>4, <2>5 DEF IInv, TypeOK
<1>11. TodoInv'
  <2>1. \A w \in Writer \ {r} :
          /\ \A e \in todo'[w], f \in todo'[w] : e.key = f.key => e = f
          /\ pc'[w] \notin {"write", "insert", "refresh", "dispatch"} => todo'[w] = {}
          /\ pc'[w] \in {"insert", "refresh", "dispatch"} =>
               \E e \in todo'[w] : Current(w, e)' /\ e.event = "firing"
          /\ \A e \in todo'[w] : e.key = Offline <=> w = Monitor
    BY <1>7 DEF IInv, TodoInv, Current
  <2>2. /\ \A e \in events : e.key # Offline
        /\ \A e \in events, f \in events : e.key = f.key => e = f
    <3>1. \A e \in events : e \in [key : Key, event : Written]
      BY <1>4 DEF Event
    <3>2. QED
      BY <1>4, <3>1, KeyFacts
  <2>3. QED
    BY <1>6, <1>7, <2>1, <2>2 DEF TodoInv
<1>12. AnnounceInv' /\ OrphanInv'
  <2>1. \A v \in Writer, k \in Key : Announcing(v, k)' <=> Announcing(v, k)
    BY <1>2, <1>5, <1>6, <1>7, NoDispatch
  <2>2. QED
    BY <1>2, <2>1, AnnounceFrame, OrphanFrame
<1>13. NewestInv'
  <2>1. SUFFICES ASSUME NEW w \in Writer, NEW a \in Alarm, <<w, a>> \in newest',
                        NEW e \in todo'[w], e.key = a
                 PROVE  firing'[a] <=> e.event = "firing"
    BY DEF NewestInv
  <2>2. CASE a \in loud
    <3>1. e \in events /\ e.event = step[a].event /\ e.event \in Written
      BY <1>4, <1>7, <1>8, <2>1, <2>2
    <3>2. QED
      BY <1>3, <1>9, <3>1 DEF Written
  <2>3. CASE a \notin loud
    <3>1. firing'[a] = firing[a]
      BY <1>3, <1>9, <2>3
    <3>2. w # r /\ <<w, a>> \in newest
      BY <1>4, <1>7, <1>8, <2>1, <2>3
    <3>3. QED
      BY <1>7, <2>1, <3>1, <3>2 DEF IInv, NewestInv
  <2>4. QED
    BY <2>2, <2>3
<1>14. ASSUME NEW a \in Alarm \ disturbed'
       PROVE  RowOK(a)'
  <2>1. RowOK(a) /\ (a \in loud => Pending(a) = {})
    BY <1>5, <1>14 DEF IInv, RowInv
  <2>2. ASSUME NEW e \in events
        PROVE  pc'[r] = "write"
    BY <1>6, <1>7, <2>2
  <2>3. \A w \in Writer : w \in Pending(a)' <=> w \in Pending(a) \/ (w = r /\ a \in loud)
    BY <1>4, <1>7 DEF Pending, Keys
  <2>4. CASE a \in loud
    <3>1. Pending(a)' = {r} /\ <<r, a>> \in newest'
      BY <1>7, <1>8, <2>1, <2>3, <2>4 DEF Pending
    <3>2. QED
      BY <1>7, <2>2, <3>1 DEF RowOK
  <2>5. CASE a \notin loud
    <3>1. Pending(a)' = Pending(a)
      BY <2>3, <2>5 DEF Pending
    <3>2. firing'[a] = firing[a] /\ (RowFires(a)' <=> RowFires(a))
      BY <1>2, <1>3, <1>9, <2>5 DEF RowFires
    <3>3. \A w \in Writer : <<w, a>> \in newest => <<w, a>> \in newest'
      BY <1>8, <2>5
    <3>4. \A w \in Writer : \A e \in todo'[w] : Current(w, e)' =>
            pc'[w] = "write" \/ (Current(w, e) /\ pc'[w] = pc[w])
      BY <1>7, <2>2 DEF Current
    <3>5. QED
      BY <2>1, <3>1, <3>2, <3>3, <3>4, RowFrame
  <2>6. QED
    BY <2>4, <2>5
<1>15. QED
  BY <1>10, <1>11, <1>12, <1>13, <1>14 DEF IInv, RowInv

-----------------------------------------------------------------------------
(* The monitor, the deletion of the host and the environment *)

LEMMA StatusInv ==
  ASSUME IInv, NEW r \in Report, Status(r)
  PROVE  IInv'
<1>1. /\ pc[r] = "status" /\ host' \in {Seen, host} /\ pc' = [pc EXCEPT ![r] = "idle"]
      /\ UNCHANGED <<firing, rows, todo, id, alive, deletion, histories, counts>>
  BY DEF Status, Go
<1>2. TypeOK'
  BY <1>1 DEF IInv, TypeOK, Seen, histories, counts
<1>3. OrphanInv'
  BY <1>1, OrphanFrame DEF Seen
<1>4. \A w \in Writer : pc'[w] = pc[w] \/ (pc[w] \notin Writing /\ pc'[w] \notin Writing)
  BY <1>1 DEF IInv, TypeOK, Writing
<1>5. TodoInv' /\ AnnounceInv' /\ NewestInv' /\ RowInv'
  BY <1>1, <1>4, OutsideInv DEF histories, counts
<1>6. QED
  BY <1>2, <1>3, <1>5 DEF IInv

\* Steps that change neither rows nor writers.
LEMMA HostInv ==
  ASSUME IInv, Heartbeat \/ Age \/ FindHost \/ DeleteHost \/ Die \/ Revive
  PROVE  IInv'
<1>1. /\ UNCHANGED <<server, rows, histories, raises>>
      /\ troubles \subseteq troubles' /\ troubles' \subseteq Trouble
  BY DEF Heartbeat, Age, FindHost, DeleteHost, Die, Revive, Suffer, counts,
         IInv, TypeOK, Trouble
<1>2. /\ host' \in {"unknown", "online", "stale", "offline", "gone"} /\ alive' \in BOOLEAN
      /\ deletion' \in {"no", "found", "closed"}
      /\ deletion' = "closed" \/ host' = "gone" => deletion = "closed" \/ host = "gone"
  BY DEF Heartbeat, Age, FindHost, DeleteHost, Die, Revive, Seen, IInv, TypeOK
<1>3. TypeOK'
  BY <1>1, <1>2 DEF IInv, TypeOK, server, histories
<1>4. OrphanInv'
  BY <1>1, <1>2, OrphanFrame
<1>5. TodoInv' /\ AnnounceInv' /\ NewestInv' /\ RowInv'
  BY <1>1, OutsideInv DEF server, histories
<1>6. QED
  BY <1>3, <1>4, <1>5 DEF IInv

LEMMA TickInv ==
  ASSUME IInv, Tick
  PROVE  IInv'
<1>1. /\ pc[Monitor] = "idle" /\ pc' = [pc EXCEPT ![Monitor] = "offline"]
      /\ UNCHANGED <<firing, rows, todo, id, host, alive, deletion, histories, counts>>
  BY DEF Tick, Go
<1>2. TypeOK'
  BY <1>1 DEF IInv, TypeOK, histories, counts
<1>3. OrphanInv'
  BY <1>1, OrphanFrame
<1>4. \A w \in Writer : pc'[w] = pc[w] \/ (pc[w] \notin Writing /\ pc'[w] \notin Writing)
  BY <1>1 DEF IInv, TypeOK, Writing
<1>5. TodoInv' /\ AnnounceInv' /\ NewestInv' /\ RowInv'
  BY <1>1, <1>4, OutsideInv DEF histories, counts
<1>6. QED
  BY <1>2, <1>3, <1>5 DEF IInv

\* The monitor begins to write its alert; no alarm notices.
LEMMA MonitorInv ==
  ASSUME IInv, NEW event \in Written, MonitorWrites(event), pc[Monitor] \notin Writing,
         UNCHANGED <<firing, rows, id, newest, disturbed>>, troubles \subseteq troubles'
  PROVE  /\ todo' \in [Writer -> SUBSET Event]
         /\ pc' \in [Writer -> {"idle", "write", "insert", "refresh", "dispatch",
                                "status", "offline", "recheck"}]
         /\ TodoInv' /\ AnnounceInv' /\ NewestInv' /\ RowInv'
<1> DEFINE alert == [key |-> Offline, event |-> event]
<1>1. alert \in Event /\ alert.key = Offline
  BY KeyFacts DEF Event
<1>2. todo' = [todo EXCEPT ![Monitor] = {alert}] /\ pc' = [pc EXCEPT ![Monitor] = "write"]
  BY DEF MonitorWrites, Go
<1> HIDE DEF alert
<1>3. /\ Monitor \in Writer /\ todo[Monitor] = {}
      /\ todo'[Monitor] = {alert} /\ pc'[Monitor] = "write"
      /\ \A w \in Writer \ {Monitor} : todo'[w] = todo[w] /\ pc'[w] = pc[w]
  BY <1>2 DEF IInv, TypeOK, TodoInv, Writer, Writing
<1>4. todo' \in [Writer -> SUBSET Event]
  BY <1>1, <1>2 DEF IInv, TypeOK
<1>5. pc' \in [Writer -> {"idle", "write", "insert", "refresh", "dispatch",
                          "status", "offline", "recheck"}]
  BY <1>2 DEF IInv, TypeOK
<1>6. TodoInv'
  <2>1. \A w \in Writer \ {Monitor} :
          /\ \A e \in todo'[w], f \in todo'[w] : e.key = f.key => e = f
          /\ pc'[w] \notin {"write", "insert", "refresh", "dispatch"} => todo'[w] = {}
          /\ pc'[w] \in {"insert", "refresh", "dispatch"} =>
               \E e \in todo'[w] : Current(w, e)' /\ e.event = "firing"
          /\ \A e \in todo'[w] : e.key = Offline <=> w = Monitor
    BY <1>3 DEF IInv, TodoInv, Current
  <2>2. QED
    BY <1>1, <1>3, <2>1 DEF TodoInv
<1>7. AnnounceInv'
  <2>1. pc[Monitor] # "dispatch"
    BY DEF Writing
  <2>2. \A v \in Writer, k \in Key : Announcing(v, k)' <=> Announcing(v, k)
    BY <1>2, <1>3, <2>1, NoDispatch
  <2>3. QED
    BY <2>2, AnnounceFrame
<1>8. NewestInv'
  BY <1>1, <1>3, KeyFacts DEF IInv, NewestInv
<1>9. ASSUME NEW a \in Alarm \ disturbed'
      PROVE  RowOK(a)'
  <2>1. RowOK(a) /\ (RowFires(a)' <=> RowFires(a))
    BY <1>9 DEF IInv, RowInv, RowFires
  <2>2. Pending(a)' = Pending(a)
    BY <1>1, <1>3, KeyFacts DEF Pending, Keys
  <2>3. \A w \in Writer : \A e \in todo'[w] : Current(w, e)' =>
          pc'[w] = "write" \/ (Current(w, e) /\ pc'[w] = pc[w])
    BY <1>3 DEF Current
  <2>4. QED
    BY <2>1, <2>2, <2>3, RowFrame
<1>10. QED
  BY <1>4, <1>5, <1>6, <1>7, <1>8, <1>9 DEF RowInv

LEMMA MarkOfflineInv ==
  ASSUME IInv, MarkOffline
  PROVE  IInv'
<1>1. /\ pc[Monitor] = "offline" /\ MonitorWrites("firing")
      /\ UNCHANGED <<firing, rows, id, alive, deletion, histories, raises>>
      /\ host' \in {host, "offline"}
      /\ troubles \subseteq troubles' /\ troubles' \subseteq Trouble
  BY DEF MarkOffline, RaiseAgentOffline, Suffer, IInv, TypeOK, Trouble
<1>2. /\ todo' \in [Writer -> SUBSET Event]
      /\ pc' \in [Writer -> {"idle", "write", "insert", "refresh", "dispatch",
                             "status", "offline", "recheck"}]
      /\ TodoInv' /\ AnnounceInv' /\ NewestInv' /\ RowInv'
  BY <1>1, MonitorInv DEF histories, Written, Writing
<1>3. TypeOK'
  BY <1>1, <1>2 DEF IInv, TypeOK, histories
<1>4. OrphanInv'
  BY <1>1, OrphanFrame
<1>5. QED
  BY <1>2, <1>3, <1>4 DEF IInv

LEMMA RecheckInv ==
  ASSUME IInv, Recheck
  PROVE  IInv'
<1>1. /\ pc[Monitor] \in {"recheck", "idle"}
      /\ UNCHANGED <<firing, rows, id, host, alive, deletion, histories, raises>>
      /\ troubles \subseteq troubles' /\ troubles' \subseteq Trouble
      /\ MonitorWrites("recovered") \/ (UNCHANGED todo /\ pc' = [pc EXCEPT ![Monitor] = "idle"])
  BY DEF Recheck, ResolveAgentOffline, Suffer, Go, IInv, TypeOK, Trouble
<1>2. /\ todo' \in [Writer -> SUBSET Event]
      /\ pc' \in [Writer -> {"idle", "write", "insert", "refresh", "dispatch",
                             "status", "offline", "recheck"}]
      /\ TodoInv' /\ AnnounceInv' /\ NewestInv' /\ RowInv'
  <2>1. CASE MonitorWrites("recovered")
    BY <1>1, <2>1, MonitorInv DEF histories, Written, Writing
  <2>2. CASE UNCHANGED todo /\ pc' = [pc EXCEPT ![Monitor] = "idle"]
    <3>1. \A w \in Writer : pc'[w] = pc[w] \/ (pc[w] \notin Writing /\ pc'[w] \notin Writing)
      BY <1>1, <2>2 DEF IInv, TypeOK, Writing
    <3>2. TodoInv' /\ AnnounceInv' /\ NewestInv' /\ RowInv'
      BY <1>1, <2>2, <3>1, OutsideInv DEF histories
    <3>3. QED
      BY <2>2, <3>2 DEF IInv, TypeOK
  <2>3. QED
    BY <1>1, <2>1, <2>2
<1>3. TypeOK'
  BY <1>1, <1>2 DEF IInv, TypeOK, histories
<1>4. OrphanInv'
  BY <1>1, OrphanFrame
<1>5. QED
  BY <1>2, <1>3, <1>4 DEF IInv

\* ResolveByHost closes every row: an alarm that still fires is disturbed, and
\* for one that does not there is no firing event on the way.
LEMMA CloseRowsInv ==
  ASSUME IInv, CloseRows
  PROVE  IInv'
<1>1. UNCHANGED <<server, host, alive, newest, raises>>
  BY DEF CloseRows
<1>2. CASE /\ rows' = Closed(Key) /\ deletion' = "closed" /\ UNCHANGED troubles
           /\ Disturb({a \in Alarm : firing[a]})
  <2>1. /\ rows' \in [Key -> Seq(Row)]
        /\ \A k \in Key :
             /\ DOMAIN rows'[k] = DOMAIN rows[k]
             /\ \A i \in DOMAIN rows[k] :
                  rows'[k][i].announced = rows[k][i].announced /\ rows'[k][i].state = "resolved"
    BY <1>2, ClosedFacts DEF IInv
  <2>2. disturbed' = disturbed \cup {a \in Alarm : firing[a]}
    BY <1>2 DEF Disturb
  <2>3. TypeOK'
    BY <1>1, <1>2, <2>1, <2>2 DEF IInv, TypeOK, server
  <2>4. TodoInv' /\ NewestInv'
    BY <1>1 DEF IInv, TodoInv, NewestInv, Current, server
  <2>5. AnnounceInv'
    <3>1. \A w \in Writer, k \in Key : Announcing(w, k)' <=> Announcing(w, k)
      BY <1>1 DEF Announcing, Current, server
    <3>2. QED
      BY <1>1, <1>2, <2>1, <3>1, AnnounceFrame DEF server
  <2>6. OrphanInv' /\ \A k \in Key : ~RowFires(k)'
    BY <2>1 DEF OrphanInv, RowFires
  <2>7. ASSUME NEW a \in Alarm \ disturbed'
        PROVE  RowOK(a)'
    <3>1. RowOK(a) /\ ~firing[a] /\ ~RowFires(a)'
      BY <2>2, <2>6, <2>7, KeyFacts DEF IInv, RowInv
    <3>2. Pending(a)' = Pending(a)
      BY <1>1 DEF Pending, Keys, server
    <3>3. ASSUME NEW w \in Pending(a), NEW e \in todo[w], Current(w, e), e.key = a
          PROVE  pc[w] # "dispatch"
      <4>1. w \in Writer /\ <<w, a>> \in newest
        BY <3>1 DEF RowOK, Pending
      <4>2. e.event # "firing"
        BY <3>1, <3>3, <4>1 DEF IInv, NewestInv
      <4>3. QED
        BY <3>3, <4>1, <4>2, CurrentFires DEF IInv
    <3>4. ASSUME NEW w \in Pending(a)', NEW e \in todo'[w], Current(w, e)', e.key = a
          PROVE  /\ w \in Pending(a) /\ e \in todo[w] /\ Current(w, e) /\ pc'[w] = pc[w]
      BY <1>1, <3>2, <3>4 DEF Current, server
    <3>5. ASSUME NEW w \in Pending(a)'
          PROVE  (\A v \in Pending(a)' : v = w) /\ <<w, a>> \in newest'
      BY <1>1, <3>1, <3>2 DEF RowOK
    <3>6. ASSUME NEW w \in Pending(a)', NEW e \in todo'[w], Current(w, e)', e.key = a
          PROVE  pc'[w] # "refresh" /\ pc'[w] # "dispatch"
      BY <3>1, <3>3, <3>4, <3>6 DEF RowOK
    <3>7. Pending(a)' = {} => (RowFires(a)' <=> firing'[a])
      BY <1>1, <3>1 DEF server
    <3>8. QED
      BY <3>1, <3>5, <3>6, <3>7 DEF RowOK
  <2>8. QED
    BY <2>3, <2>4, <2>5, <2>6, <2>7 DEF IInv, RowInv
<1>3. CASE Suffer("failure") /\ deletion' = "no" /\ UNCHANGED <<rows, disturbed>>
  <2>1. troubles \subseteq troubles' /\ troubles' \subseteq Trouble
    BY <1>3 DEF Suffer, IInv, TypeOK, Trouble
  <2>2. TypeOK'
    BY <1>1, <1>3, <2>1 DEF IInv, TypeOK, server
  <2>3. OrphanInv'
    BY <1>1, <1>3, OrphanFrame
  <2>4. TodoInv' /\ AnnounceInv' /\ NewestInv' /\ RowInv'
    BY <1>1, <1>3, <2>1, OutsideInv DEF server
  <2>5. QED
    BY <2>2, <2>3, <2>4 DEF IInv
<1>4. QED
  BY <1>2, <1>3 DEF CloseRows

\* After a restart the engine knows no alarm, and nobody writes.
LEMMA RestartInv ==
  ASSUME IInv, Restart
  PROVE  IInv'
<1>1. /\ firing' = [a \in Alarm |-> FALSE]
      /\ pc' = [w \in Writer |-> "idle"]
      /\ todo' = [w \in Writer |-> {}]
      /\ id' = [w \in Writer |-> 0]
      /\ deletion' = "no" /\ newest' = {}
      /\ disturbed' = {a \in Alarm : Matching(a) # {}}
      /\ UNCHANGED <<rows, host, alive, raises>>
  BY DEF Restart
<1>2. troubles' \subseteq Trouble /\ "restart" \in troubles'
  BY DEF Restart, Suffer, IInv, TypeOK, Trouble
<1>3. TypeOK'
  BY <1>1, <1>2 DEF IInv, TypeOK
<1>4. TodoInv' /\ NewestInv'
  BY <1>1 DEF TodoInv, NewestInv
<1>5. AnnounceInv'
  <2>1. \A w \in Writer, k \in Key : ~Announcing(w, k)'
    BY <1>1 DEF Announcing
  <2>2. QED
    BY <1>1, <1>2, <2>1 DEF IInv, AnnounceInv
<1>6. OrphanInv'
  BY <1>1, OrphanFrame
<1>7. ASSUME NEW a \in Alarm \ disturbed'
      PROVE  RowOK(a)'
  <2>1. ~RowFires(a)' /\ Pending(a)' = {} /\ ~firing'[a]
    BY <1>1, <1>7, MatchingFires DEF RowFires, Pending, Keys
  <2>2. QED
    BY <2>1 DEF RowOK
<1>8. QED
  BY <1>3, <1>4, <1>5, <1>6, <1>7 DEF IInv, RowInv

LEMMA StepIInv == IInv /\ [Next]_vars => IInv'
<1>1. SUFFICES ASSUME IInv, [Next]_vars PROVE IInv'
  OBVIOUS
<1>2. CASE Next
  BY <1>1, <1>2, ProcessInv, StatusInv, WriteInv, HostInv, TickInv, MarkOfflineInv,
     RecheckInv, CloseRowsInv, RestartInv DEF Next
<1>3. CASE UNCHANGED vars
  <2>1. UNCHANGED <<server, rows, host, alive, deletion, histories, counts>>
    BY <1>3 DEF vars
  <2>2. TypeOK'
    BY <1>1, <2>1 DEF IInv, TypeOK, server, histories, counts
  <2>3. OrphanInv'
    BY <1>1, <2>1, OrphanFrame
  <2>4. TodoInv' /\ AnnounceInv' /\ NewestInv' /\ RowInv'
    BY <1>1, <2>1, OutsideInv DEF server, histories, counts
  <2>5. QED
    BY <2>2, <2>3, <2>4 DEF IInv
<1>4. QED
  BY <1>1, <1>2, <1>3

-----------------------------------------------------------------------------
(* Theorems *)

\* The inductive invariant of the alert rows: what the writers hold, who
\* announces which row, and how the row of an alarm stands to its newest event.
THEOREM AlertingInvariant == Spec => []IInv
<1>1. Init => IInv
  BY InitIInv
<1>2. IInv /\ [Next]_vars => IInv'
  BY StepIInv
<1>3. QED
  BY <1>1, <1>2, PTL DEF Spec

\* A row of UpsertFiring is dispatched once, by the writer that created it.
THEOREM AlertingAnnouncesOnce == Spec => []AnnouncedOnce
<1>1. IInv => AnnouncedOnce
  <2>1. \A w \in Writer, k \in Key : Announcing(w, k) => pc[w] = "dispatch" /\ k \in Keys(todo[w])
    BY DEF Announcing, Keys
  <2>2. QED
    BY <2>1 DEF IInv, AnnounceInv, AnnouncedOnce
<1>2. QED
  BY <1>1, AlertingInvariant, PTL

\* However the statements of reports interleave and fail, the row of an alarm
\* agrees with the engine again as soon as its newest event has been written alone.
THEOREM AlertingRowFollowsEngine == Spec => []RowFollowsEngine
<1>1. IInv => RowFollowsEngine
  BY DEF IInv, RowInv, RowOK, RowFollowsEngine
<1>2. QED
  BY <1>1, AlertingInvariant, PTL

\* HostService.Delete leaves no firing row behind but one that a report
\* inserted between its two statements.
THEOREM AlertingOrphanOnlyByRace == Spec => []OrphanOnlyByRace
<1>1. IInv => OrphanOnlyByRace
  BY DEF IInv, OrphanInv, OrphanOnlyByRace
<1>2. QED
  BY <1>1, AlertingInvariant, PTL
=============================================================================
