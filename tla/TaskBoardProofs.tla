-------------------------- MODULE TaskBoardProofs ---------------------------
(***************************************************************************)
(* Theorems about TaskBoard, for any number of tasks, agents and attempts: *)
(* BoardInvariant is inductive, and the properties follow from it.         *)
(***************************************************************************)
EXTENDS TaskBoard, TLAPS

-----------------------------------------------------------------------------
(* Records, columns and statuses *)

LEMMA Columns == \A s \in Status : ColumnForStatus(s) \in Column
  BY DEF Status, Column, ColumnForStatus

\* The record of a task whose column is the one of its status.
InItsColumn == {r \in TaskRecord : r.column = ColumnForStatus(r.status)}

\* What updateTask leaves of a record, and that the column goes with the status.
LEMMA StatusSet ==
    ASSUME NEW r \in InItsColumn, NEW s \in Status
    PROVE  /\ WithStatus(r, s) \in InItsColumn
           /\ WithStatus(r, s).status = s
           /\ WithStatus(r, s).assignedTo = r.assignedTo /\ WithStatus(r, s).attempts = r.attempts
           /\ WithStatus(r, s).blockedBy = r.blockedBy /\ WithStatus(r, s).blocks = r.blocks
  BY Columns DEF InItsColumn, TaskRecord, WithStatus

\* Moving each task to the column of its record keeps the board in agreement.
LEMMA MovesTasks ==
    ASSUME TypeOK, BoardAgrees, NEW ts \in [DOMAIN tasks -> InItsColumn], Becomes(ts),
           UNCHANGED used, checked' \subseteq Task \X Task
    PROVE  TypeOK' /\ BoardAgrees'
  <1>1. tasks' = ts /\ DOMAIN tasks' = DOMAIN tasks BY DEF Becomes
  <1>2. \A t \in DOMAIN tasks : ts[t] \in TaskRecord /\ ts[t].column = ColumnForStatus(ts[t].status)
    BY DEF InItsColumn
  <1>3. ASSUME NEW c \in Column
        PROVE  columns'[c] = {t \in DOMAIN ts : ts[t].column = c} /\ columns'[c] \subseteq Task
    <2>1. columns[c] = {t \in DOMAIN tasks : tasks[t].column = c} BY DEF BoardAgrees
    <2>2. columns'[c] = (columns[c] \ {t \in DOMAIN ts : Exists(t) /\ ts[t].column # tasks[t].column})
            \union {t \in {x \in DOMAIN ts : Exists(x) /\ ts[x].column # tasks[x].column} : ts[t].column = c}
      BY DEF Becomes
    <2>3. DOMAIN tasks \subseteq Task BY DEF TypeOK
    <2> QED BY <1>1, <2>1, <2>2, <2>3 DEF Exists
  <1>4. columns' \in [Column -> SUBSET Task]
    <2>1. columns' = [c \in Column |-> columns'[c]] BY DEF Becomes
    <2> QED BY <1>3, <2>1
  <1>5. TypeOK' BY <1>1, <1>2, <1>4 DEF TypeOK
  <1>6. BoardAgrees' BY <1>1, <1>2, <1>3 DEF BoardAgrees
  <1> QED BY <1>5, <1>6

\* The tasks a call leaves on the board, each in the column of its status, with the
\* dependencies in both of their records.
SameDependencies(ts) ==
    \A t \in DOMAIN tasks :
      ts[t].blockedBy = tasks[t].blockedBy /\ ts[t].blocks = tasks[t].blocks

LEMMA EachInItsColumn ==
    ASSUME TypeOK, BoardAgrees
    PROVE  \A t \in DOMAIN tasks : tasks[t] \in InItsColumn
  BY DEF TypeOK, BoardAgrees, InItsColumn

\* One task gets a record with the dependencies of its old one.
LEMMA Updated ==
    ASSUME TypeOK, BoardAgrees, NEW t \in DOMAIN tasks, NEW r \in InItsColumn,
           r.blockedBy = tasks[t].blockedBy, r.blocks = tasks[t].blocks, Update(t, r)
    PROVE  \E ts \in [DOMAIN tasks -> InItsColumn] : Becomes(ts) /\ SameDependencies(ts)
  <1> DEFINE ts == [tasks EXCEPT ![t] = r]
  <1>1. tasks \in [DOMAIN tasks -> InItsColumn] BY EachInItsColumn DEF TypeOK
  <1>2. ts \in [DOMAIN tasks -> InItsColumn] BY <1>1
  <1>3. \A x \in DOMAIN tasks : ts[x] = IF x = t THEN r ELSE tasks[x] BY <1>1
  <1>4. SameDependencies(ts) BY <1>3 DEF SameDependencies
  <1>5. Becomes(ts) BY DEF Update
  <1> QED BY <1>2, <1>4, <1>5

\* The calls that leave the dependencies alone.
RecordCall ==
    \/ \E t \in Task, s \in ManualStatus : UpdateTask(t, s)
    \/ \E t \in Task, a \in Agent : AssignTask(t, a)
    \/ \E t \in Task : UnassignTask(t) \/ CompleteTask(t) \/ FailTask(t)

LEMMA RecordCallKeepsDependencies ==
    ASSUME TypeOK, BoardAgrees, RecordCall
    PROVE  \E ts \in [DOMAIN tasks -> InItsColumn] : Becomes(ts) /\ SameDependencies(ts)
  <1> DEFINE Goal == \E ts \in [DOMAIN tasks -> InItsColumn] : Becomes(ts) /\ SameDependencies(ts)
  <1>0. \A x \in DOMAIN tasks : tasks[x] \in InItsColumn BY EachInItsColumn
  <1>1. ASSUME NEW t \in Task, NEW s \in ManualStatus, UpdateTask(t, s) PROVE Goal
    <2>1. t \in DOMAIN tasks /\ s \in Status /\ Update(t, WithStatus(tasks[t], s))
      BY <1>1, BoardAssumption DEF UpdateTask, Exists
    <2> QED BY <1>0, <2>1, StatusSet, Updated
  <1>2. ASSUME NEW t \in Task, NEW a \in Agent, AssignTask(t, a) PROVE Goal
    <2> DEFINE w == WithStatus(tasks[t], "assigned")
    <2> DEFINE r == [w EXCEPT !.assignedTo = a]
    <2>1. t \in DOMAIN tasks /\ Update(t, r) BY <1>2 DEF AssignTask, Exists
    <2>2. w \in InItsColumn /\ w.blockedBy = tasks[t].blockedBy /\ w.blocks = tasks[t].blocks
      BY <1>0, <2>1, StatusSet DEF Status
    <2> HIDE DEF w
    <2>3. r \in InItsColumn /\ r.blockedBy = tasks[t].blockedBy /\ r.blocks = tasks[t].blocks
      BY <2>2 DEF InItsColumn, TaskRecord
    <2> QED BY <2>1, <2>3, Updated
  <1>3. ASSUME NEW t \in Task, UnassignTask(t) PROVE Goal
    <2>1. PICK s \in Status : Update(t, [WithStatus(tasks[t], s) EXCEPT !.assignedTo = Nobody])
      BY <1>3 DEF UnassignTask, Status
    <2> DEFINE w == WithStatus(tasks[t], s)
    <2> DEFINE r == [w EXCEPT !.assignedTo = Nobody]
    <2>2. t \in DOMAIN tasks /\ Update(t, r) BY <1>3, <2>1 DEF UnassignTask, Exists
    <2>3. w \in InItsColumn /\ w.blockedBy = tasks[t].blockedBy /\ w.blocks = tasks[t].blocks
      BY <1>0, <2>2, StatusSet
    <2> HIDE DEF w
    <2>4. r \in InItsColumn /\ r.blockedBy = tasks[t].blockedBy /\ r.blocks = tasks[t].blocks
      BY <2>3 DEF InItsColumn, TaskRecord
    <2> QED BY <2>2, <2>4, Updated
  <1>4. ASSUME NEW t \in Task, CompleteTask(t) PROVE Goal
    <2> DEFINE ts == [x \in DOMAIN tasks |->
                 IF x = t THEN WithStatus(tasks[t], "complete")
                 ELSE IF x \in Released(t) THEN WithStatus(tasks[x], "ready") ELSE tasks[x]]
    <2>1. t \in DOMAIN tasks /\ Becomes(ts) BY <1>4 DEF CompleteTask, Exists
    <2>2. \A x \in DOMAIN tasks :
            /\ ts[x] \in InItsColumn
            /\ ts[x].blockedBy = tasks[x].blockedBy /\ ts[x].blocks = tasks[x].blocks
      BY <1>0, <2>1, StatusSet DEF Status
    <2>3. ts \in [DOMAIN tasks -> InItsColumn] BY <2>2
    <2> HIDE DEF ts
    <2> QED BY <2>1, <2>2, <2>3 DEF SameDependencies
  <1>5. ASSUME NEW t \in Task, FailTask(t) PROVE Goal
    <2>1. t \in DOMAIN tasks BY <1>5 DEF FailTask, Exists
    <2>2. tasks[t].attempts \in 0 .. MaxAttempts /\ MaxAttempts \in 0 .. MaxAttempts
      BY <1>0, <2>1, BoardAssumption DEF InItsColumn, TaskRecord
    <2>3. CASE tasks[t].attempts + 1 >= MaxAttempts
      <3> DEFINE w == WithStatus(tasks[t], "failed")
      <3> DEFINE r == [w EXCEPT !.attempts = MaxAttempts]
      <3>1. Update(t, r) BY <1>5, <2>3 DEF FailTask
      <3>2. w \in InItsColumn /\ w.blockedBy = tasks[t].blockedBy /\ w.blocks = tasks[t].blocks
        BY <1>0, <2>1, StatusSet DEF Status
      <3> HIDE DEF w
      <3>3. r \in InItsColumn /\ r.blockedBy = tasks[t].blockedBy /\ r.blocks = tasks[t].blocks
        BY <2>2, <3>2 DEF InItsColumn, TaskRecord
      <3> QED BY <2>1, <3>1, <3>3, Updated
    <2>4. CASE ~ (tasks[t].attempts + 1 >= MaxAttempts)
      <3> DEFINE w == WithStatus(tasks[t], "ready")
      <3> DEFINE r == [w EXCEPT !.attempts = @ + 1, !.assignedTo = Nobody]
      <3>1. Update(t, r) BY <1>5, <2>4 DEF FailTask, Retry
      <3>2. /\ w \in InItsColumn /\ w.blockedBy = tasks[t].blockedBy /\ w.blocks = tasks[t].blocks
            /\ w.attempts = tasks[t].attempts
        BY <1>0, <2>1, StatusSet DEF Status
      <3>3. w.attempts + 1 \in 0 .. MaxAttempts BY <2>2, <2>4, <3>2, BoardAssumption
      <3> HIDE DEF w
      <3>4. r \in InItsColumn /\ r.blockedBy = tasks[t].blockedBy /\ r.blocks = tasks[t].blocks
        BY <3>2, <3>3 DEF InItsColumn, TaskRecord
      <3> QED BY <2>1, <3>1, <3>4, Updated
    <2> QED BY <2>3, <2>4
  <1> QED BY <1>1, <1>2, <1>3, <1>4, <1>5 DEF RecordCall

\* addDependency past its check, and removeDependency, change both records of one
\* dependency.
Rewritten(t, r, d, B) == [[tasks EXCEPT ![t] = r] EXCEPT ![d].blocks = B]

LEMMA DependencyWritten ==
    ASSUME TypeOK, BoardAgrees, NEW t \in DOMAIN tasks, NEW d \in DOMAIN tasks,
           NEW r \in InItsColumn, r.blocks = tasks[t].blocks, NEW B \in SUBSET Task
    PROVE  LET ts == Rewritten(t, r, d, B)
           IN
           /\ ts \in [DOMAIN tasks -> InItsColumn]
           /\ \A x \in DOMAIN tasks :
                /\ ts[x].blockedBy = IF x = t THEN r.blockedBy ELSE tasks[x].blockedBy
                /\ ts[x].blocks = IF x = d THEN B ELSE tasks[x].blocks
                /\ ts[x].status = IF x = t THEN r.status ELSE tasks[x].status
                /\ ts[x].assignedTo = IF x = t THEN r.assignedTo ELSE tasks[x].assignedTo
  <1>1. tasks \in [DOMAIN tasks -> InItsColumn] BY EachInItsColumn DEF TypeOK
  <1> DEFINE ts == Rewritten(t, r, d, B)
  <1> DEFINE u == [tasks EXCEPT ![t] = r]
  <1>2. u \in [DOMAIN tasks -> InItsColumn] /\ \A x \in DOMAIN tasks : u[x] = IF x = t THEN r ELSE tasks[x]
    BY <1>1
  <1>3. ts = [u EXCEPT ![d].blocks = B] BY DEF Rewritten
  <1> HIDE DEF u, ts
  <1> DEFINE v == [u[d] EXCEPT !.blocks = B]
  <1>4. /\ v \in InItsColumn /\ v.blocks = B /\ v.blockedBy = u[d].blockedBy
        /\ v.status = u[d].status /\ v.assignedTo = u[d].assignedTo
    <2>1. u[d] \in InItsColumn BY <1>2
    <2> QED BY <2>1 DEF InItsColumn, TaskRecord
  <1>5. ts = [u EXCEPT ![d] = v] BY <1>3
  <1> HIDE DEF v
  <1>6. /\ ts \in [DOMAIN tasks -> InItsColumn]
        /\ \A x \in DOMAIN tasks : ts[x] = IF x = d THEN v ELSE u[x]
    BY <1>2, <1>4, <1>5
  <1> QED BY <1>2, <1>4, <1>6 DEF ts

-----------------------------------------------------------------------------
(* Dependencies *)

\* Dependencies that are only taken away close no cycle.
LEMMA FewerDependencies ==
    ASSUME Acyclic, DOMAIN tasks' \subseteq DOMAIN tasks,
           \A t \in DOMAIN tasks' : tasks'[t].blockedBy \subseteq tasks[t].blockedBy
    PROVE  Acyclic'
  <1> SUFFICES ASSUME NEW S \in (SUBSET DOMAIN tasks') \ {{}}
               PROVE  \E t \in S : tasks'[t].blockedBy \intersect S = {}
    BY DEF Acyclic
  <1>1. PICK t \in S : tasks[t].blockedBy \intersect S = {} BY DEF Acyclic
  <1> QED BY <1>1

\* A dependency that passes the check closes none: otherwise the cycle would be one
\* among what d depends on, or go through t.
LEMMA CheckedDependency ==
    ASSUME TypeOK, Acyclic, NEW t \in Task, NEW d \in Task, ~ WouldCreateCycle(t, d),
           DOMAIN tasks' = DOMAIN tasks,
           \A x \in DOMAIN tasks :
             tasks'[x].blockedBy = IF x = t THEN tasks[t].blockedBy \union {d} ELSE tasks[x].blockedBy
    PROVE  Acyclic'
  <1> SUFFICES ASSUME NEW S \in (SUBSET DOMAIN tasks) \ {{}}
               PROVE  \E x \in S : tasks'[x].blockedBy \intersect S = {}
    BY DEF Acyclic
  <1>1. PICK R \in SUBSET Task :
          /\ d \in R /\ t \notin R
          /\ \A x \in R : Exists(x) => tasks[x].blockedBy \subseteq R
    BY DEF WouldCreateCycle
  <1>2. CASE S \intersect R = {}
    <2>1. PICK x \in S : tasks[x].blockedBy \intersect S = {} BY DEF Acyclic
    <2> QED BY <1>1, <1>2, <2>1
  <1>3. CASE S \intersect R # {}
    <2>1. PICK x \in S \intersect R : tasks[x].blockedBy \intersect (S \intersect R) = {}
      BY <1>3 DEF Acyclic
    <2>2. x # t /\ tasks[x].blockedBy \subseteq R BY <1>1, <2>1 DEF Exists
    <2> QED BY <2>1, <2>2
  <1> QED BY <1>2, <1>3

-----------------------------------------------------------------------------
(* Each call keeps the invariant *)

\* The tasks keep their dependencies and get records in the columns of their statuses.
LEMMA MovedStep ==
    ASSUME BoardInvariant, UNCHANGED <<used, checked>>, checked = {},
           NEW ts \in [DOMAIN tasks -> InItsColumn], Becomes(ts), SameDependencies(ts)
    PROVE  BoardInvariant'
  <1> USE DEF BoardInvariant
  <1>1. TypeOK' /\ BoardAgrees' BY MovesTasks
  <1>2. /\ DOMAIN tasks' = DOMAIN tasks
        /\ \A x \in DOMAIN tasks :
             tasks'[x].blockedBy = tasks[x].blockedBy /\ tasks'[x].blocks = tasks[x].blocks
    BY DEF Becomes, SameDependencies
  <1>3. DependenciesMirror' BY <1>2 DEF DependenciesMirror
  <1>4. DependenciesAreUsed' BY <1>2 DEF DependenciesAreUsed
  <1>5. Acyclic => Acyclic' BY <1>2, FewerDependencies
  <1>6. CheckHolds' BY DEF CheckHolds
  <1> QED BY <1>1, <1>3, <1>4, <1>5, <1>6

LEMMA RecordCallStep ==
    ASSUME BoardInvariant, RecordCall
    PROVE  BoardInvariant'
  <1>1. UNCHANGED <<used, checked>> /\ checked = {}
    BY DEF RecordCall, UpdateTask, AssignTask, UnassignTask, CompleteTask, FailTask, Settled
  <1>2. PICK ts \in [DOMAIN tasks -> InItsColumn] : Becomes(ts) /\ SameDependencies(ts)
    BY RecordCallKeepsDependencies DEF BoardInvariant
  <1> QED BY <1>1, <1>2, MovedStep

LEMMA CreateTaskStep ==
    ASSUME BoardInvariant, NEW t \in Task, NEW deps \in SUBSET Task, CreateTask(t, deps)
    PROVE  BoardInvariant'
  <1> USE DEF BoardInvariant
  <1>0. t \notin used /\ used' = used \union {t} /\ deps \subseteq used /\ checked' = {} /\ t \notin DOMAIN tasks
    BY DEF CreateTask, Settled, TypeOK
  <1> DEFINE status == IF AllComplete(deps) THEN "ready" ELSE "pending"
  <1> DEFINE column == ColumnForStatus(status)
  <1> DEFINE new == [status |-> status, column |-> column, assignedTo |-> Nobody,
                     attempts |-> 0, blockedBy |-> deps, blocks |-> {}]
  <1> DEFINE old(x) == IF x \in deps THEN [tasks[x] EXCEPT !.blocks = @ \union {t}] ELSE tasks[x]
  <1>1. /\ tasks' = [x \in DOMAIN tasks \union {t} |-> IF x = t THEN new ELSE old(x)]
        /\ columns' = [columns EXCEPT ![column] = @ \union {t}]
    BY DEF CreateTask
  <1>2. new \in InItsColumn /\ column \in Column /\ new.column = column /\ new.blockedBy = deps /\ new.blocks = {}
    BY Columns, BoardAssumption DEF InItsColumn, TaskRecord, Status
  <1>3. ASSUME NEW x \in DOMAIN tasks
        PROVE  /\ old(x) \in InItsColumn /\ old(x).column = tasks[x].column
               /\ old(x).blockedBy = tasks[x].blockedBy
               /\ old(x).blocks = IF x \in deps THEN tasks[x].blocks \union {t} ELSE tasks[x].blocks
    <2>1. tasks[x] \in InItsColumn BY EachInItsColumn
    <2> QED BY <2>1 DEF InItsColumn, TaskRecord
  <1> HIDE DEF column, new, old
  <1>4. /\ DOMAIN tasks' = DOMAIN tasks \union {t} /\ tasks'[t] = new
        /\ \A x \in DOMAIN tasks : tasks'[x] = old(x)
    BY <1>0, <1>1
  <1>5. /\ tasks'[t].blockedBy = deps /\ tasks'[t].blocks = {}
         /\ \A x \in DOMAIN tasks :
              /\ tasks'[x].blockedBy = tasks[x].blockedBy
              /\ tasks'[x].blocks = IF x \in deps THEN tasks[x].blocks \union {t} ELSE tasks[x].blocks
    BY <1>2, <1>3, <1>4
  <1>6. TypeOK'
    <2>1. columns' \in [Column -> SUBSET Task] BY <1>1 DEF TypeOK
    <2>2. tasks' \in [DOMAIN tasks' -> TaskRecord] BY <1>1, <1>2, <1>3, <1>4 DEF InItsColumn
    <2> QED BY <1>0, <1>4, <2>1, <2>2 DEF TypeOK
  <1>7. BoardAgrees'
    <2>1. \A x \in DOMAIN tasks' : tasks'[x].column = ColumnForStatus(tasks'[x].status)
      BY <1>2, <1>3, <1>4 DEF InItsColumn
    <2>2. ASSUME NEW c \in Column PROVE columns'[c] = {x \in DOMAIN tasks' : tasks'[x].column = c}
      <3>1. columns[c] = {x \in DOMAIN tasks : tasks[x].column = c} BY DEF BoardAgrees
      <3>2. columns'[c] = IF c = column THEN columns[c] \union {t} ELSE columns[c]
        BY <1>1 DEF TypeOK
      <3>3. tasks'[t].column = column /\ \A x \in DOMAIN tasks : tasks'[x].column = tasks[x].column
        BY <1>2, <1>3, <1>4
      <3>4. DOMAIN tasks' = DOMAIN tasks \union {t} BY <1>4
      <3> QED BY <3>1, <3>2, <3>3, <3>4
    <2> QED BY <2>1, <2>2 DEF BoardAgrees
  <1>8. DependenciesAreUsed' BY <1>0, <1>4, <1>5 DEF DependenciesAreUsed
  <1>9. DependenciesMirror'
    <2> SUFFICES ASSUME NEW d \in DOMAIN tasks'
                 PROVE  tasks'[d].blocks = {x \in DOMAIN tasks' : d \in tasks'[x].blockedBy}
      BY DEF DependenciesMirror
    <2>1. CASE d = t BY <1>0, <1>4, <1>5, <2>1 DEF DependenciesAreUsed
    <2>2. CASE d # t
      <3>1. d \in DOMAIN tasks BY <1>4, <2>2
      <3>2. tasks[d].blocks = {x \in DOMAIN tasks : d \in tasks[x].blockedBy}
        BY <3>1 DEF DependenciesMirror
      <3> QED BY <1>4, <1>5, <3>1, <3>2
    <2> QED BY <2>1, <2>2
  <1>10. Acyclic => Acyclic'
    <2> SUFFICES ASSUME Acyclic, NEW S \in (SUBSET DOMAIN tasks') \ {{}}
                 PROVE  \E x \in S : tasks'[x].blockedBy \intersect S = {}
      BY DEF Acyclic
    <2>1. CASE S = {t} BY <1>0, <1>5, <2>1
    <2>2. CASE S # {t}
      <3>1. S \ {t} \in (SUBSET DOMAIN tasks) \ {{}} BY <1>4, <2>2
      <3>2. PICK x \in S \ {t} : tasks[x].blockedBy \intersect (S \ {t}) = {}
        BY <3>1 DEF Acyclic
      <3>3. x \in DOMAIN tasks /\ t \notin tasks[x].blockedBy BY <1>0, <3>1 DEF DependenciesAreUsed
      <3>4. tasks'[x].blockedBy = tasks[x].blockedBy BY <1>5, <3>3
      <3>5. tasks'[x].blockedBy \intersect S = {} BY <3>2, <3>3, <3>4
      <3> QED BY <3>5
    <2> QED BY <2>1, <2>2
  <1>11. CheckHolds' BY <1>0 DEF CheckHolds
  <1> QED BY <1>6, <1>7, <1>8, <1>9, <1>10, <1>11

LEMMA DeleteTaskStep ==
    ASSUME BoardInvariant, NEW t \in Task, DeleteTask(t)
    PROVE  BoardInvariant'
  <1> USE DEF BoardInvariant
  <1>0. UNCHANGED used /\ checked' = {} /\ t \in DOMAIN tasks
    BY DEF DeleteTask, Settled, Exists
  <1>1. /\ tasks' = [x \in DOMAIN tasks \ {t} |-> Without(tasks[x], t)]
        /\ columns' = [columns EXCEPT ![tasks[t].column] = @ \ {t}]
    BY DEF DeleteTask
  <1>2. ASSUME NEW x \in DOMAIN tasks
        PROVE  LET w == Without(tasks[x], t)
               IN /\ w \in InItsColumn /\ w.column = tasks[x].column
                  /\ w.blockedBy = tasks[x].blockedBy \ {t} /\ w.blocks = tasks[x].blocks \ {t}
    <2>1. tasks[x] \in InItsColumn BY EachInItsColumn
    <2> QED BY <2>1 DEF InItsColumn, TaskRecord, Without
  <1>3. /\ DOMAIN tasks' = DOMAIN tasks \ {t}
        /\ \A x \in DOMAIN tasks' :
             /\ tasks'[x] \in InItsColumn /\ tasks'[x].column = tasks[x].column
             /\ tasks'[x].blockedBy = tasks[x].blockedBy \ {t}
             /\ tasks'[x].blocks = tasks[x].blocks \ {t}
    BY <1>1, <1>2
  <1>4. TypeOK'
    <2>1. columns' \in [Column -> SUBSET Task] BY <1>1 DEF TypeOK
    <2>2. tasks' \in [DOMAIN tasks' -> TaskRecord] BY <1>1, <1>3 DEF InItsColumn
    <2> QED BY <1>0, <1>3, <2>1, <2>2 DEF TypeOK
  <1>5. BoardAgrees'
    <2>1. \A x \in DOMAIN tasks' : tasks'[x].column = ColumnForStatus(tasks'[x].status)
      BY <1>3 DEF InItsColumn
    <2>2. ASSUME NEW c \in Column PROVE columns'[c] = {x \in DOMAIN tasks' : tasks'[x].column = c}
      <3>1. columns[c] = {x \in DOMAIN tasks : tasks[x].column = c} BY DEF BoardAgrees
      <3>2. columns'[c] = IF c = tasks[t].column THEN columns[c] \ {t} ELSE columns[c]
        BY <1>1 DEF TypeOK
      <3>3. columns'[c] = columns[c] \ {t} BY <3>1, <3>2
      <3> QED BY <1>3, <3>1, <3>3
    <2> QED BY <2>1, <2>2 DEF BoardAgrees
  <1>6. DependenciesMirror' BY <1>3 DEF DependenciesMirror
  <1>7. DependenciesAreUsed' BY <1>0, <1>3 DEF DependenciesAreUsed
  <1>8. Acyclic => Acyclic'
    <2>1. \A x \in DOMAIN tasks' : tasks'[x].blockedBy \subseteq tasks[x].blockedBy BY <1>3
    <2> QED BY <1>3, <2>1, FewerDependencies
  <1>9. CheckHolds' BY <1>0 DEF CheckHolds
  <1> QED BY <1>4, <1>5, <1>6, <1>7, <1>8, <1>9

\* The calls on the dependency of t on d leave by in blockedBy of t and bl in blocks
\* of d, agents as they are, and the status of a task that waits or is ready.
Redepends(t, by, d, bl) ==
    \E ts \in [DOMAIN tasks -> InItsColumn] :
      /\ Becomes(ts)
      /\ \A x \in DOMAIN tasks :
           /\ ts[x].blockedBy = IF x = t THEN by ELSE tasks[x].blockedBy
           /\ ts[x].blocks = IF x = d THEN bl ELSE tasks[x].blocks
           /\ ts[x].assignedTo = tasks[x].assignedTo
           /\ ts[x].status = tasks[x].status \/ tasks[x].status \in {"pending", "ready"}

LEMMA RemoveDependencyWrites ==
    ASSUME TypeOK, BoardAgrees, NEW t \in DOMAIN tasks, NEW d \in DOMAIN tasks, RemoveDependency(t, d)
    PROVE  Redepends(t, tasks[t].blockedBy \ {d}, d, tasks[d].blocks \ {t})
  <1>0. TypeOK /\ BoardAgrees /\ t \in DOMAIN tasks /\ d \in DOMAIN tasks /\ t \in Task /\ d \in Task
    BY DEF TypeOK
  <1> DEFINE w == [tasks[t] EXCEPT !.blockedBy = @ \ {d}]
  <1> DEFINE r == IF w.status = "pending" /\ AllComplete(w.blockedBy) THEN WithStatus(w, "ready") ELSE w
  <1> DEFINE B == tasks[d].blocks \ {t}
  <1> DEFINE ts == Rewritten(t, r, d, B)
  <1>1. \A x \in DOMAIN tasks : tasks[x] \in InItsColumn /\ tasks[x].blocks \subseteq Task
    BY EachInItsColumn DEF InItsColumn, TaskRecord
  <1>2. /\ w \in InItsColumn /\ w.blocks = tasks[t].blocks
        /\ w.status = tasks[t].status /\ w.assignedTo = tasks[t].assignedTo
        /\ w.blockedBy = tasks[t].blockedBy \ {d}
    BY <1>0, <1>1 DEF InItsColumn, TaskRecord
  <1>3. tasks \in [DOMAIN tasks -> InItsColumn] BY <1>1 DEF TypeOK
  <1>4. Becomes([tasks EXCEPT ![t] = r, ![d].blocks = @ \ {t}]) BY DEF RemoveDependency
  <1> HIDE DEF w
  <1>5. /\ r \in InItsColumn /\ r.blocks = tasks[t].blocks /\ r.assignedTo = tasks[t].assignedTo
        /\ r.status = tasks[t].status \/ tasks[t].status \in {"pending", "ready"}
        /\ r.blockedBy = tasks[t].blockedBy \ {d}
    BY <1>2, StatusSet DEF Status
  <1> HIDE DEF r
  <1>6. [tasks EXCEPT ![t] = r][d].blocks = tasks[d].blocks BY <1>3, <1>5
  <1>7. Becomes(ts) BY <1>4, <1>6 DEF Rewritten
  <1>8. B \in SUBSET Task BY <1>0, <1>1
  <1> HIDE DEF B
  <1>9. /\ ts \in [DOMAIN tasks -> InItsColumn]
        /\ \A x \in DOMAIN tasks :
             /\ ts[x].blockedBy = IF x = t THEN r.blockedBy ELSE tasks[x].blockedBy
             /\ ts[x].blocks = IF x = d THEN B ELSE tasks[x].blocks
             /\ ts[x].status = IF x = t THEN r.status ELSE tasks[x].status
             /\ ts[x].assignedTo = IF x = t THEN r.assignedTo ELSE tasks[x].assignedTo
    <2>1. ts = Rewritten(t, r, d, B) OBVIOUS
    <2> HIDE DEF ts
    <2>2. r \in InItsColumn /\ r.blocks = tasks[t].blocks BY <1>5
    <2> QED BY <1>0, <1>8, <2>1, <2>2, DependencyWritten
  <1> HIDE DEF ts
  <1> QED BY <1>5, <1>7, <1>9 DEF B, Redepends

LEMMA RemoveDependencyStep ==
    ASSUME BoardInvariant, NEW t \in Task, NEW d \in Task, RemoveDependency(t, d)
    PROVE  BoardInvariant'
  <1> USE DEF BoardInvariant
  <1>0. /\ UNCHANGED used /\ checked' = {}
        /\ t \in DOMAIN tasks /\ d \in DOMAIN tasks
    BY DEF RemoveDependency, Settled, Exists
  <1>1. Redepends(t, tasks[t].blockedBy \ {d}, d, tasks[d].blocks \ {t})
    <2>1. TypeOK /\ BoardAgrees OBVIOUS
    <2> HIDE DEF BoardInvariant
    <2> QED BY <1>0, <2>1, RemoveDependencyWrites
  <1>2. PICK ts \in [DOMAIN tasks -> InItsColumn] :
          /\ Becomes(ts)
          /\ \A x \in DOMAIN tasks :
               /\ ts[x].blockedBy = IF x = t THEN tasks[t].blockedBy \ {d} ELSE tasks[x].blockedBy
               /\ ts[x].blocks = IF x = d THEN tasks[d].blocks \ {t} ELSE tasks[x].blocks
    BY <1>1 DEF Redepends
  <1>3. TypeOK' /\ BoardAgrees' BY <1>0, <1>2, MovesTasks
  <1>4. /\ DOMAIN tasks' = DOMAIN tasks
         /\ \A x \in DOMAIN tasks :
              /\ tasks'[x].blockedBy = IF x = t THEN tasks[t].blockedBy \ {d} ELSE tasks[x].blockedBy
              /\ tasks'[x].blocks = IF x = d THEN tasks[d].blocks \ {t} ELSE tasks[x].blocks
    BY <1>2 DEF Becomes
  <1>5. DependenciesMirror' BY <1>0, <1>4 DEF DependenciesMirror
  <1>6. DependenciesAreUsed' BY <1>0, <1>4 DEF DependenciesAreUsed
  <1>7. Acyclic => Acyclic'
    <2>1. \A x \in DOMAIN tasks' : tasks'[x].blockedBy \subseteq tasks[x].blockedBy BY <1>4
    <2> QED BY <1>4, <2>1, FewerDependencies
  <1>8. CheckHolds' BY <1>0 DEF CheckHolds
  <1> QED BY <1>3, <1>5, <1>6, <1>7, <1>8

LEMMA WriteDependencyWrites ==
    ASSUME TypeOK, BoardAgrees, NEW t \in DOMAIN tasks, NEW d \in DOMAIN tasks, WriteDependency(t, d)
    PROVE  Redepends(t, tasks[t].blockedBy \union {d}, d, tasks[d].blocks \union {t})
  <1>0. TypeOK /\ BoardAgrees /\ t \in DOMAIN tasks /\ d \in DOMAIN tasks /\ t \in Task /\ d \in Task
    BY DEF TypeOK
  <1> DEFINE w == [tasks[t] EXCEPT !.blockedBy = @ \union {d}]
  <1> DEFINE r == IF tasks[t].status = "ready" /\ tasks[d].status # "complete"
                    THEN WithStatus(w, "pending") ELSE w
  <1> DEFINE B == tasks[d].blocks \union {t}
  <1> DEFINE ts == Rewritten(t, r, d, B)
  <1>1. \A x \in DOMAIN tasks : tasks[x] \in InItsColumn /\ tasks[x].blocks \subseteq Task
    BY EachInItsColumn DEF InItsColumn, TaskRecord
  <1>2. /\ w \in InItsColumn /\ w.blocks = tasks[t].blocks
        /\ w.status = tasks[t].status /\ w.assignedTo = tasks[t].assignedTo
        /\ w.blockedBy = tasks[t].blockedBy \union {d}
    BY <1>0, <1>1 DEF InItsColumn, TaskRecord
  <1>3. tasks \in [DOMAIN tasks -> InItsColumn] BY <1>1 DEF TypeOK
  <1>4. Becomes([tasks EXCEPT ![t] = r, ![d].blocks = @ \union {t}]) BY DEF WriteDependency
  <1> HIDE DEF w
  <1>5. /\ r \in InItsColumn /\ r.blocks = tasks[t].blocks /\ r.assignedTo = tasks[t].assignedTo
        /\ r.status = tasks[t].status \/ tasks[t].status \in {"pending", "ready"}
        /\ r.blockedBy = tasks[t].blockedBy \union {d}
    BY <1>2, StatusSet DEF Status
  <1> HIDE DEF r
  <1>6. [tasks EXCEPT ![t] = r][d].blocks = tasks[d].blocks BY <1>3, <1>5
  <1>7. Becomes(ts) BY <1>4, <1>6 DEF Rewritten
  <1>8. B \in SUBSET Task BY <1>0, <1>1
  <1> HIDE DEF B
  <1>9. /\ ts \in [DOMAIN tasks -> InItsColumn]
        /\ \A x \in DOMAIN tasks :
             /\ ts[x].blockedBy = IF x = t THEN r.blockedBy ELSE tasks[x].blockedBy
             /\ ts[x].blocks = IF x = d THEN B ELSE tasks[x].blocks
             /\ ts[x].status = IF x = t THEN r.status ELSE tasks[x].status
             /\ ts[x].assignedTo = IF x = t THEN r.assignedTo ELSE tasks[x].assignedTo
    <2>1. ts = Rewritten(t, r, d, B) OBVIOUS
    <2> HIDE DEF ts
    <2>2. r \in InItsColumn /\ r.blocks = tasks[t].blocks BY <1>5
    <2> QED BY <1>0, <1>8, <2>1, <2>2, DependencyWritten
  <1> HIDE DEF ts
  <1> QED BY <1>5, <1>7, <1>9 DEF B, Redepends

LEMMA WriteDependencyStep ==
    ASSUME BoardInvariant, NEW t \in Task, NEW d \in Task, WriteDependency(t, d)
    PROVE  BoardInvariant'
  <1> USE DEF BoardInvariant
  <1>0. /\ UNCHANGED used /\ checked' = checked \ {<<t, d>>}
        /\ t \in DOMAIN tasks /\ d \in DOMAIN tasks /\ t # d
        /\ SameTurn \/ (checked' = {} /\ ~ WouldCreateCycle(t, d))
    BY DEF WriteDependency, CheckHolds, Exists
  <1>1. Redepends(t, tasks[t].blockedBy \union {d}, d, tasks[d].blocks \union {t})
    <2>1. TypeOK /\ BoardAgrees OBVIOUS
    <2> HIDE DEF BoardInvariant
    <2> QED BY <1>0, <2>1, WriteDependencyWrites
  <1>2. PICK ts \in [DOMAIN tasks -> InItsColumn] :
          /\ Becomes(ts)
          /\ \A x \in DOMAIN tasks :
               /\ ts[x].blockedBy = IF x = t THEN tasks[t].blockedBy \union {d} ELSE tasks[x].blockedBy
               /\ ts[x].blocks = IF x = d THEN tasks[d].blocks \union {t} ELSE tasks[x].blocks
    BY <1>1 DEF Redepends
  <1>3. TypeOK' /\ BoardAgrees'
    <2>1. checked' \subseteq Task \X Task BY <1>0 DEF TypeOK
    <2> QED BY <1>0, <1>2, <2>1, MovesTasks
  <1>4. /\ DOMAIN tasks' = DOMAIN tasks
         /\ \A x \in DOMAIN tasks :
              /\ tasks'[x].blockedBy = IF x = t THEN tasks[t].blockedBy \union {d} ELSE tasks[x].blockedBy
              /\ tasks'[x].blocks = IF x = d THEN tasks[d].blocks \union {t} ELSE tasks[x].blocks
    BY <1>2 DEF Becomes
  <1>5. DependenciesMirror' BY <1>0, <1>4 DEF DependenciesMirror
  <1>6. DependenciesAreUsed'
    <2>1. d \in used BY <1>0 DEF TypeOK
    <2> QED BY <1>0, <1>4, <2>1 DEF DependenciesAreUsed
  <1>7. SameTurn \/ Acyclic'
    <2>1. ASSUME ~ SameTurn PROVE Acyclic' BY <1>0, <1>4, <2>1, CheckedDependency
    <2> QED BY <2>1
  <1>8. CheckHolds' BY <1>0, <1>4 DEF CheckHolds, Exists
  <1> QED BY <1>3, <1>5, <1>6, <1>7, <1>8

LEMMA CheckDependencyStep ==
    ASSUME BoardInvariant, NEW t \in Task, NEW d \in Task, CheckDependency(t, d)
    PROVE  BoardInvariant'
  <1> USE DEF BoardInvariant
  <1>0. /\ UNCHANGED <<tasks, columns, used>> /\ checked' = checked \union {<<t, d>>}
        /\ t \in DOMAIN tasks /\ d \in DOMAIN tasks
        /\ SameTurn \/ checked = {}
        /\ ~ WouldCreateCycle(t, d)
    BY DEF CheckDependency, Settled, Exists
  <1>1. t # d BY <1>0 DEF WouldCreateCycle
  <1>2. TypeOK' BY <1>0 DEF TypeOK
  <1>3. BoardAgrees' /\ DependenciesMirror' /\ DependenciesAreUsed' /\ (Acyclic => Acyclic')
    BY <1>0 DEF BoardAgrees, DependenciesMirror, DependenciesAreUsed, Acyclic
  <1>4. CheckHolds'
    <2> SUFFICES ASSUME NEW x \in Task, NEW y \in Task, <<x, y>> \in checked'
                 PROVE  /\ x \in DOMAIN tasks /\ y \in DOMAIN tasks /\ x # y
                        /\ SameTurn \/ (checked' = {<<x, y>>} /\ ~ WouldCreateCycle(x, y)')
      BY <1>0 DEF CheckHolds, Exists
    <2>1. CASE <<x, y>> \in checked BY <1>0, <2>1 DEF CheckHolds, Exists
    <2>2. CASE <<x, y>> = <<t, d>>
      <3>1. ~ WouldCreateCycle(t, d)' BY <1>0 DEF WouldCreateCycle, Exists
      <3> QED BY <1>0, <1>1, <2>2, <3>1
    <2> QED BY <1>0, <2>1, <2>2
  <1> QED BY <1>2, <1>3, <1>4

-----------------------------------------------------------------------------
(* Tasks nobody works on.  That a ready task has no agent is not inductive: a *)
(* pending or blocked task becomes ready with the agent it has.               *)

Waiting == {"pending", "ready", "blocked"}
Unassigned(r) == r.status \in Waiting => r.assignedTo = Nobody
WaitingIsUnassigned == \A t \in DOMAIN tasks : Unassigned(tasks[t])

LEMMA UpdatedUnassigned ==
    ASSUME TypeOK, WaitingIsUnassigned, NEW t \in DOMAIN tasks, NEW r, Unassigned(r), Update(t, r)
    PROVE  WaitingIsUnassigned'
  <1>1. tasks' = [tasks EXCEPT ![t] = r] BY DEF Update, Becomes
  <1>2. \A x \in DOMAIN tasks : tasks'[x] = IF x = t THEN r ELSE tasks[x] BY <1>1 DEF TypeOK
  <1>3. DOMAIN tasks' = DOMAIN tasks BY <1>1
  <1>4. \A x \in DOMAIN tasks : Unassigned(tasks[x]) BY DEF WaitingIsUnassigned
  <1>5. \A x \in DOMAIN tasks' : Unassigned(tasks'[x]) BY <1>2, <1>3, <1>4
  <1> QED BY <1>5 DEF WaitingIsUnassigned, Unassigned

LEMMA RecordCallUnassigned ==
    ASSUME BoardInvariant, WaitingIsUnassigned, ManualStatus \intersect Waiting = {}, RecordCall
    PROVE  WaitingIsUnassigned'
  <1>0. TypeOK /\ BoardAgrees BY DEF BoardInvariant
  <1>1. \A x \in DOMAIN tasks : tasks[x] \in InItsColumn BY <1>0, EachInItsColumn
  <1>2. ASSUME NEW t \in Task, NEW s \in ManualStatus, UpdateTask(t, s) PROVE WaitingIsUnassigned'
    <2>1. t \in DOMAIN tasks /\ s \in Status /\ s \notin Waiting /\ Update(t, WithStatus(tasks[t], s))
      BY <1>2, BoardAssumption DEF UpdateTask, Exists
    <2>2. Unassigned(WithStatus(tasks[t], s)) BY <1>1, <2>1, StatusSet DEF Unassigned
    <2> QED BY <1>0, <2>1, <2>2, UpdatedUnassigned
  <1>3. ASSUME NEW t \in Task, NEW a \in Agent, AssignTask(t, a) PROVE WaitingIsUnassigned'
    <2> DEFINE w == WithStatus(tasks[t], "assigned")
    <2> DEFINE r == [w EXCEPT !.assignedTo = a]
    <2>1. t \in DOMAIN tasks /\ Update(t, r) BY <1>3 DEF AssignTask, Exists
    <2>2. w \in InItsColumn /\ w.status = "assigned" BY <1>1, <2>1, StatusSet DEF Status
    <2> HIDE DEF w
    <2>3. Unassigned(r) BY <2>2 DEF Unassigned, Waiting, InItsColumn, TaskRecord
    <2> QED BY <1>0, <2>1, <2>3, UpdatedUnassigned
  <1>4. ASSUME NEW t \in Task, UnassignTask(t) PROVE WaitingIsUnassigned'
    <2>1. PICK s \in Status : Update(t, [WithStatus(tasks[t], s) EXCEPT !.assignedTo = Nobody])
      BY <1>4 DEF UnassignTask, Status
    <2> DEFINE w == WithStatus(tasks[t], s)
    <2> DEFINE r == [w EXCEPT !.assignedTo = Nobody]
    <2>2. t \in DOMAIN tasks /\ Update(t, r) BY <1>4, <2>1 DEF UnassignTask, Exists
    <2>3. w \in InItsColumn BY <1>1, <2>2, StatusSet
    <2> HIDE DEF w
    <2>4. Unassigned(r) BY <2>3 DEF Unassigned, InItsColumn, TaskRecord
    <2> QED BY <1>0, <2>2, <2>4, UpdatedUnassigned
  <1>5. ASSUME NEW t \in Task, CompleteTask(t) PROVE WaitingIsUnassigned'
    <2> DEFINE ts == [x \in DOMAIN tasks |->
                 IF x = t THEN WithStatus(tasks[t], "complete")
                 ELSE IF x \in Released(t) THEN WithStatus(tasks[x], "ready") ELSE tasks[x]]
    <2>1. t \in DOMAIN tasks /\ tasks' = ts BY <1>5 DEF CompleteTask, Exists, Becomes
    <2>2. ASSUME NEW x \in DOMAIN tasks PROVE Unassigned(ts[x])
      <3>1. CASE x = t BY <1>1, <2>1, <3>1, StatusSet DEF Unassigned, Waiting, Status
      <3>2. CASE x # t /\ x \in Released(t)
        <4>1. tasks[x].assignedTo = Nobody
          BY <3>2 DEF Released, WaitingIsUnassigned, Unassigned, Waiting
        <4>2. WithStatus(tasks[x], "ready").assignedTo = tasks[x].assignedTo
          BY <1>1, StatusSet DEF Status
        <4>3. ts[x] = WithStatus(tasks[x], "ready") BY <3>2
        <4> HIDE DEF ts
        <4> QED BY <4>1, <4>2, <4>3 DEF Unassigned
      <3>3. CASE x # t /\ x \notin Released(t) BY <3>3 DEF WaitingIsUnassigned
      <3> QED BY <3>1, <3>2, <3>3
    <2>3. DOMAIN ts = DOMAIN tasks OBVIOUS
    <2> HIDE DEF ts
    <2> QED BY <2>1, <2>2, <2>3 DEF WaitingIsUnassigned, Unassigned
  <1>6. ASSUME NEW t \in Task, FailTask(t) PROVE WaitingIsUnassigned'
    <2>1. t \in DOMAIN tasks BY <1>6 DEF FailTask, Exists
    <2>2. CASE tasks[t].attempts + 1 >= MaxAttempts
      <3> DEFINE w == WithStatus(tasks[t], "failed")
      <3> DEFINE r == [w EXCEPT !.attempts = MaxAttempts]
      <3>1. Update(t, r) BY <1>6, <2>2 DEF FailTask
      <3>2. w \in InItsColumn /\ w.status = "failed" BY <1>1, <2>1, StatusSet DEF Status
      <3> HIDE DEF w
      <3>3. Unassigned(r) BY <3>2 DEF Unassigned, Waiting, InItsColumn, TaskRecord
      <3> QED BY <1>0, <2>1, <3>1, <3>3, UpdatedUnassigned
    <2>3. CASE ~ (tasks[t].attempts + 1 >= MaxAttempts)
      <3> DEFINE w == WithStatus(tasks[t], "ready")
      <3> DEFINE r == [w EXCEPT !.attempts = @ + 1, !.assignedTo = Nobody]
      <3>1. Update(t, r) BY <1>6, <2>3 DEF FailTask, Retry
      <3>2. w \in InItsColumn BY <1>1, <2>1, StatusSet DEF Status
      <3> HIDE DEF w
      <3>3. Unassigned(r) BY <3>2 DEF Unassigned, InItsColumn, TaskRecord
      <3> QED BY <1>0, <2>1, <3>1, <3>3, UpdatedUnassigned
    <2> QED BY <2>2, <2>3
  <1> QED BY <1>2, <1>3, <1>4, <1>5, <1>6 DEF RecordCall

LEMMA OtherCallUnassigned ==
    ASSUME BoardInvariant, WaitingIsUnassigned, NEW t \in Task,
           \/ \E deps \in SUBSET Task : CreateTask(t, deps)
           \/ DeleteTask(t)
           \/ \E d \in Task : CheckDependency(t, d)
    PROVE  WaitingIsUnassigned'
  <1>0. TypeOK /\ BoardAgrees BY DEF BoardInvariant
  <1>1. \A x \in DOMAIN tasks : tasks[x] \in InItsColumn BY <1>0, EachInItsColumn
  <1>2. ASSUME NEW deps \in SUBSET Task, CreateTask(t, deps) PROVE WaitingIsUnassigned'
    <2>1. /\ DOMAIN tasks' = DOMAIN tasks \union {t}
          /\ tasks'[t].assignedTo = Nobody
          /\ \A x \in DOMAIN tasks : x # t =>
               tasks'[x] = IF x \in deps THEN [tasks[x] EXCEPT !.blocks = @ \union {t}] ELSE tasks[x]
      BY <1>2 DEF CreateTask
    <2>2. ASSUME NEW x \in DOMAIN tasks', x # t
          PROVE  tasks'[x].status = tasks[x].status /\ tasks'[x].assignedTo = tasks[x].assignedTo
      BY <1>1, <2>1, <2>2 DEF InItsColumn, TaskRecord
    <2> QED BY <2>1, <2>2 DEF WaitingIsUnassigned, Unassigned
  <1>3. ASSUME DeleteTask(t) PROVE WaitingIsUnassigned'
    <2>1. /\ DOMAIN tasks' = DOMAIN tasks \ {t}
          /\ \A x \in DOMAIN tasks' : tasks'[x] = Without(tasks[x], t)
      BY <1>3 DEF DeleteTask
    <2>2. ASSUME NEW x \in DOMAIN tasks'
          PROVE  tasks'[x].status = tasks[x].status /\ tasks'[x].assignedTo = tasks[x].assignedTo
      BY <1>1, <2>1 DEF Without, InItsColumn, TaskRecord
    <2> QED BY <2>1, <2>2 DEF WaitingIsUnassigned, Unassigned
  <1>4. ASSUME NEW d \in Task, CheckDependency(t, d) PROVE WaitingIsUnassigned'
    BY <1>4 DEF CheckDependency, WaitingIsUnassigned, Unassigned
  <1> QED BY <1>2, <1>3, <1>4

LEMMA DependencyCallUnassigned ==
    ASSUME BoardInvariant, WaitingIsUnassigned, NEW t \in Task, NEW d \in Task,
           WriteDependency(t, d) \/ RemoveDependency(t, d)
    PROVE  WaitingIsUnassigned'
  <1>0. TypeOK /\ BoardAgrees BY DEF BoardInvariant
  <1>1. t \in DOMAIN tasks /\ d \in DOMAIN tasks
    BY DEF WriteDependency, RemoveDependency, BoardInvariant, CheckHolds, Exists
  <1>2. \E by, bl : Redepends(t, by, d, bl)
    BY <1>0, <1>1, WriteDependencyWrites, RemoveDependencyWrites
  <1>3. PICK ts \in [DOMAIN tasks -> InItsColumn] :
          /\ tasks' = ts
          /\ \A x \in DOMAIN tasks :
               /\ ts[x].assignedTo = tasks[x].assignedTo
               /\ ts[x].status = tasks[x].status \/ tasks[x].status \in {"pending", "ready"}
    BY <1>2 DEF Redepends, Becomes
  <1> QED BY <1>3 DEF WaitingIsUnassigned, Unassigned, Waiting

-----------------------------------------------------------------------------
(* Nobody is forgotten: a task that waits for nothing has waited for nothing  *)
(* before the step, unless a task was deleted.                                *)

NobodyForgotten == \A t \in Task : WaitsForNothing(t)' => WaitsForNothing(t)

\* The statuses callers set by hand that would make a task wait, or release others
\* without completeTask.
Deciding == {"pending", "complete"}

\* A task that gets another record and its dependencies keep their statuses apart.
LEMMA UpdatedWaits ==
    ASSUME TypeOK, NEW t \in DOMAIN tasks, NEW r, Update(t, r),
           r.blockedBy = tasks[t].blockedBy,
           r.status = "complete" => tasks[t].status = "complete",
           r.status = "pending" => ~ AllComplete(tasks[t].blockedBy)
    PROVE  NobodyForgotten
  <1>1. DOMAIN tasks' = DOMAIN tasks /\ \A x \in DOMAIN tasks : tasks'[x] = IF x = t THEN r ELSE tasks[x]
    BY DEF Update, Becomes, TypeOK
  <1>2. \A x \in DOMAIN tasks : tasks'[x].status = "complete" => tasks[x].status = "complete"
    BY <1>1
  <1>3. \A x \in DOMAIN tasks : tasks'[x].blockedBy = tasks[x].blockedBy BY <1>1
  <1>4. \A x \in DOMAIN tasks :
          AllComplete(tasks[x].blockedBy)' => AllComplete(tasks[x].blockedBy)
    BY <1>1, <1>2, <1>3 DEF AllComplete, Exists
  <1> QED BY <1>1, <1>3, <1>4 DEF NobodyForgotten, WaitsForNothing

LEMMA RecordCallWaits ==
    ASSUME BoardInvariant, ManualStatus \intersect Deciding = {}, RecordCall
    PROVE  NobodyForgotten
  <1>0. TypeOK /\ BoardAgrees BY DEF BoardInvariant
  <1>1. \A x \in DOMAIN tasks : tasks[x] \in InItsColumn BY <1>0, EachInItsColumn
  <1>2. ASSUME NEW t \in Task, NEW s \in ManualStatus, UpdateTask(t, s) PROVE NobodyForgotten
    <2>1. t \in DOMAIN tasks /\ s \in Status /\ s \notin Deciding /\ Update(t, WithStatus(tasks[t], s))
      BY <1>2, BoardAssumption DEF UpdateTask, Exists
    <2> QED BY <1>0, <1>1, <2>1, StatusSet, UpdatedWaits DEF Deciding
  <1>3. ASSUME NEW t \in Task, NEW a \in Agent, AssignTask(t, a) PROVE NobodyForgotten
    <2> DEFINE w == WithStatus(tasks[t], "assigned")
    <2> DEFINE r == [w EXCEPT !.assignedTo = a]
    <2>1. t \in DOMAIN tasks /\ Update(t, r) BY <1>3 DEF AssignTask, Exists
    <2>2. w \in InItsColumn /\ w.status = "assigned" /\ w.blockedBy = tasks[t].blockedBy
      BY <1>1, <2>1, StatusSet DEF Status
    <2> HIDE DEF w
    <2>3. r.status = "assigned" /\ r.blockedBy = tasks[t].blockedBy
      BY <2>2 DEF InItsColumn, TaskRecord
    <2> QED BY <1>0, <2>1, <2>3, UpdatedWaits
  <1>4. ASSUME NEW t \in Task, UnassignTask(t) PROVE NobodyForgotten
    <2>1. PICK s \in {"ready", "pending"} :
            /\ s = "pending" => ~ AllComplete(tasks[t].blockedBy)
            /\ Update(t, [WithStatus(tasks[t], s) EXCEPT !.assignedTo = Nobody])
      BY <1>4 DEF UnassignTask
    <2> DEFINE w == WithStatus(tasks[t], s)
    <2> DEFINE r == [w EXCEPT !.assignedTo = Nobody]
    <2>2. t \in DOMAIN tasks /\ Update(t, r) BY <1>4, <2>1 DEF UnassignTask, Exists
    <2>3. w \in InItsColumn /\ w.status = s /\ w.blockedBy = tasks[t].blockedBy
      BY <1>1, <2>2, StatusSet DEF Status
    <2> HIDE DEF w
    <2>4. r.status = s /\ r.blockedBy = tasks[t].blockedBy BY <2>3 DEF InItsColumn, TaskRecord
    <2> QED BY <1>0, <2>1, <2>2, <2>4, UpdatedWaits
  <1>5. ASSUME NEW t \in Task, FailTask(t) PROVE NobodyForgotten
    <2>1. t \in DOMAIN tasks BY <1>5 DEF FailTask, Exists
    <2>2. CASE tasks[t].attempts + 1 >= MaxAttempts
      <3> DEFINE w == WithStatus(tasks[t], "failed")
      <3> DEFINE r == [w EXCEPT !.attempts = MaxAttempts]
      <3>1. Update(t, r) BY <1>5, <2>2 DEF FailTask
      <3>2. w \in InItsColumn /\ w.status = "failed" /\ w.blockedBy = tasks[t].blockedBy
        BY <1>1, <2>1, StatusSet DEF Status
      <3> HIDE DEF w
      <3>3. r.status = "failed" /\ r.blockedBy = tasks[t].blockedBy
        BY <3>2 DEF InItsColumn, TaskRecord
      <3> QED BY <1>0, <2>1, <3>1, <3>3, UpdatedWaits
    <2>3. CASE ~ (tasks[t].attempts + 1 >= MaxAttempts)
      <3> DEFINE w == WithStatus(tasks[t], "ready")
      <3> DEFINE r == [w EXCEPT !.attempts = @ + 1, !.assignedTo = Nobody]
      <3>1. Update(t, r) BY <1>5, <2>3 DEF FailTask, Retry
      <3>2. w \in InItsColumn /\ w.status = "ready" /\ w.blockedBy = tasks[t].blockedBy
        BY <1>1, <2>1, StatusSet DEF Status
      <3> HIDE DEF w
      <3>3. r.status = "ready" /\ r.blockedBy = tasks[t].blockedBy
        BY <3>2 DEF InItsColumn, TaskRecord
      <3> QED BY <1>0, <2>1, <3>1, <3>3, UpdatedWaits
    <2> QED BY <2>2, <2>3
  \* completeTask finds whoever waits for it in its blocks.
  <1>6. ASSUME NEW t \in Task, CompleteTask(t) PROVE NobodyForgotten
    <2> DEFINE ts == [x \in DOMAIN tasks |->
                 IF x = t THEN WithStatus(tasks[t], "complete")
                 ELSE IF x \in Released(t) THEN WithStatus(tasks[x], "ready") ELSE tasks[x]]
    <2>1. t \in DOMAIN tasks /\ tasks' = ts BY <1>6 DEF CompleteTask, Exists, Becomes
    <2>2. ASSUME NEW x \in DOMAIN tasks
          PROVE  /\ ts[x].blockedBy = tasks[x].blockedBy
                 /\ ts[x].status = IF x = t THEN "complete"
                                   ELSE IF x \in Released(t) THEN "ready" ELSE tasks[x].status
      BY <1>1, <2>1, StatusSet DEF Status
    <2>3. DOMAIN ts = DOMAIN tasks OBVIOUS
    <2> HIDE DEF ts
    <2>4. SUFFICES ASSUME NEW x \in DOMAIN tasks, ts[x].status = "pending",
                          AllComplete(tasks[x].blockedBy)'
                   PROVE  tasks[x].status = "pending" /\ AllComplete(tasks[x].blockedBy)
      BY <2>1, <2>2, <2>3 DEF NobodyForgotten, WaitsForNothing, Exists, AllComplete
    <2>5. x # t /\ x \notin Released(t) /\ tasks[x].status = "pending" BY <2>2, <2>4
    <2>6. \A d \in tasks[x].blockedBy : d \in DOMAIN tasks /\ (d = t \/ tasks[d].status = "complete")
      BY <2>1, <2>2, <2>3, <2>4 DEF AllComplete, Exists, Released
    <2>7. AllComplete(tasks[x].blockedBy \ {t}) BY <2>6 DEF AllComplete, Exists
    <2>8. t \notin tasks[x].blockedBy
      BY <2>1, <2>5, <2>7 DEF Released, Exists, BoardInvariant, DependenciesMirror
    <2> QED BY <2>5, <2>6, <2>8 DEF AllComplete, Exists
  <1> QED BY <1>2, <1>3, <1>4, <1>5, <1>6 DEF RecordCall

LEMMA CreateWaits ==
    ASSUME BoardInvariant, NEW t \in Task, NEW deps \in SUBSET Task, CreateTask(t, deps)
    PROVE  NobodyForgotten
  <1>1. \A x \in DOMAIN tasks : tasks[x] \in InItsColumn /\ t \notin tasks[x].blockedBy
    BY EachInItsColumn DEF BoardInvariant, DependenciesAreUsed, CreateTask
  <1>2. t \notin DOMAIN tasks /\ t \notin deps BY DEF CreateTask, BoardInvariant, TypeOK
  <1>3. /\ DOMAIN tasks' = DOMAIN tasks \union {t}
        /\ tasks'[t].blockedBy = deps
        /\ tasks'[t].status = "pending" => ~ AllComplete(deps)
        /\ \A x \in DOMAIN tasks :
             tasks'[x] = IF x \in deps THEN [tasks[x] EXCEPT !.blocks = @ \union {t}] ELSE tasks[x]
    BY <1>2 DEF CreateTask
  <1>4. \A x \in DOMAIN tasks :
          tasks'[x].status = tasks[x].status /\ tasks'[x].blockedBy = tasks[x].blockedBy
    BY <1>1, <1>3 DEF InItsColumn, TaskRecord
  <1>5. AllComplete(deps)' => AllComplete(deps)
    <2>1. \A x \in deps : x \in DOMAIN tasks' => x \in DOMAIN tasks BY <1>2, <1>3
    <2>2. AllComplete(deps)' => \A x \in deps' : x \in DOMAIN tasks' /\ tasks'[x].status = "complete"
      BY DEF AllComplete, Exists
    <2> QED BY <1>4, <2>1, <2>2 DEF AllComplete, Exists
  <1>6. \A x \in DOMAIN tasks : AllComplete(tasks[x].blockedBy)' => AllComplete(tasks[x].blockedBy)
    BY <1>1, <1>3, <1>4 DEF AllComplete, Exists
  <1>7. ASSUME NEW x \in Task, WaitsForNothing(x)' PROVE WaitsForNothing(x)
    <2>1. CASE x = t BY <1>3, <1>5, <1>7, <2>1 DEF WaitsForNothing, AllComplete, Exists
    <2>2. CASE x # t BY <1>3, <1>4, <1>6, <1>7, <2>2 DEF WaitsForNothing, AllComplete, Exists
    <2> QED BY <2>1, <2>2
  <1> QED BY <1>7 DEF NobodyForgotten

\* What the two calls on a dependency make of statuses and of blockedBy.
LEMMA DependencyRecords ==
    ASSUME TypeOK, BoardAgrees, NEW t \in DOMAIN tasks, NEW d \in DOMAIN tasks,
           NEW r \in InItsColumn, NEW B, Becomes([tasks EXCEPT ![t] = r, ![d].blocks = B])
    PROVE  /\ DOMAIN tasks' = DOMAIN tasks
           /\ \A x \in DOMAIN tasks :
                /\ tasks'[x].status = IF x = t THEN r.status ELSE tasks[x].status
                /\ tasks'[x].blockedBy = IF x = t THEN r.blockedBy ELSE tasks[x].blockedBy
  <1>1. tasks \in [DOMAIN tasks -> InItsColumn] BY EachInItsColumn DEF TypeOK
  <1> DEFINE u == [tasks EXCEPT ![t] = r]
  <1>2. u \in [DOMAIN tasks -> InItsColumn] /\ \A x \in DOMAIN tasks : u[x] = IF x = t THEN r ELSE tasks[x]
    BY <1>1
  <1>3. tasks' = [u EXCEPT ![d].blocks = B] BY DEF Becomes
  <1> HIDE DEF u
  <1>4. \A x \in DOMAIN tasks : tasks'[x] = IF x = d THEN [u[d] EXCEPT !.blocks = B] ELSE u[x]
    BY <1>2, <1>3
  <1>5. [u[d] EXCEPT !.blocks = B].status = u[d].status /\ [u[d] EXCEPT !.blocks = B].blockedBy = u[d].blockedBy
    <2>1. u[d] \in InItsColumn BY <1>2
    <2> QED BY <2>1 DEF InItsColumn, TaskRecord
  <1>6. DOMAIN tasks' = DOMAIN tasks BY <1>2, <1>3
  <1> QED BY <1>2, <1>4, <1>5, <1>6

LEMMA DependencyCallWaits ==
    ASSUME BoardInvariant, NEW t \in Task, NEW d \in Task,
           CheckDependency(t, d) \/ WriteDependency(t, d) \/ RemoveDependency(t, d)
    PROVE  NobodyForgotten
  <1>0. TypeOK /\ BoardAgrees BY DEF BoardInvariant
  <1>1. \A x \in DOMAIN tasks : tasks[x] \in InItsColumn BY <1>0, EachInItsColumn
  <1>2. CASE CheckDependency(t, d)
    BY <1>2 DEF CheckDependency, NobodyForgotten, WaitsForNothing, AllComplete, Exists
  \* The task waits for the new dependency, if it was not complete.
  <1>3. CASE WriteDependency(t, d)
    <2> DEFINE w == [tasks[t] EXCEPT !.blockedBy = @ \union {d}]
    <2> DEFINE waits == tasks[t].status = "ready" /\ tasks[d].status # "complete"
    <2> DEFINE r == IF waits THEN WithStatus(w, "pending") ELSE w
    <2> DEFINE B == tasks[d].blocks \union {t}
    <2>1. t \in DOMAIN tasks /\ d \in DOMAIN tasks /\ t # d
      BY <1>3 DEF WriteDependency, BoardInvariant, CheckHolds, Exists
    <2>2. /\ w \in InItsColumn /\ w.status = tasks[t].status /\ w.blocks = tasks[t].blocks
          /\ w.blockedBy = tasks[t].blockedBy \union {d}
      BY <1>1, <2>1 DEF InItsColumn, TaskRecord
    <2>3. Becomes([tasks EXCEPT ![t] = r, ![d].blocks = @ \union {t}]) BY <1>3 DEF WriteDependency
    <2> HIDE DEF w
    <2>4. /\ r \in InItsColumn /\ r.blocks = tasks[t].blocks /\ r.blockedBy = tasks[t].blockedBy \union {d}
          /\ r.status = IF waits THEN "pending" ELSE tasks[t].status
      BY <2>2, StatusSet DEF Status
    <2> HIDE DEF r
    <2>5. [tasks EXCEPT ![t] = r][d].blocks = tasks[d].blocks BY <1>0, <2>1, <2>4 DEF TypeOK
    <2>6. Becomes([tasks EXCEPT ![t] = r, ![d].blocks = B]) BY <2>3, <2>5
    <2> HIDE DEF B, waits
    <2>7. /\ DOMAIN tasks' = DOMAIN tasks
          /\ \A x \in DOMAIN tasks :
               /\ tasks'[x].status = IF x = t THEN r.status ELSE tasks[x].status
               /\ tasks'[x].blockedBy = IF x = t THEN r.blockedBy ELSE tasks[x].blockedBy
      <3>1. r \in InItsColumn BY <2>4
      <3>2. t \in DOMAIN tasks /\ d \in DOMAIN tasks BY <2>1
      <3> QED BY <1>0, <2>6, <3>1, <3>2, DependencyRecords
    <2>8. \A x \in DOMAIN tasks : tasks'[x].status = "complete" => tasks[x].status = "complete"
      BY <2>4, <2>7 DEF waits
    <2>9. ASSUME NEW x \in DOMAIN tasks, tasks'[x].status = "pending",
                 \A y \in tasks'[x].blockedBy : y \in DOMAIN tasks' /\ tasks'[y].status = "complete"
          PROVE  tasks[x].status = "pending"
                 /\ \A y \in tasks[x].blockedBy : y \in DOMAIN tasks /\ tasks[y].status = "complete"
      BY <2>1, <2>4, <2>7, <2>8, <2>9 DEF waits
    <2> QED BY <2>7, <2>9 DEF NobodyForgotten, WaitsForNothing, AllComplete, Exists
  \* The task is released when what is left is complete.
  <1>4. CASE RemoveDependency(t, d)
    <2> DEFINE w == [tasks[t] EXCEPT !.blockedBy = @ \ {d}]
    <2> DEFINE r == IF w.status = "pending" /\ AllComplete(w.blockedBy) THEN WithStatus(w, "ready") ELSE w
    <2> DEFINE B == tasks[d].blocks \ {t}
    <2>1. t \in DOMAIN tasks /\ d \in DOMAIN tasks BY <1>4 DEF RemoveDependency, Exists
    <2>2. w \in InItsColumn /\ w.status = tasks[t].status /\ w.blocks = tasks[t].blocks
      BY <1>1, <2>1 DEF InItsColumn, TaskRecord
    <2>3. Becomes([tasks EXCEPT ![t] = r, ![d].blocks = @ \ {t}]) BY <1>4 DEF RemoveDependency
    <2> HIDE DEF w
    <2>4. /\ r \in InItsColumn /\ r.blocks = tasks[t].blocks /\ r.blockedBy = w.blockedBy
          /\ r.status = IF tasks[t].status = "pending" /\ AllComplete(w.blockedBy)
                          THEN "ready" ELSE tasks[t].status
      BY <2>2, StatusSet DEF Status
    <2> HIDE DEF r
    <2>5. [tasks EXCEPT ![t] = r][d].blocks = tasks[d].blocks BY <1>0, <2>1, <2>4 DEF TypeOK
    <2>6. Becomes([tasks EXCEPT ![t] = r, ![d].blocks = B]) BY <2>3, <2>5
    <2> HIDE DEF B
    <2>7. /\ DOMAIN tasks' = DOMAIN tasks
          /\ \A x \in DOMAIN tasks :
               /\ tasks'[x].status = IF x = t THEN r.status ELSE tasks[x].status
               /\ tasks'[x].blockedBy = IF x = t THEN r.blockedBy ELSE tasks[x].blockedBy
      BY <1>0, <2>1, <2>4, <2>6, DependencyRecords
    <2>8. \A x \in DOMAIN tasks : tasks'[x].status = "complete" => tasks[x].status = "complete"
      BY <2>4, <2>7
    <2>9. ASSUME NEW x \in DOMAIN tasks, tasks'[x].status = "pending",
                 \A y \in tasks'[x].blockedBy : y \in DOMAIN tasks' /\ tasks'[y].status = "complete"
          PROVE  tasks[x].status = "pending"
                 /\ \A y \in tasks[x].blockedBy : y \in DOMAIN tasks /\ tasks[y].status = "complete"
      BY <2>1, <2>4, <2>7, <2>8, <2>9 DEF AllComplete, Exists
    <2> QED BY <2>7, <2>9 DEF NobodyForgotten, WaitsForNothing, AllComplete, Exists
  <1> QED BY <1>2, <1>3, <1>4

-----------------------------------------------------------------------------
(* Theorems *)

\* The inductive invariant: the records of tasks, columns and dependencies agree,
\* and dependencies close no cycle when the calls of one turn do not interleave.
THEOREM BoardInvariantHolds == Spec => []BoardInvariant
  <1>1. Init => BoardInvariant
    BY DEF Init, BoardInvariant, TypeOK, BoardAgrees, DependenciesMirror, DependenciesAreUsed,
           CheckHolds, Acyclic
  <1>2. BoardInvariant /\ [Next]_vars => BoardInvariant'
    <2> SUFFICES ASSUME BoardInvariant, [Next]_vars PROVE BoardInvariant' OBVIOUS
    <2>1. CASE Next
      BY <2>1, RecordCallStep, CreateTaskStep, DeleteTaskStep, CheckDependencyStep,
         WriteDependencyStep, RemoveDependencyStep DEF Next, RecordCall
    <2>2. CASE UNCHANGED vars
      BY <2>2 DEF vars, BoardInvariant, TypeOK, BoardAgrees, DependenciesMirror,
                  DependenciesAreUsed, CheckHolds, Acyclic, WouldCreateCycle, Exists
    <2> QED BY <2>1, <2>2
  <1> QED BY <1>1, <1>2, PTL DEF Spec

\* Every variable stays in its type.
THEOREM BoardTypeCorrect == Spec => []TypeOK
  <1>1. BoardInvariant => TypeOK BY DEF BoardInvariant
  <1> QED BY BoardInvariantHolds, <1>1, PTL

\* The board shows every task once, in the column of its status, whatever calls
\* came in whatever order.
THEOREM BoardAlwaysAgrees == Spec => []BoardAgrees
  <1>1. BoardInvariant => BoardAgrees BY DEF BoardInvariant
  <1> QED BY BoardInvariantHolds, <1>1, PTL

\* The two records of a dependency never differ, also when addDependency is called
\* several times in one turn.
THEOREM DependenciesAlwaysMirror == Spec => []DependenciesMirror
  <1>1. BoardInvariant => DependenciesMirror BY DEF BoardInvariant
  <1> QED BY BoardInvariantHolds, <1>1, PTL

\* No cycle is closed unless two addDependency calls are made in one turn.
THEOREM NoCycles == ASSUME ~ SameTurn PROVE Spec => []Acyclic
  <1>1. BoardInvariant => Acyclic BY DEF BoardInvariant
  <1> QED BY BoardInvariantHolds, <1>1, PTL

\* A ready task has no agent, as long as callers of updateTask do not themselves
\* make tasks pending, ready or blocked.
THEOREM ReadyTasksAreUnassigned ==
    ASSUME ManualStatus \intersect Waiting = {} PROVE Spec => []ReadyIsUnassigned
  <1>1. Init => WaitingIsUnassigned BY DEF Init, WaitingIsUnassigned
  <1>2. BoardInvariant /\ WaitingIsUnassigned /\ [Next]_vars => WaitingIsUnassigned'
    <2> SUFFICES ASSUME BoardInvariant, WaitingIsUnassigned, [Next]_vars
                 PROVE  WaitingIsUnassigned'
      OBVIOUS
    <2>1. CASE Next
      BY <2>1, RecordCallUnassigned, OtherCallUnassigned, DependencyCallUnassigned
        DEF Next, RecordCall
    <2>2. CASE UNCHANGED vars BY <2>2 DEF vars, WaitingIsUnassigned, Unassigned
    <2> QED BY <2>1, <2>2
  <1>3. WaitingIsUnassigned => ReadyIsUnassigned
    BY DEF WaitingIsUnassigned, Unassigned, Waiting, ReadyIsUnassigned
  <1> QED BY BoardInvariantHolds, <1>1, <1>2, <1>3, PTL DEF Spec

\* A task is released by the step that completes or removes what it waits for last:
\* only deleteTask leaves one pending with nothing to wait for, as long as callers
\* of updateTask do not themselves make tasks pending or complete.
THEOREM NobodyIsEverForgotten ==
    ASSUME ManualStatus \intersect Deciding = {} PROVE Spec => NobodyIsForgotten
  <1>1. BoardInvariant /\ [Next]_vars =>
          [\A t \in Task : WaitsForNothing(t)' => WaitsForNothing(t) \/ \E x \in Task : DeleteTask(x)]_vars
    <2> SUFFICES ASSUME BoardInvariant, Next PROVE NobodyForgotten \/ \E x \in Task : DeleteTask(x)
      BY DEF NobodyForgotten
    <2> QED BY RecordCallWaits, CreateWaits, DependencyCallWaits DEF Next, RecordCall
  <1> QED BY BoardInvariantHolds, <1>1, PTL DEF Spec, NobodyIsForgotten
=============================================================================
