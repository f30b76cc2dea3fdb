----------------------------- MODULE TaskBoard ------------------------------
(***************************************************************************)
(* The task board of one swarm session:                                    *)
(* packages/ai-swarm/src/node/task-board-service.ts.                       *)
(*                                                                         *)
(* The tasks, their statuses and columns, and the two redundant records of *)
(* their dependencies.  Everything a call awaits is settled within the     *)
(* turn it was made in, so calls made in different turns do not interleave *)
(* and are one step each; only addDependency, which awaits its cycle check *)
(* before it writes, is split for the case of several calls in one turn.   *)
(* The order of tasks in a column, and what a task says, are left out.     *)
(***************************************************************************)
EXTENDS Naturals, FiniteSets

CONSTANTS
    Task,           \* bound: the ids uuid() hands out, each once
    Agent,
    MaxAttempts,    \* maxAttempts of every task
    ManualStatus,   \* the statuses callers of updateTask set
    SameTurn        \* addDependency is called several times in one turn

Status == {"pending", "ready", "assigned", "in_progress", "review", "revision",
           "blocked", "complete", "failed", "cancelled"}
Column == {"backlog", "ready", "in_progress", "review", "done", "failed"}

ASSUME BoardAssumption ==
    /\ MaxAttempts \in Nat \ {0}
    /\ ManualStatus \subseteq Status
    /\ SameTurn \in BOOLEAN

Nobody == "nobody"
ASSUME NobodyAssumption == Nobody \notin Agent

VARIABLES
    tasks,      \* taskBoard.tasks: the record of each task that exists
    columns,    \* the ids in each of taskBoard.columns
    used,       \* the ids taken so far
    checked     \* addDependency calls past their cycle check

vars == <<tasks, columns, used, checked>>

TaskRecord == [status : Status, column : Column, assignedTo : Agent \union {Nobody},
               attempts : 0 .. MaxAttempts, blockedBy : SUBSET Task, blocks : SUBSET Task]

TypeOK ==
    /\ used \subseteq Task
    /\ DOMAIN tasks \subseteq used
    /\ tasks \in [DOMAIN tasks -> TaskRecord]
    /\ columns \in [Column -> SUBSET Task]
    /\ checked \subseteq Task \X Task

Init ==
    /\ tasks = [t \in {} |-> {}]
    /\ columns = [c \in Column |-> {}]
    /\ used = {}
    /\ checked = {}

-----------------------------------------------------------------------------
Exists(t) == t \in DOMAIN tasks

\* getColumnForStatus
ColumnForStatus(s) ==
    CASE s \in {"pending", "blocked"} -> "backlog"
      [] s \in {"assigned", "in_progress", "revision"} -> "in_progress"
      [] s \in {"failed", "cancelled"} -> "failed"
      [] s = "complete" -> "done"
      [] OTHER -> s

\* areAllDependenciesComplete: an id that does not exist is not complete.
AllComplete(deps) == \A d \in deps : Exists(d) /\ tasks[d].status = "complete"

\* Mutant: the record's column is left behind.
StatusOnly(r, s) == [r EXCEPT !.status = s]

\* What updateTask makes of a task: a status that changes takes the column along.
WithStatus(r, s) ==
    [r EXCEPT !.status = s, !.column = IF r.status = s THEN @ ELSE ColumnForStatus(s)]

\* The board after tasks became ts, each moved to the column of its record.
Becomes(ts) ==
    /\ tasks' = ts
    /\ columns' = [c \in Column |->
         LET moved == {t \in DOMAIN ts : Exists(t) /\ ts[t].column # tasks[t].column}
         IN (columns[c] \ moved) \union {t \in moved : ts[t].column = c}]

Update(t, r) == Becomes([tasks EXCEPT ![t] = r])

\* No call is between its cycle check and its writes.
Settled == checked = {}

-----------------------------------------------------------------------------
\* createTask: a dependency may name a task that was deleted.
CreateTask(t, deps) ==
    /\ Settled
    /\ t \in Task \ used
    /\ deps \subseteq used
    /\ LET status == IF AllComplete(deps) THEN "ready" ELSE "pending"
           column == ColumnForStatus(status)
       IN /\ tasks' = [x \in DOMAIN tasks \union {t} |->
               IF x = t THEN [status |-> status, column |-> column, assignedTo |-> Nobody,
                              attempts |-> 0, blockedBy |-> deps, blocks |-> {}]
               ELSE IF x \in deps THEN [tasks[x] EXCEPT !.blocks = @ \union {t}]
               ELSE tasks[x]]
          /\ columns' = [columns EXCEPT ![column] = @ \union {t}]
    /\ used' = used \union {t}
    /\ UNCHANGED checked

\* updateTask as its callers use it, to set a status.
UpdateTask(t, s) ==
    /\ Settled
    /\ Exists(t)
    /\ Update(t, WithStatus(tasks[t], s))
    /\ UNCHANGED <<used, checked>>

\* Mutant: a deleted task stays in the blocks lists of its dependencies.
Forgetting(r, t) == [r EXCEPT !.blockedBy = @ \ {t}]

Without(r, t) == [r EXCEPT !.blockedBy = @ \ {t}, !.blocks = @ \ {t}]

\* deleteTask: the tasks it blocked keep their status.
DeleteTask(t) ==
    /\ Settled
    /\ Exists(t)
    /\ tasks' = [x \in DOMAIN tasks \ {t} |-> Without(tasks[x], t)]
    /\ columns' = [columns EXCEPT ![tasks[t].column] = @ \ {t}]
    /\ UNCHANGED <<used, checked>>

\* assignTask: neither the status nor the dependencies are looked at.
AssignTask(t, a) ==
    /\ Settled
    /\ Exists(t) /\ tasks[t].assignedTo = Nobody
    /\ Update(t, [WithStatus(tasks[t], "assigned") EXCEPT !.assignedTo = a])
    /\ UNCHANGED <<used, checked>>

UnassignTask(t) ==
    /\ Settled
    /\ Exists(t)
    /\ LET s == IF AllComplete(tasks[t].blockedBy) THEN "ready" ELSE "pending"
       IN Update(t, [WithStatus(tasks[t], s) EXCEPT !.assignedTo = Nobody])
    /\ UNCHANGED <<used, checked>>

\* Mutant: nothing is released.
ReleasedNever(t) == {}

\* The dependents of t that are released once t is complete.
Released(t) ==
    {b \in tasks[t].blocks :
      /\ Exists(b) /\ tasks[b].status \in {"pending", "blocked"}
      /\ AllComplete(tasks[b].blockedBy \ {t})}

\* completeTask: of a task in any status.
CompleteTask(t) ==
    /\ Settled
    /\ Exists(t)
    /\ Becomes([x \in DOMAIN tasks |->
         IF x = t THEN WithStatus(tasks[t], "complete")
         ELSE IF x \in Released(t) THEN WithStatus(tasks[x], "ready")
         ELSE tasks[x]])
    /\ UNCHANGED <<used, checked>>

\* Mutant: a task that is tried again keeps its agent.
RetryWithAgent(t) ==
    [WithStatus(tasks[t], "ready") EXCEPT !.attempts = @ + 1]
Retry(t) ==
    [WithStatus(tasks[t], "ready") EXCEPT !.attempts = @ + 1, !.assignedTo = Nobody]

\* failTask: of a task in any status, its dependencies not looked at.  Attempts
\* past the last make no difference and are not counted.
FailTask(t) ==
    /\ Settled
    /\ Exists(t)
    /\ Update(t, IF tasks[t].attempts + 1 >= MaxAttempts
                   THEN [WithStatus(tasks[t], "failed") EXCEPT !.attempts = MaxAttempts]
                   ELSE Retry(t))
    /\ UNCHANGED <<used, checked>>

\* Mutant: only the dependency's own dependencies are looked at.
ClosesShortCycle(t, d) == t = d \/ t \in tasks[d].blockedBy

\* wouldCreateCycle: t is among what d depends on, that is, in every set that
\* has d and the dependencies of its members.
WouldCreateCycle(t, d) ==
    \A S \in SUBSET Task :
      d \in S /\ (\A x \in S : Exists(x) => tasks[x].blockedBy \subseteq S) => t \in S

\* addDependency up to the await of the cycle check,
CheckDependency(t, d) ==
    /\ Settled \/ SameTurn
    /\ Exists(t) /\ Exists(d)
    /\ ~ WouldCreateCycle(t, d)
    /\ checked' = checked \union {<<t, d>>}
    /\ UNCHANGED <<tasks, columns, used>>

\* and after it: a ready task waits again.
WriteDependency(t, d) ==
    /\ <<t, d>> \in checked
    /\ LET waits == tasks[t].status = "ready" /\ tasks[d].status # "complete"
           r == [tasks[t] EXCEPT !.blockedBy = @ \union {d}]
       IN Becomes([tasks EXCEPT
            ![t] = IF waits THEN WithStatus(r, "pending") ELSE r,
            ![d].blocks = @ \union {t}])
    /\ checked' = checked \ {<<t, d>>}
    /\ UNCHANGED used

RemoveDependency(t, d) ==
    /\ Settled
    /\ Exists(t) /\ Exists(d)
    /\ LET r == [tasks[t] EXCEPT !.blockedBy = @ \ {d}]
           ready == r.status = "pending" /\ AllComplete(r.blockedBy)
       IN Becomes([tasks EXCEPT
            ![t] = IF ready THEN WithStatus(r, "ready") ELSE r,
            ![d].blocks = @ \ {t}])
    /\ UNCHANGED <<used, checked>>

-----------------------------------------------------------------------------
Next ==
    \/ \E t \in Task, deps \in SUBSET Task : CreateTask(t, deps)
    \/ \E t \in Task, s \in ManualStatus : UpdateTask(t, s)
    \/ \E t \in Task, a \in Agent : AssignTask(t, a)
    \/ \E t \in Task : DeleteTask(t) \/ UnassignTask(t) \/ CompleteTask(t) \/ FailTask(t)
    \/ \E t, d \in Task : CheckDependency(t, d) \/ WriteDependency(t, d) \/ RemoveDependency(t, d)

Spec == Init /\ [][Next]_vars

-----------------------------------------------------------------------------
(* Properties *)

\* The board shows every task in one column, the one its status belongs to, and
\* shows no task that is gone.
BoardAgrees ==
    /\ \A t \in DOMAIN tasks : tasks[t].column = ColumnForStatus(tasks[t].status)
    /\ \A c \in Column : columns[c] = {t \in DOMAIN tasks : tasks[t].column = c}

\* blocks is blockedBy seen from the other side: completing or deleting a task
\* finds every task that waits for it and none that is gone.
DependenciesMirror ==
    \A d \in DOMAIN tasks :
      tasks[d].blocks = {t \in DOMAIN tasks : d \in tasks[t].blockedBy}

\* "Task dependencies with cycle detection": no tasks wait for one another in a
\* circle, and getExecutionOrder finds an order.
Acyclic ==
    \A S \in (SUBSET DOMAIN tasks) \ {{}} : \E t \in S : tasks[t].blockedBy \intersect S = {}

\* A ready task has no agent: the delegating phase, which passes over ready tasks
\* that have one, sees it.
ReadyIsUnassigned ==
    \A t \in DOMAIN tasks : tasks[t].status = "ready" => tasks[t].assignedTo = Nobody

\* A pending task whose dependencies are all complete, or that has none.
WaitsForNothing(t) ==
    t \in DOMAIN tasks /\ tasks[t].status = "pending" /\ AllComplete(tasks[t].blockedBy)

\* A pending task is released by the step that completes or removes the last
\* dependency it waits for, since nothing looks at it again later.  Only
\* deleteTask leaves one pending with nothing to wait for.
NobodyIsForgotten ==
    [][\A t \in Task : WaitsForNothing(t)' => WaitsForNothing(t) \/ \E x \in Task : DeleteTask(x)]_vars

\* Why the four invariants hold.  A dependency is on a task that was there once, so
\* that a new task has no dependents; and a call between its cycle check and its
\* writes is about tasks that are still there and, when it is alone, would still pass.
DependenciesAreUsed == \A t \in DOMAIN tasks : tasks[t].blockedBy \subseteq used

CheckHolds ==
    \A t, d \in Task : <<t, d>> \in checked =>
      /\ Exists(t) /\ Exists(d) /\ t # d
      /\ SameTurn \/ (checked = {<<t, d>>} /\ ~ WouldCreateCycle(t, d))

BoardInvariant ==
    /\ TypeOK /\ BoardAgrees /\ DependenciesMirror
    /\ DependenciesAreUsed /\ CheckHolds
    /\ SameTurn \/ Acyclic
=============================================================================
