------------------------------- MODULE Tenancy -------------------------------
(***************************************************************************)
(* Tenant isolation: threads that are used again for one piece of work     *)
(* after another, the context variable of the first layer, the setting of  *)
(* the database connection the policies of the second layer read, and the  *)
(* fields that name the work on its log lines.                             *)
(*                                                                         *)
(* A web thread serves a request inside a transaction, runs its on_commit  *)
(* hooks, sends the body of a stream frame by frame and closes it.  A      *)
(* worker runs a task some request queued, the sweep over all tenants, or  *)
(* the evaluation, whose context is entered again by the ingestion it      *)
(* calls.  A step ends where the thread may read rows, log or fail.        *)
(***************************************************************************)
EXTENDS Integers, Sequences, SequencesExt, FiniteSets

CONSTANTS
  Tenants,     \* the tenants
  WebThreads,  \* threads of the API server
  Workers,     \* processes of the Celery worker
  Requests,    \* request ids; each is used once, which bounds a behaviour
  Nests,       \* may a context be entered inside one of another tenant
  None         \* no tenant, no request, no task, no message

Threads == WebThreads \cup Workers
Labels == [request : Requests \cup {None}, tenant : Tenants \cup {None}, task : {None, "task", "sweep", "eval"}]
Unlabelled == [request |-> None, tenant |-> None, task |-> None]
Messages == [request : Requests, tenant : Tenants, carried : Labels, retried : BOOLEAN]

ASSUME TenancyNone == None \notin Tenants \cup Requests \cup Messages
ASSUME TenancyThreads == WebThreads \cap Workers = {}
ASSUME TenancyNests == Nests \in BOOLEAN

VARIABLES
  pc,       \* what a thread is doing
  ctx,      \* the context variable _current_tenant
  tokens,   \* the values that the open tenant_context blocks will restore
  conn,     \* the connection's setting: the session's, then one per open transaction
            \* or savepoint
  fields,   \* the log fields of the thread
  saved,    \* the fields a streamed response or a task's token keeps
  acting,   \* the tenant the work is for, once known
  job,      \* the request served or the message run
  queueing, \* did the view register a task to publish on commit
  queue,    \* messages in the broker
  used      \* request ids given out

vars == <<pc, ctx, tokens, conn, fields, saved, acting, job, queueing, queue, used>>

TypeOK ==
  /\ pc \in [Threads -> {"idle", "view", "hooks", "leaving", "ending", "late", "sent", "frame", "closing", "task", "sweep", "eval"}]
  /\ ctx \in [Threads -> Tenants \cup {None}]
  /\ \A t \in Threads :
       /\ tokens[t] \in Seq(Tenants \cup {None})
       /\ conn[t] \in Seq(Tenants \cup {None}) /\ conn[t] # <<>>
       /\ job[t] \in {None} \cup Requests \cup Messages
  /\ fields \in [Threads -> Labels] /\ saved \in [Threads -> Labels]
  /\ acting \in [Threads -> Tenants \cup {None}]
  /\ queueing \in [Threads -> BOOLEAN]
  /\ queue \subseteq Messages
  /\ used \subseteq Requests

Init ==
  /\ pc = [t \in Threads |-> "idle"]
  /\ ctx = [t \in Threads |-> None]
  /\ tokens = [t \in Threads |-> <<>>]
  /\ conn = [t \in Threads |-> <<None>>]
  /\ fields = [t \in Threads |-> Unlabelled] /\ saved = [t \in Threads |-> Unlabelled]
  /\ acting = [t \in Threads |-> None]
  /\ job = [t \in Threads |-> None]
  /\ queueing = [t \in Threads |-> FALSE]
  /\ queue = {} /\ used = {}

(***************************************************************************)
(* The two layers                                                          *)
(***************************************************************************)

\* BEGIN or SAVEPOINT, and their ends: SET LOCAL lasts to the end of the
\* transaction, is undone with a savepoint that rolls back and survives one that
\* is released.
Opened(c) == Append(c, Last(c))
RolledBack(c) == Front(c)
\* Variant: the outermost close loses the connection.
ClosedWithSession(c) == IF Len(c) > 2 THEN Front(c) ELSE <<>>
Closed(c) == IF Len(c) > 2 THEN [Front(c) EXCEPT ![Len(c) - 1] = Last(c)] ELSE Front(c)

\* Variant: a setting for the whole session.
SetSession(c, a) == [i \in DOMAIN c |-> a]

\* sync_db_tenant: a setting for the transaction that is open.
SetLocal(c, a) == IF Len(c) > 1 THEN [c EXCEPT ![Len(c)] = a] ELSE c

\* The tenants whose rows the manager's filter and the policies let through, and
\* the tenant a saved row lands in; given is the tenant the caller set on the row.
ByManager(t) == {ctx[t]} \ {None}
ByPolicy(t) == {Last(conn[t])} \ {None}
SavedFor(t, given) ==
  CASE given = None -> ctx[t]
    [] given # None /\ ctx[t] \in {None, given} -> given
    [] OTHER -> None

(***************************************************************************)
(* The log fields                                                          *)
(***************************************************************************)

\* The fields a line logged by the thread now carries.
Line(t) == [fields[t] EXCEPT !.tenant = IF ctx[t] # None THEN ctx[t] ELSE @]

\* What the filter puts on a record: a record that carries its request falls back on
\* the fields left there.
RecordFields(t) ==
  [k \in DOMAIN fields[t] |->
     IF Line(t)[k] = None /\ pc[t] = "late" THEN saved[t][k] ELSE Line(t)[k]]

\* What travels in a message's headers, and what a worker runs the task in: a
\* message that carried nothing inherits the fields of the worker.
Carried(t) == [Line(t) EXCEPT !.task = None]
Entered(t, carried, task) ==
  [IF carried # Unlabelled THEN carried ELSE Line(t) EXCEPT !.task = task]

(***************************************************************************)
(* A request                                                               *)
(***************************************************************************)

\* The outermost middleware opens the log scope; the view runs in a transaction.
Begin(t, r) ==
  /\ pc[t] = "idle" /\ t \in WebThreads /\ r \notin used
  /\ used' = used \cup {r}
  /\ pc' = [pc EXCEPT ![t] = "view"]
  /\ job' = [job EXCEPT ![t] = r]
  /\ fields' = [fields EXCEPT ![t] = [Unlabelled EXCEPT !.request = r]]
  /\ conn' = [conn EXCEPT ![t] = Opened(@)]
  /\ UNCHANGED <<ctx, tokens, saved, acting, queueing, queue>>

\* Variant: the label and the variable alone, which leaves the policies without a tenant.
AuthenticateOneLayer(t, a) ==
  /\ pc[t] = "view" /\ acting[t] = None
  /\ acting' = [acting EXCEPT ![t] = a]
  /\ ctx' = [ctx EXCEPT ![t] = a]
  /\ fields' = [fields EXCEPT ![t].tenant = a]
  /\ UNCHANGED <<pc, tokens, conn, saved, job, queueing, queue, used>>

\* The token is verified and the member found: both layers and the label are set.
Authenticate(t, a) ==
  /\ pc[t] = "view" /\ acting[t] = None
  /\ acting' = [acting EXCEPT ![t] = a]
  /\ ctx' = [ctx EXCEPT ![t] = a]
  /\ conn' = [conn EXCEPT ![t] = SetLocal(@, a)]
  /\ fields' = [fields EXCEPT ![t].tenant = a]
  /\ UNCHANGED <<pc, tokens, saved, job, queueing, queue, used>>

\* A view stores a document and asks for its task on commit.
Enqueue(t) ==
  /\ pc[t] = "view" /\ acting[t] # None /\ ~queueing[t]
  /\ queueing' = [queueing EXCEPT ![t] = TRUE]
  /\ UNCHANGED <<pc, ctx, tokens, conn, fields, saved, acting, job, queue, used>>

\* The view returns and its transaction commits, or it raises.
CommitView(t) ==
  /\ pc[t] = "view"
  /\ conn' = [conn EXCEPT ![t] = Closed(@)]
  /\ pc' = [pc EXCEPT ![t] = IF queueing[t] THEN "hooks" ELSE "leaving"]
  /\ UNCHANGED <<ctx, tokens, fields, saved, acting, job, queueing, queue, used>>

AbortView(t) ==
  /\ pc[t] = "view"
  /\ conn' = [conn EXCEPT ![t] = RolledBack(@)]
  /\ queueing' = [queueing EXCEPT ![t] = FALSE]
  /\ pc' = [pc EXCEPT ![t] = "leaving"]
  /\ UNCHANGED <<ctx, tokens, fields, saved, acting, job, queue, used>>

\* on_commit runs before the middleware clears the tenant.
Publish(t) ==
  /\ pc[t] = "hooks"
  /\ queue' = queue \cup
       {[request |-> job[t], tenant |-> acting[t], carried |-> Carried(t), retried |-> FALSE]}
  /\ queueing' = [queueing EXCEPT ![t] = FALSE]
  /\ pc' = [pc EXCEPT ![t] = "leaving"]
  /\ UNCHANGED <<ctx, tokens, conn, fields, saved, acting, job, used>>

\* TenantContextMiddleware's finally.
ClearTenant(t) ==
  /\ pc[t] = "leaving"
  /\ ctx' = [ctx EXCEPT ![t] = None]
  /\ pc' = [pc EXCEPT ![t] = "ending"]
  /\ UNCHANGED <<tokens, conn, fields, saved, acting, job, queueing, queue, used>>

\* The thread is done; its fields go back to what they were before the work.
Idle(t) ==
  /\ pc' = [pc EXCEPT ![t] = "idle"]
  /\ acting' = [acting EXCEPT ![t] = None]
  /\ job' = [job EXCEPT ![t] = None]
  /\ saved' = [saved EXCEPT ![t] = Unlabelled]

\* The request's line is logged and its scope ends; its fields stay on the request,
\* for the line Django logs after the middleware have returned.
EndRequest(t) ==
  /\ pc[t] = "ending"
  /\ saved' = [saved EXCEPT ![t] = Line(t)]
  /\ fields' = [fields EXCEPT ![t] = Unlabelled]
  /\ pc' = [pc EXCEPT ![t] = "late"]
  /\ UNCHANGED <<ctx, tokens, conn, acting, job, queueing, queue, used>>

Respond(t) ==
  /\ pc[t] = "late"
  /\ Idle(t)
  /\ UNCHANGED <<ctx, tokens, conn, fields, queueing, queue, used>>

\* A stream's body is still to be sent: the response keeps the fields as they stand.
BeginStream(t) ==
  /\ pc[t] = "ending" /\ acting[t] # None
  /\ saved' = [saved EXCEPT ![t] = Line(t)]
  /\ fields' = [fields EXCEPT ![t] = Unlabelled]
  /\ pc' = [pc EXCEPT ![t] = "sent"]
  /\ UNCHANGED <<ctx, tokens, conn, acting, job, queueing, queue, used>>

\* A frame is produced inside the request's fields and sent outside them.
ProduceFrame(t) ==
  /\ pc[t] = "sent"
  /\ fields' = [fields EXCEPT ![t] = saved[t]]
  /\ pc' = [pc EXCEPT ![t] = "frame"]
  /\ UNCHANGED <<ctx, tokens, conn, saved, acting, job, queueing, queue, used>>

SendFrame(t) ==
  /\ pc[t] = "frame"
  /\ fields' = [fields EXCEPT ![t] = Unlabelled]
  /\ pc' = [pc EXCEPT ![t] = "sent"]
  /\ UNCHANGED <<ctx, tokens, conn, saved, acting, job, queueing, queue, used>>

\* Variant: the fields of the request are not put back.
CloseBare(t) ==
  /\ pc[t] = "sent"
  /\ pc' = [pc EXCEPT ![t] = "closing"]
  /\ UNCHANGED <<ctx, tokens, conn, fields, saved, acting, job, queueing, queue, used>>

\* The close of a client that hung up, or the last frame: the view accounts for the
\* answer in a context of its own.
CloseStream(t) ==
  /\ pc[t] = "sent"
  /\ fields' = [fields EXCEPT ![t] = saved[t]]
  /\ pc' = [pc EXCEPT ![t] = "closing"]
  /\ UNCHANGED <<ctx, tokens, conn, saved, acting, job, queueing, queue, used>>

EndStream(t) ==
  /\ pc[t] = "closing" /\ tokens[t] = <<>>
  /\ fields' = [fields EXCEPT ![t] = Unlabelled]
  /\ Idle(t)
  /\ UNCHANGED <<ctx, tokens, conn, queueing, queue, used>>

(***************************************************************************)
(* Tasks and contexts                                                      *)
(***************************************************************************)

\* task_prerun, for a task from the queue, for beat's sweep and for a command.
StartTask(t, m) ==
  /\ pc[t] = "idle" /\ t \in Workers /\ m \in queue
  /\ queue' = queue \ {m}
  /\ pc' = [pc EXCEPT ![t] = "task"]
  /\ job' = [job EXCEPT ![t] = m]
  /\ acting' = [acting EXCEPT ![t] = m.tenant]
  /\ saved' = [saved EXCEPT ![t] = fields[t]]
  /\ fields' = [fields EXCEPT ![t] = Entered(t, m.carried, "task")]
  /\ UNCHANGED <<ctx, tokens, conn, queueing, used>>

StartSweep(t) ==
  /\ pc[t] = "idle" /\ t \in Workers
  /\ pc' = [pc EXCEPT ![t] = "sweep"]
  /\ saved' = [saved EXCEPT ![t] = fields[t]]
  /\ fields' = [fields EXCEPT ![t] = Entered(t, Unlabelled, "sweep")]
  /\ UNCHANGED <<ctx, tokens, conn, acting, job, queueing, queue, used>>

StartEvaluation(t, a) ==
  /\ pc[t] = "idle" /\ t \in Workers
  /\ pc' = [pc EXCEPT ![t] = "eval"]
  /\ acting' = [acting EXCEPT ![t] = a]
  /\ UNCHANGED <<ctx, tokens, conn, fields, saved, job, queueing, queue, used>>

\* How deep the work of a thread nests its contexts.
Depth(t) ==
  CASE pc[t] \in {"closing", "task", "sweep"} -> 1
    [] pc[t] = "eval" -> 2
    [] OTHER -> 0

\* tenant_context: the variable, then a transaction or savepoint with its setting.
Enter(t, a) ==
  /\ Len(tokens[t]) < Depth(t)
  /\ IF pc[t] = "sweep" \/ (Nests /\ tokens[t] # <<>>) THEN TRUE ELSE a = acting[t]
  /\ tokens' = [tokens EXCEPT ![t] = Append(@, ctx[t])]
  /\ ctx' = [ctx EXCEPT ![t] = a]
  /\ conn' = [conn EXCEPT ![t] = SetLocal(Opened(@), a)]
  /\ acting' = [acting EXCEPT ![t] = a]
  /\ UNCHANGED <<pc, fields, saved, job, queueing, queue, used>>

\* The block ends or raises, and the token restores the variable.
Exit(t) ==
  /\ tokens[t] # <<>>
  /\ \E ended \in {Closed(conn[t]), RolledBack(conn[t])} : conn' = [conn EXCEPT ![t] = ended]
  /\ ctx' = [ctx EXCEPT ![t] = Last(tokens[t])]
  /\ tokens' = [tokens EXCEPT ![t] = Front(@)]
  /\ acting' = [acting EXCEPT ![t] = IF pc[t] = "sweep" \/ Last(tokens[t]) # None
                                       THEN Last(tokens[t]) ELSE @]
  /\ UNCHANGED <<pc, fields, saved, job, queueing, queue, used>>

\* A transient failure publishes the message again, with the headers it came with.
Retry(t) ==
  /\ pc[t] = "task" /\ tokens[t] = <<>> /\ ~job[t].retried
  /\ queue' = queue \cup {[job[t] EXCEPT !.retried = TRUE]}
  /\ fields' = [fields EXCEPT ![t] = saved[t]]
  /\ Idle(t)
  /\ UNCHANGED <<ctx, tokens, conn, queueing, used>>

\* task_postrun, whatever became of the task.
EndWork(t) ==
  /\ pc[t] \in {"task", "sweep", "eval"} /\ tokens[t] = <<>>
  /\ fields' = [fields EXCEPT ![t] = saved[t]]
  /\ Idle(t)
  /\ UNCHANGED <<ctx, tokens, conn, queueing, queue, used>>

RequestStep(t) ==
  \/ \E r \in Requests : Begin(t, r)
  \/ \E a \in Tenants : Authenticate(t, a)
  \/ Enqueue(t) \/ CommitView(t) \/ AbortView(t) \/ Publish(t) \/ ClearTenant(t)
  \/ EndRequest(t) \/ Respond(t) \/ BeginStream(t) \/ ProduceFrame(t) \/ SendFrame(t)
  \/ CloseStream(t) \/ EndStream(t)

WorkStep(t) ==
  \/ \E m \in queue : StartTask(t, m)
  \/ StartSweep(t) \/ \E a \in Tenants : StartEvaluation(t, a)
  \/ \E a \in Tenants : Enter(t, a)
  \/ Exit(t) \/ Retry(t) \/ EndWork(t)

Next == \E t \in Threads : RequestStep(t) \/ WorkStep(t)

Spec == Init /\ [][Next]_vars

(***************************************************************************)
(* Properties                                                              *)
(***************************************************************************)

\* Code that touches a tenant's tables: a view that authenticated, an open context.
MayAccess(t) == (pc[t] = "view" /\ acting[t] # None) \/ tokens[t] # <<>>

\* Wherever rows are read or saved, each layer on its own lets through exactly the
\* rows of the tenant the work is for, and a row saved lands with that tenant: no
\* earlier request, stream, task or nested context changes that, and neither layer
\* hides the tenant's own rows.
ActsForItsTenant ==
  \A t \in Threads : MayAccess(t) =>
    /\ ByManager(t) = {acting[t]} /\ ByPolicy(t) = {acting[t]}
    /\ \A given \in {None, acting[t]} : SavedFor(t, given) = acting[t]

\* A thread that is free keeps nothing of its last work, and one that sends a frame
\* or runs a task between its contexts has no tenant in either layer.
NothingLeft ==
  \A t \in Threads :
    /\ pc[t] = "idle" => fields[t] = Unlabelled /\ tokens[t] = <<>>
    /\ pc[t] # "view" /\ tokens[t] = <<>> => conn[t] = <<None>>
    /\ pc[t] \notin {"view", "hooks", "leaving"} /\ tokens[t] = <<>> => ctx[t] = None

\* Every line of a request, its stream, its close and the tasks it queued names that
\* request and its tenant, a retry's lines included, and no other work's.
LinesNameTheirWork ==
  \A t \in Threads :
    /\ pc[t] \notin {"idle", "sent", "task", "sweep", "eval"} =>
         RecordFields(t) = [request |-> job[t], tenant |-> acting[t], task |-> None]
    /\ pc[t] = "task" =>
         RecordFields(t) = [request |-> job[t].request, tenant |-> job[t].tenant, task |-> "task"]
    /\ pc[t] = "sweep" => RecordFields(t) = [request |-> None, tenant |-> acting[t], task |-> "sweep"]
=============================================================================
