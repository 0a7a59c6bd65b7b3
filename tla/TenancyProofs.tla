---------------------------- MODULE TenancyProofs ----------------------------
(***************************************************************************)
(* What Tenancy guarantees for every number of tenants, threads, workers   *)
(* and requests, as long as no context is entered inside one of another    *)
(* tenant: the code enters contexts of one tenant inside each other only.  *)
(***************************************************************************)
EXTENDS Tenancy, SequenceTheorems, TLAPS

(***************************************************************************)
(* What a thread carries at every point of its work.                       *)
(***************************************************************************)

Serving == {"view", "hooks", "leaving", "ending", "late", "sent", "frame", "closing"}

\* The contexts a thread has open, at most one inside another of the same tenant: in
\* them both layers are that tenant's, outside both are nobody's.
Outside(t) == tokens[t] = <<>> /\ conn[t] = <<None>> /\ ctx[t] = None
Inside(t) ==
  /\ tokens[t] = <<None>> /\ conn[t] = <<None, acting[t]>> /\ ctx[t] = acting[t]
  /\ acting[t] \in Tenants
InsideTwice(t) ==
  /\ tokens[t] = <<None, acting[t]>> /\ conn[t] = <<None, acting[t], acting[t]>>
  /\ ctx[t] = acting[t] /\ acting[t] \in Tenants

\* A request has a transaction of its own while its view runs, and its tenant until the
\* middleware clears it.
LayersFit(t) ==
  /\ pc[t] = "view" => tokens[t] = <<>> /\ conn[t] = <<None, acting[t]>> /\ ctx[t] = acting[t]
  /\ pc[t] \in {"hooks", "leaving"} => tokens[t] = <<>> /\ conn[t] = <<None>> /\ ctx[t] = acting[t]
  /\ pc[t] \in {"idle", "ending", "late", "sent", "frame"} => Outside(t)
  /\ pc[t] \in {"closing", "task", "sweep"} => Outside(t) \/ Inside(t)
  /\ pc[t] = "eval" => Outside(t) \/ Inside(t) \/ InsideTwice(t)

\* The request or message a thread works on, and for whom.
CarriesItsLabels(m) ==
  m \in Messages /\ m.carried = [request |-> m.request, tenant |-> m.tenant, task |-> None]

WorkFits(t) ==
  /\ acting[t] \in Tenants \cup {None}
  /\ pc[t] \in Serving => job[t] \in Requests
  /\ pc[t] \in {"hooks", "sent", "frame", "closing", "task", "eval"} => acting[t] \in Tenants
  /\ pc[t] = "task" => CarriesItsLabels(job[t]) /\ acting[t] = job[t].tenant
  /\ pc[t] \in {"idle", "sweep", "eval"} => job[t] = None
  /\ pc[t] = "idle" => acting[t] = None
  /\ pc[t] = "sweep" /\ tokens[t] = <<>> => acting[t] = None
  /\ queueing[t] \in BOOLEAN
  /\ queueing[t] => pc[t] \in {"view", "hooks"} /\ acting[t] # None

\* The labels of the work, on the thread or kept for it.
Served(t) == [request |-> job[t], tenant |-> acting[t], task |-> None]

LabelsFit(t) ==
  /\ pc[t] \in {"idle", "late", "sent", "eval"} => fields[t] = Unlabelled
  /\ pc[t] \in {"view", "hooks", "leaving", "ending", "frame", "closing"} => fields[t] = Served(t)
  /\ pc[t] = "task" =>
       fields[t] = [request |-> job[t].request, tenant |-> job[t].tenant, task |-> "task"]
  /\ pc[t] = "sweep" => fields[t] = [Unlabelled EXCEPT !.task = "sweep"]
  /\ pc[t] \in {"idle", "view", "hooks", "leaving", "ending", "task", "sweep", "eval"} =>
       saved[t] = Unlabelled
  /\ pc[t] \in {"late", "sent", "frame", "closing"} => saved[t] = Served(t)

ThreadFits(t) ==
  /\ pc[t] \in Serving \cup {"idle", "task", "sweep", "eval"}
  /\ LayersFit(t) /\ WorkFits(t) /\ LabelsFit(t)

\* A variable that holds something for every thread.
Shapes ==
  /\ pc = [t \in Threads |-> pc[t]] /\ ctx = [t \in Threads |-> ctx[t]]
  /\ tokens = [t \in Threads |-> tokens[t]] /\ conn = [t \in Threads |-> conn[t]]
  /\ fields = [t \in Threads |-> fields[t]] /\ saved = [t \in Threads |-> saved[t]]
  /\ acting = [t \in Threads |-> acting[t]] /\ job = [t \in Threads |-> job[t]]
  /\ queueing = [t \in Threads |-> queueing[t]]

QueueFits == \A m \in queue : CarriesItsLabels(m)

TenancyInv ==
  /\ Shapes
  /\ \A t \in Threads : ThreadFits(t)
  /\ QueueFits
  /\ used \subseteq Requests

-----------------------------------------------------------------------------
(***************************************************************************)
(* Transactions and savepoints on connections of the depths that happen.   *)
(***************************************************************************)

\* Short sequences are the tuples of their elements.
LEMMA ShortSequences ==
  ASSUME NEW S, NEW s \in Seq(S)
  PROVE  /\ Len(s) = 0 => s = <<>>
         /\ Len(s) = 1 => s = <<s[1]>>
         /\ Len(s) = 2 => s = <<s[1], s[2]>>
         /\ Len(s) = 3 => s = <<s[1], s[2], s[3]>>
<1>1. \A n \in 1..Len(s) : s[n] \in S
  BY ElementOfSeq
<1>2. Len(s) = 0 => s = <<>>
  BY EmptySeq
<1>3. ASSUME Len(s) = 1 PROVE s = <<s[1]>>
  <2>1. s[1] \in S
    BY <1>1, <1>3
  <2>2. <<s[1]>> \in Seq(S) /\ Len(<<s[1]>>) = 1
    BY <2>1
  <2> QED
    BY <1>3, <2>2, SeqEqual
<1>4. ASSUME Len(s) = 2 PROVE s = <<s[1], s[2]>>
  <2>1. s[1] \in S /\ s[2] \in S
    BY <1>1, <1>4
  <2>2. <<s[1], s[2]>> \in Seq(S) /\ Len(<<s[1], s[2]>>) = 2
    BY <2>1
  <2>3. \A i \in 1 .. Len(s) : s[i] = <<s[1], s[2]>>[i]
    BY <1>4
  <2> QED
    BY <1>4, <2>2, <2>3, SeqEqual
<1>5. ASSUME Len(s) = 3 PROVE s = <<s[1], s[2], s[3]>>
  <2>1. s[1] \in S /\ s[2] \in S /\ s[3] \in S
    BY <1>1, <1>5
  <2>2. <<s[1], s[2], s[3]>> \in Seq(S) /\ Len(<<s[1], s[2], s[3]>>) = 3
    BY <2>1
  <2>3. \A i \in 1 .. Len(s) : s[i] = <<s[1], s[2], s[3]>>[i]
    BY <1>5
  <2> QED
    BY <1>5, <2>2, <2>3, SeqEqual
<1> QED
  BY <1>2, <1>3, <1>4, <1>5

\* Pushing on a short tuple, and dropping its last element.
LEMMA ShortTuples ==
  ASSUME NEW x, NEW y, NEW z
  PROVE  /\ Append(<<>>, x) = <<x>> /\ Append(<<x>>, y) = <<x, y>>
         /\ Append(<<x, y>>, z) = <<x, y, z>>
         /\ Front(<<x>>) = <<>> /\ Front(<<x, y>>) = <<x>> /\ Front(<<x, y, z>>) = <<x, y>>
         /\ Last(<<x>>) = x /\ Last(<<x, y>>) = y /\ Last(<<x, y, z>>) = z
<1> DEFINE S == {x, y, z}
<1>1. x \in S /\ y \in S /\ z \in S
  OBVIOUS
<1>2. <<>> \in Seq(S) /\ <<x>> \in Seq(S) /\ <<x, y>> \in Seq(S) /\ <<x, y, z>> \in Seq(S)
  BY <1>1
<1> HIDE DEF S
<1>3. Append(<<>>, x) = <<x>>
  <2>1. Append(<<>>, x) \in Seq(S) /\ Len(Append(<<>>, x)) = 1 /\ Append(<<>>, x)[1] = x
    BY <1>1, <1>2, AppendProperties, Len(<<>>) = 0
  <2> QED
    BY <2>1, ShortSequences
<1>4. Append(<<x>>, y) = <<x, y>>
  <2>1. /\ Append(<<x>>, y) \in Seq(S) /\ Len(Append(<<x>>, y)) = 2
        /\ Append(<<x>>, y)[1] = x /\ Append(<<x>>, y)[2] = y
    BY <1>1, <1>2, AppendProperties, Len(<<x>>) = 1
  <2> QED
    BY <2>1, ShortSequences
<1>5. Append(<<x, y>>, z) = <<x, y, z>>
  <2>1. /\ Append(<<x, y>>, z) \in Seq(S) /\ Len(Append(<<x, y>>, z)) = 3
        /\ Append(<<x, y>>, z)[1] = x /\ Append(<<x, y>>, z)[2] = y
        /\ Append(<<x, y>>, z)[3] = z
    BY <1>1, <1>2, AppendProperties, Len(<<x, y>>) = 2
  <2> QED
    BY <2>1, ShortSequences
<1>6. Front(<<x>>) = <<>>
  <2>1. SubSeq(<<x>>, 1, 0) = <<>>
    BY SubSeqEmpty
  <2> QED
    BY <2>1 DEF Front
<1>7. Front(<<x, y>>) = <<x>>
  <2>1. Front(<<x, y>>) = SubSeq(<<x, y>>, 1, 1)
    BY DEF Front
  <2>2. \A i \in 1 .. 1 : <<x, y>>[i] \in S
    BY <1>1
  <2>3. /\ SubSeq(<<x, y>>, 1, 1) \in Seq(S) /\ Len(SubSeq(<<x, y>>, 1, 1)) = 1
        /\ SubSeq(<<x, y>>, 1, 1)[1] = x
    BY <2>2, SubSeqProperties
  <2> QED
    BY <2>1, <2>3, ShortSequences
<1>8. Front(<<x, y, z>>) = <<x, y>>
  <2>1. Front(<<x, y, z>>) = SubSeq(<<x, y, z>>, 1, 2)
    BY DEF Front
  <2>2. \A i \in 1 .. 2 : <<x, y, z>>[i] \in S
    BY <1>1
  <2>3. /\ SubSeq(<<x, y, z>>, 1, 2) \in Seq(S) /\ Len(SubSeq(<<x, y, z>>, 1, 2)) = 2
        /\ SubSeq(<<x, y, z>>, 1, 2)[1] = x /\ SubSeq(<<x, y, z>>, 1, 2)[2] = y
    BY <2>2, SubSeqProperties
  <2> QED
    BY <2>1, <2>3, ShortSequences
<1>9. Last(<<x>>) = x /\ Last(<<x, y>>) = y /\ Last(<<x, y, z>>) = z
  BY DEF Last
<1> QED
  BY <1>3, <1>4, <1>5, <1>6, <1>7, <1>8, <1>9

\* A transaction starts with the setting below it, the tenant's setting is its own, and
\* both its ends leave what was below.
LEMMA OneTransaction ==
  ASSUME NEW x, NEW a, NEW b
  PROVE  /\ Opened(<<x>>) = <<x, x>>
         /\ SetLocal(<<x, a>>, b) = <<x, b>>
         /\ Closed(<<x, a>>) = <<x>> /\ RolledBack(<<x, a>>) = <<x>>
<1>1. Opened(<<x>>) = <<x, x>>
  BY ShortTuples, ZenonT(60) DEF Opened
<1>2. SetLocal(<<x, a>>, b) = <<x, b>>
  BY DEF SetLocal
<1>3. Len(<<x, a>>) = 2 /\ Front(<<x, a>>) = <<x>>
  BY ShortTuples
<1> QED
  BY <1>1, <1>2, <1>3 DEF Closed, RolledBack

\* The same for a savepoint inside a transaction with the same tenant's setting.
LEMMA OneSavepoint ==
  ASSUME NEW x, NEW a
  PROVE  /\ SetLocal(Opened(<<x, a>>), a) = <<x, a, a>>
         /\ Closed(<<x, a, a>>) = <<x, a>> /\ RolledBack(<<x, a, a>>) = <<x, a>>
<1>1. /\ Append(<<x, a>>, a) = <<x, a, a>>
      /\ Front(<<x, a, a>>) = <<x, a>> /\ Last(<<x, a, a>>) = a /\ Last(<<x, a>>) = a
  <2>1. Append(<<x, a>>, a) = <<x, a, a>>
    BY ShortTuples, Zenon
  <2>2. Front(<<x, a, a>>) = <<x, a>>
    BY ShortTuples, ZenonT(60)
  <2>3. Last(<<x, a, a>>) = a /\ Last(<<x, a>>) = a
    BY DEF Last
  <2> QED
    BY <2>1, <2>2, <2>3
<1>2. Opened(<<x, a>>) = <<x, a, a>>
  BY <1>1 DEF Opened
<1>3. SetLocal(<<x, a, a>>, a) = <<x, a, a>>
  BY DEF SetLocal
<1>4. Len(<<x, a, a>>) = 3 /\ [<<x, a>> EXCEPT ![2] = a] = <<x, a>>
  OBVIOUS
<1>5. Closed(<<x, a, a>>) = <<x, a>>
  BY <1>1, <1>4 DEF Closed
<1> QED
  BY <1>1, <1>2, <1>3, <1>5 DEF RolledBack

-----------------------------------------------------------------------------
(***************************************************************************)
(* A step of one thread leaves the others alone.                           *)
(***************************************************************************)

Same(u) ==
  /\ pc'[u] = pc[u] /\ ctx'[u] = ctx[u] /\ tokens'[u] = tokens[u] /\ conn'[u] = conn[u]
  /\ fields'[u] = fields[u] /\ saved'[u] = saved[u] /\ acting'[u] = acting[u]
  /\ job'[u] = job[u] /\ queueing'[u] = queueing[u]

\* What a step of t changes is t's alone.
Alone(t) == Shapes' /\ \A u \in Threads \ {t} : Same(u)

\* What nobody else touched still fits.
LEMMA OthersStillFit ==
  ASSUME NEW u, ThreadFits(u), Same(u)
  PROVE  ThreadFits(u)'
<1>1. LayersFit(u)'
  BY DEF ThreadFits, LayersFit, Same, Outside, Inside, InsideTwice
<1>2. WorkFits(u)'
  BY DEF ThreadFits, WorkFits, Same, CarriesItsLabels, Serving
<1>3. LabelsFit(u)'
  BY DEF ThreadFits, LabelsFit, Same, Served
<1> QED
  BY <1>1, <1>2, <1>3 DEF ThreadFits, Same

\* So a step need only be checked on its own thread, and on the queue if it publishes.
LEMMA PublishingStep ==
  ASSUME TenancyInv, NEW t \in Threads, Alone(t), ThreadFits(t)', QueueFits', used' = used
  PROVE  TenancyInv'
<1>1. \A u \in Threads \ {t} : ThreadFits(u)'
  BY OthersStillFit DEF TenancyInv, Alone
<1> QED
  BY <1>1 DEF TenancyInv, Alone

LEMMA QuietStep ==
  ASSUME TenancyInv, NEW t \in Threads, Alone(t), pc'[t] \in Serving \cup {"idle", "task", "sweep", "eval"},
         LayersFit(t)', WorkFits(t)', LabelsFit(t)', queue' \subseteq queue, used' \subseteq Requests
  PROVE  TenancyInv'
<1>1. \A u \in Threads \ {t} : ThreadFits(u)'
  BY OthersStillFit DEF TenancyInv, Alone
<1>2. QueueFits'
  BY DEF TenancyInv, QueueFits, CarriesItsLabels
<1> QED
  BY <1>1, <1>2 DEF TenancyInv, Alone, ThreadFits

\* A new request finds a thread that keeps nothing.
LEMMA BeginFits ==
  ASSUME TenancyInv, NEW t \in Threads, NEW r \in Requests, Begin(t, r)
  PROVE  TenancyInv'
<1>1. Alone(t)
  BY DEF TenancyInv, Shapes, Alone, Same, Begin
<1>2. ThreadFits(t) /\ pc[t] = "idle"
  BY DEF TenancyInv, Begin
<1>3. /\ pc'[t] = "view" /\ job'[t] = r /\ fields'[t] = [Unlabelled EXCEPT !.request = r]
      /\ conn'[t] = Opened(conn[t]) /\ used' = used \cup {r}
      /\ UNCHANGED <<ctx, tokens, saved, acting, queueing, queue>>
  BY DEF TenancyInv, Shapes, Begin
<1>a. conn'[t] = <<None, None>>
  BY <1>2, <1>3, OneTransaction DEF ThreadFits, LayersFit, Outside
<1>4. LayersFit(t)'
  BY <1>2, <1>3, <1>a DEF ThreadFits, LayersFit, WorkFits, Outside
<1>5. WorkFits(t)'
  BY <1>2, <1>3 DEF ThreadFits, WorkFits, Serving
<1>6. LabelsFit(t)'
  BY <1>2, <1>3 DEF ThreadFits, LabelsFit, WorkFits, Serving, Served, Unlabelled
<1>7. used' \subseteq Requests
  BY <1>3 DEF TenancyInv
<1> QED
  BY <1>1, <1>2, <1>3, <1>4, <1>5, <1>6, <1>7, QuietStep DEF ThreadFits, Serving

\* Both layers and the label are set together.
LEMMA AuthenticateFits ==
  ASSUME TenancyInv, NEW t \in Threads, NEW a \in Tenants, Authenticate(t, a)
  PROVE  TenancyInv'
<1>1. Alone(t)
  BY DEF TenancyInv, Shapes, Alone, Same, Authenticate
<1>2. ThreadFits(t) /\ pc[t] = "view" /\ acting[t] = None
  BY DEF TenancyInv, Authenticate
<1>3. /\ acting'[t] = a /\ ctx'[t] = a /\ conn'[t] = SetLocal(conn[t], a)
      /\ fields'[t] = [fields[t] EXCEPT !.tenant = a]
      /\ UNCHANGED <<pc, tokens, saved, job, queueing, queue, used>>
  BY DEF TenancyInv, Shapes, Authenticate
<1>a. conn[t] = <<None, None>>
  BY <1>2 DEF ThreadFits, LayersFit
<1>b. conn'[t] = <<None, a>>
  <2>1. SetLocal(<<None, None>>, a) = <<None, a>>
    BY OneTransaction, Zenon
  <2> QED
    BY <1>a, <1>3, <2>1
<1>4. LayersFit(t)'
  BY <1>2, <1>3, <1>b DEF ThreadFits, LayersFit
<1>5. WorkFits(t)'
  BY <1>2, <1>3 DEF ThreadFits, WorkFits, Serving
<1>6. LabelsFit(t)'
  BY <1>2, <1>3 DEF ThreadFits, LabelsFit, WorkFits, Serving, Served, Unlabelled
<1>7. used' \subseteq Requests
  BY <1>3 DEF TenancyInv
<1> QED
  BY <1>1, <1>2, <1>3, <1>4, <1>5, <1>6, <1>7, QuietStep DEF ThreadFits, Serving

\* Only a view that knows its tenant queues a task.
LEMMA EnqueueFits ==
  ASSUME TenancyInv, NEW t \in Threads, Enqueue(t)
  PROVE  TenancyInv'
<1>1. Alone(t)
  BY DEF TenancyInv, Shapes, Alone, Same, Enqueue
<1>2. ThreadFits(t) /\ pc[t] = "view" /\ acting[t] # None
  BY DEF TenancyInv, Enqueue
<1>3. queueing'[t] = TRUE /\ UNCHANGED <<pc, ctx, tokens, conn, fields, saved, acting, job, queue, used>>
  BY DEF TenancyInv, Shapes, Enqueue
<1>4. LayersFit(t)'
  BY <1>2, <1>3 DEF ThreadFits, LayersFit, WorkFits, Outside, Inside
<1>5. WorkFits(t)'
  BY <1>2, <1>3 DEF ThreadFits, WorkFits, Serving
<1>6. LabelsFit(t)'
  BY <1>2, <1>3 DEF ThreadFits, LabelsFit, WorkFits, Serving, Served, Unlabelled
<1>7. used' \subseteq Requests
  BY <1>3 DEF TenancyInv
<1> QED
  BY <1>1, <1>2, <1>3, <1>4, <1>5, <1>6, <1>7, QuietStep DEF ThreadFits, Serving

\* The commit and the rollback leave the session's setting, which is nobody's.
LEMMA CommitViewFits ==
  ASSUME TenancyInv, NEW t \in Threads, CommitView(t)
  PROVE  TenancyInv'
<1>1. Alone(t)
  BY DEF TenancyInv, Shapes, Alone, Same, CommitView
<1>2. ThreadFits(t) /\ pc[t] = "view"
  BY DEF TenancyInv, CommitView
<1>3. /\ conn'[t] = Closed(conn[t]) /\ pc'[t] = IF queueing[t] THEN "hooks" ELSE "leaving"
      /\ UNCHANGED <<ctx, tokens, fields, saved, acting, job, queueing, queue, used>>
  BY DEF TenancyInv, Shapes, CommitView
<1>a. conn'[t] = <<None>>
  BY <1>2, <1>3, OneTransaction DEF ThreadFits, LayersFit
<1>4. LayersFit(t)'
  BY <1>2, <1>3, <1>a DEF ThreadFits, LayersFit
<1>5. WorkFits(t)'
  BY <1>2, <1>3 DEF ThreadFits, WorkFits, Serving
<1>6. LabelsFit(t)'
  BY <1>2, <1>3 DEF ThreadFits, LabelsFit, WorkFits, Serving, Served, Unlabelled
<1>7. used' \subseteq Requests
  BY <1>3 DEF TenancyInv
<1> QED
  BY <1>1, <1>2, <1>3, <1>4, <1>5, <1>6, <1>7, QuietStep DEF ThreadFits, Serving

LEMMA AbortViewFits ==
  ASSUME TenancyInv, NEW t \in Threads, AbortView(t)
  PROVE  TenancyInv'
<1>1. Alone(t)
  BY DEF TenancyInv, Shapes, Alone, Same, AbortView
<1>2. ThreadFits(t) /\ pc[t] = "view"
  BY DEF TenancyInv, AbortView
<1>3. /\ conn'[t] = RolledBack(conn[t]) /\ pc'[t] = "leaving" /\ queueing'[t] = FALSE
      /\ UNCHANGED <<ctx, tokens, fields, saved, acting, job, queue, used>>
  BY DEF TenancyInv, Shapes, AbortView
<1>a. conn'[t] = <<None>>
  BY <1>2, <1>3, OneTransaction DEF ThreadFits, LayersFit
<1>4. LayersFit(t)'
  BY <1>2, <1>3, <1>a DEF ThreadFits, LayersFit
<1>5. WorkFits(t)'
  BY <1>2, <1>3 DEF ThreadFits, WorkFits, Serving
<1>6. LabelsFit(t)'
  BY <1>2, <1>3 DEF ThreadFits, LabelsFit, WorkFits, Serving, Served, Unlabelled
<1>7. used' \subseteq Requests
  BY <1>3 DEF TenancyInv
<1> QED
  BY <1>1, <1>2, <1>3, <1>4, <1>5, <1>6, <1>7, QuietStep DEF ThreadFits, Serving

\* The hooks run before the tenant is cleared, so the message carries its labels.
LEMMA PublishFits ==
  ASSUME TenancyInv, NEW t \in Threads, Publish(t)
  PROVE  TenancyInv'
<1>1. Alone(t)
  BY DEF TenancyInv, Shapes, Alone, Same, Publish
<1>2. ThreadFits(t) /\ pc[t] = "hooks"
  BY DEF TenancyInv, Publish
<1>3. /\ queue' = queue \cup {[request |-> job[t], tenant |-> acting[t], carried |-> Carried(t), retried |-> FALSE]}
      /\ queueing'[t] = FALSE /\ pc'[t] = "leaving"
      /\ UNCHANGED <<ctx, tokens, conn, fields, saved, acting, job, used>>
  BY DEF TenancyInv, Shapes, Publish
<1>4. LayersFit(t)'
  BY <1>2, <1>3 DEF ThreadFits, LayersFit, WorkFits, Outside, Inside
<1>5. WorkFits(t)'
  BY <1>2, <1>3 DEF ThreadFits, WorkFits, Serving
<1>6. LabelsFit(t)'
  BY <1>2, <1>3 DEF ThreadFits, LabelsFit, WorkFits, Serving, Served, Unlabelled
<1>7. QueueFits'
  <2>1. job[t] \in Requests /\ acting[t] \in Tenants /\ ctx[t] = acting[t] /\ fields[t] = Served(t)
    BY <1>2 DEF ThreadFits, LayersFit, WorkFits, LabelsFit, Serving
  <2>2. Carried(t) = [request |-> job[t], tenant |-> acting[t], task |-> None]
    <3>1. Line(t) = Served(t)
      BY <2>1 DEF Line, Served
    <3> QED
      BY <3>1 DEF Carried, Served
  <2> DEFINE m == [request |-> job[t], tenant |-> acting[t], carried |-> Carried(t), retried |-> FALSE]
  <2>3. CarriesItsLabels(m)
    BY <2>1, <2>2 DEF CarriesItsLabels, Messages, Labels
  <2> QED
    BY <1>3, <2>3 DEF TenancyInv, QueueFits, CarriesItsLabels
<1> QED
  BY <1>1, <1>3, <1>4, <1>5, <1>6, <1>7, PublishingStep DEF ThreadFits, Serving

LEMMA ClearTenantFits ==
  ASSUME TenancyInv, NEW t \in Threads, ClearTenant(t)
  PROVE  TenancyInv'
<1>1. Alone(t)
  BY DEF TenancyInv, Shapes, Alone, Same, ClearTenant
<1>2. ThreadFits(t) /\ pc[t] = "leaving"
  BY DEF TenancyInv, ClearTenant
<1>3. /\ ctx'[t] = None /\ pc'[t] = "ending"
      /\ UNCHANGED <<tokens, conn, fields, saved, acting, job, queueing, queue, used>>
  BY DEF TenancyInv, Shapes, ClearTenant
<1>4. LayersFit(t)'
  BY <1>2, <1>3 DEF ThreadFits, LayersFit, WorkFits, Outside, Inside
<1>5. WorkFits(t)'
  BY <1>2, <1>3 DEF ThreadFits, WorkFits, Serving
<1>6. LabelsFit(t)'
  BY <1>2, <1>3 DEF ThreadFits, LabelsFit, WorkFits, Serving, Served, Unlabelled
<1>7. used' \subseteq Requests
  BY <1>3 DEF TenancyInv
<1> QED
  BY <1>1, <1>2, <1>3, <1>4, <1>5, <1>6, <1>7, QuietStep DEF ThreadFits, Serving

\* The fields kept for the late line and for the stream are the request's.
LEMMA EndRequestFits ==
  ASSUME TenancyInv, NEW t \in Threads, EndRequest(t)
  PROVE  TenancyInv'
<1>1. Alone(t)
  BY DEF TenancyInv, Shapes, Alone, Same, EndRequest
<1>2. ThreadFits(t) /\ pc[t] = "ending"
  BY DEF TenancyInv, EndRequest
<1>3. /\ saved'[t] = Line(t) /\ fields'[t] = Unlabelled /\ pc'[t] = "late"
      /\ UNCHANGED <<ctx, tokens, conn, acting, job, queueing, queue, used>>
  BY DEF TenancyInv, Shapes, EndRequest
<1>a. Line(t) = Served(t)
  BY <1>2 DEF ThreadFits, LayersFit, LabelsFit, Outside, Line, Served
<1>4. LayersFit(t)'
  BY <1>2, <1>3 DEF ThreadFits, LayersFit, WorkFits, Outside, Inside
<1>5. WorkFits(t)'
  BY <1>2, <1>3 DEF ThreadFits, WorkFits, Serving
<1>6. LabelsFit(t)'
  BY <1>2, <1>3, <1>a DEF LabelsFit, Served
<1>7. used' \subseteq Requests
  BY <1>3 DEF TenancyInv
<1> QED
  BY <1>1, <1>2, <1>3, <1>4, <1>5, <1>6, <1>7, QuietStep DEF ThreadFits, Serving

LEMMA BeginStreamFits ==
  ASSUME TenancyInv, NEW t \in Threads, BeginStream(t)
  PROVE  TenancyInv'
<1>1. Alone(t)
  BY DEF TenancyInv, Shapes, Alone, Same, BeginStream
<1>2. ThreadFits(t) /\ pc[t] = "ending" /\ acting[t] # None
  BY DEF TenancyInv, BeginStream
<1>3. /\ saved'[t] = Line(t) /\ fields'[t] = Unlabelled /\ pc'[t] = "sent"
      /\ UNCHANGED <<ctx, tokens, conn, acting, job, queueing, queue, used>>
  BY DEF TenancyInv, Shapes, BeginStream
<1>a. Line(t) = Served(t)
  BY <1>2 DEF ThreadFits, LayersFit, LabelsFit, Outside, Line, Served
<1>4. LayersFit(t)'
  BY <1>2, <1>3 DEF ThreadFits, LayersFit, WorkFits, Outside, Inside
<1>5. WorkFits(t)'
  BY <1>2, <1>3 DEF ThreadFits, WorkFits, Serving
<1>6. LabelsFit(t)'
  BY <1>2, <1>3, <1>a DEF LabelsFit, Served
<1>7. used' \subseteq Requests
  BY <1>3 DEF TenancyInv
<1> QED
  BY <1>1, <1>2, <1>3, <1>4, <1>5, <1>6, <1>7, QuietStep DEF ThreadFits, Serving

\* A thread that is done keeps nothing.
LEMMA RespondFits ==
  ASSUME TenancyInv, NEW t \in Threads, Respond(t)
  PROVE  TenancyInv'
<1>1. Alone(t)
  BY DEF TenancyInv, Shapes, Alone, Same, Respond, Idle
<1>2. ThreadFits(t) /\ pc[t] = "late"
  BY DEF TenancyInv, Respond, Idle
<1>3. /\ pc'[t] = "idle" /\ acting'[t] = None /\ job'[t] = None /\ saved'[t] = Unlabelled
      /\ UNCHANGED <<ctx, tokens, conn, fields, queueing, queue, used>>
  BY DEF TenancyInv, Shapes, Respond, Idle
<1>4. LayersFit(t)'
  BY <1>2, <1>3 DEF ThreadFits, LayersFit, WorkFits, Outside, Inside
<1>5. WorkFits(t)'
  BY <1>2, <1>3 DEF ThreadFits, WorkFits, Serving
<1>6. LabelsFit(t)'
  BY <1>2, <1>3 DEF ThreadFits, LabelsFit, WorkFits, Serving, Served, Unlabelled
<1>7. used' \subseteq Requests
  BY <1>3 DEF TenancyInv
<1> QED
  BY <1>1, <1>2, <1>3, <1>4, <1>5, <1>6, <1>7, QuietStep DEF ThreadFits, Serving

\* A frame is labelled while it is produced.
LEMMA ProduceFrameFits ==
  ASSUME TenancyInv, NEW t \in Threads, ProduceFrame(t)
  PROVE  TenancyInv'
<1>1. Alone(t)
  BY DEF TenancyInv, Shapes, Alone, Same, ProduceFrame
<1>2. ThreadFits(t) /\ pc[t] = "sent"
  BY DEF TenancyInv, ProduceFrame
<1>3. /\ fields'[t] = saved[t] /\ pc'[t] = "frame"
      /\ UNCHANGED <<ctx, tokens, conn, saved, acting, job, queueing, queue, used>>
  BY DEF TenancyInv, Shapes, ProduceFrame
<1>4. LayersFit(t)'
  BY <1>2, <1>3 DEF ThreadFits, LayersFit, WorkFits, Outside, Inside
<1>5. WorkFits(t)'
  BY <1>2, <1>3 DEF ThreadFits, WorkFits, Serving
<1>6. LabelsFit(t)'
  BY <1>2, <1>3 DEF ThreadFits, LabelsFit, WorkFits, Serving, Served, Unlabelled
<1>7. used' \subseteq Requests
  BY <1>3 DEF TenancyInv
<1> QED
  BY <1>1, <1>2, <1>3, <1>4, <1>5, <1>6, <1>7, QuietStep DEF ThreadFits, Serving

LEMMA SendFrameFits ==
  ASSUME TenancyInv, NEW t \in Threads, SendFrame(t)
  PROVE  TenancyInv'
<1>1. Alone(t)
  BY DEF TenancyInv, Shapes, Alone, Same, SendFrame
<1>2. ThreadFits(t) /\ pc[t] = "frame"
  BY DEF TenancyInv, SendFrame
<1>3. /\ fields'[t] = Unlabelled /\ pc'[t] = "sent"
      /\ UNCHANGED <<ctx, tokens, conn, saved, acting, job, queueing, queue, used>>
  BY DEF TenancyInv, Shapes, SendFrame
<1>4. LayersFit(t)'
  BY <1>2, <1>3 DEF ThreadFits, LayersFit, WorkFits, Outside, Inside
<1>5. WorkFits(t)'
  BY <1>2, <1>3 DEF ThreadFits, WorkFits, Serving
<1>6. LabelsFit(t)'
  BY <1>2, <1>3 DEF ThreadFits, LabelsFit, WorkFits, Serving, Served, Unlabelled
<1>7. used' \subseteq Requests
  BY <1>3 DEF TenancyInv
<1> QED
  BY <1>1, <1>2, <1>3, <1>4, <1>5, <1>6, <1>7, QuietStep DEF ThreadFits, Serving

LEMMA CloseStreamFits ==
  ASSUME TenancyInv, NEW t \in Threads, CloseStream(t)
  PROVE  TenancyInv'
<1>1. Alone(t)
  BY DEF TenancyInv, Shapes, Alone, Same, CloseStream
<1>2. ThreadFits(t) /\ pc[t] = "sent"
  BY DEF TenancyInv, CloseStream
<1>3. /\ fields'[t] = saved[t] /\ pc'[t] = "closing"
      /\ UNCHANGED <<ctx, tokens, conn, saved, acting, job, queueing, queue, used>>
  BY DEF TenancyInv, Shapes, CloseStream
<1>4. LayersFit(t)'
  BY <1>2, <1>3 DEF ThreadFits, LayersFit, WorkFits, Outside, Inside
<1>5. WorkFits(t)'
  BY <1>2, <1>3 DEF ThreadFits, WorkFits, Serving
<1>6. LabelsFit(t)'
  BY <1>2, <1>3 DEF ThreadFits, LabelsFit, WorkFits, Serving, Served, Unlabelled
<1>7. used' \subseteq Requests
  BY <1>3 DEF TenancyInv
<1> QED
  BY <1>1, <1>2, <1>3, <1>4, <1>5, <1>6, <1>7, QuietStep DEF ThreadFits, Serving

LEMMA EndStreamFits ==
  ASSUME TenancyInv, NEW t \in Threads, EndStream(t)
  PROVE  TenancyInv'
<1>1. Alone(t)
  BY DEF TenancyInv, Shapes, Alone, Same, EndStream, Idle
<1>2. ThreadFits(t) /\ pc[t] = "closing" /\ tokens[t] = <<>>
  BY DEF TenancyInv, EndStream, Idle
<1>3. /\ pc'[t] = "idle" /\ acting'[t] = None /\ job'[t] = None /\ saved'[t] = Unlabelled
      /\ fields'[t] = Unlabelled
      /\ UNCHANGED <<ctx, tokens, conn, queueing, queue, used>>
  BY DEF TenancyInv, Shapes, EndStream, Idle
<1>4. LayersFit(t)'
  BY <1>2, <1>3 DEF ThreadFits, LayersFit, WorkFits, Outside, Inside
<1>5. WorkFits(t)'
  BY <1>2, <1>3 DEF ThreadFits, WorkFits, Serving
<1>6. LabelsFit(t)'
  BY <1>2, <1>3 DEF ThreadFits, LabelsFit, WorkFits, Serving, Served, Unlabelled
<1>7. used' \subseteq Requests
  BY <1>3 DEF TenancyInv
<1> QED
  BY <1>1, <1>2, <1>3, <1>4, <1>5, <1>6, <1>7, QuietStep DEF ThreadFits, Serving

\* A task runs in the fields its message carried.
LEMMA StartTaskFits ==
  ASSUME TenancyInv, NEW t \in Threads, NEW m \in queue, StartTask(t, m)
  PROVE  TenancyInv'
<1>1. Alone(t)
  BY DEF TenancyInv, Shapes, Alone, Same, StartTask
<1>2. ThreadFits(t) /\ pc[t] = "idle"
  BY DEF TenancyInv, StartTask
<1>3. /\ pc'[t] = "task" /\ job'[t] = m /\ acting'[t] = m.tenant /\ saved'[t] = fields[t]
      /\ fields'[t] = Entered(t, m.carried, "task") /\ queue' = queue \ {m}
      /\ UNCHANGED <<ctx, tokens, conn, queueing, used>>
  BY DEF TenancyInv, Shapes, StartTask
<1>a. CarriesItsLabels(m) /\ m.tenant \in Tenants
  BY DEF TenancyInv, QueueFits, CarriesItsLabels, Messages
<1>b. fields'[t] = [request |-> m.request, tenant |-> m.tenant, task |-> "task"]
  <2>1. m.carried # Unlabelled
    BY <1>a, TenancyNone DEF CarriesItsLabels, Messages, Unlabelled
  <2>2. fields'[t] = [m.carried EXCEPT !.task = "task"]
    BY <1>3, <2>1 DEF Entered
  <2> QED
    BY <1>a, <2>2 DEF CarriesItsLabels
<1>4. LayersFit(t)'
  BY <1>2, <1>3 DEF ThreadFits, LayersFit, WorkFits, Outside, Inside
<1>5. WorkFits(t)'
  BY <1>2, <1>3, <1>a DEF ThreadFits, WorkFits, Serving, CarriesItsLabels
<1>6. LabelsFit(t)'
  BY <1>2, <1>3, <1>b DEF ThreadFits, LabelsFit
<1>7. used' \subseteq Requests
  BY <1>3 DEF TenancyInv
<1> QED
  BY <1>1, <1>2, <1>3, <1>4, <1>5, <1>6, <1>7, QuietStep DEF ThreadFits, Serving

\* The sweep and the evaluation start from a thread without labels.
LEMMA StartSweepFits ==
  ASSUME TenancyInv, NEW t \in Threads, StartSweep(t)
  PROVE  TenancyInv'
<1>1. Alone(t)
  BY DEF TenancyInv, Shapes, Alone, Same, StartSweep
<1>2. ThreadFits(t) /\ pc[t] = "idle"
  BY DEF TenancyInv, StartSweep
<1>3. /\ pc'[t] = "sweep" /\ saved'[t] = fields[t] /\ fields'[t] = Entered(t, Unlabelled, "sweep")
      /\ UNCHANGED <<ctx, tokens, conn, acting, job, queueing, queue, used>>
  BY DEF TenancyInv, Shapes, StartSweep
<1>a. fields'[t] = [Unlabelled EXCEPT !.task = "sweep"]
  BY <1>2, <1>3 DEF ThreadFits, LayersFit, LabelsFit, Outside, Entered, Line
<1>4. LayersFit(t)'
  BY <1>2, <1>3 DEF ThreadFits, LayersFit, WorkFits, Outside, Inside
<1>5. WorkFits(t)'
  BY <1>2, <1>3 DEF ThreadFits, WorkFits, Serving
<1>6. LabelsFit(t)'
  BY <1>2, <1>3, <1>a DEF ThreadFits, LabelsFit
<1>7. used' \subseteq Requests
  BY <1>3 DEF TenancyInv
<1> QED
  BY <1>1, <1>2, <1>3, <1>4, <1>5, <1>6, <1>7, QuietStep DEF ThreadFits, Serving

LEMMA StartEvaluationFits ==
  ASSUME TenancyInv, NEW t \in Threads, NEW a \in Tenants, StartEvaluation(t, a)
  PROVE  TenancyInv'
<1>1. Alone(t)
  BY DEF TenancyInv, Shapes, Alone, Same, StartEvaluation
<1>2. ThreadFits(t) /\ pc[t] = "idle"
  BY DEF TenancyInv, StartEvaluation
<1>3. /\ pc'[t] = "eval" /\ acting'[t] = a
      /\ UNCHANGED <<ctx, tokens, conn, fields, saved, job, queueing, queue, used>>
  BY DEF TenancyInv, Shapes, StartEvaluation
<1>4. LayersFit(t)'
  BY <1>2, <1>3 DEF ThreadFits, LayersFit, WorkFits, Outside, Inside
<1>5. WorkFits(t)'
  BY <1>2, <1>3 DEF ThreadFits, WorkFits, Serving
<1>6. LabelsFit(t)'
  BY <1>2, <1>3 DEF ThreadFits, LabelsFit, WorkFits, Serving, Served, Unlabelled
<1>7. used' \subseteq Requests
  BY <1>3 DEF TenancyInv
<1> QED
  BY <1>1, <1>2, <1>3, <1>4, <1>5, <1>6, <1>7, QuietStep DEF ThreadFits, Serving

-----------------------------------------------------------------------------
(***************************************************************************)
(* Contexts open and close, and the work that opened them ends.            *)
(***************************************************************************)

\* Entering sets both layers to the tenant the work is for, and remembers what to
\* restore; the evaluation's second context is of the tenant of its first.
LEMMA EnterFits ==
  ASSUME TenancyInv, ~Nests, NEW t \in Threads, NEW a \in Tenants, Enter(t, a)
  PROVE  TenancyInv'
<1>1. Alone(t)
  BY DEF TenancyInv, Shapes, Alone, Same, Enter
<1>2. ThreadFits(t) /\ Len(tokens[t]) < Depth(t) /\ (pc[t] = "sweep" \/ a = acting[t])
  BY DEF TenancyInv, Enter
<1>3. /\ tokens'[t] = Append(tokens[t], ctx[t]) /\ ctx'[t] = a /\ acting'[t] = a
      /\ conn'[t] = SetLocal(Opened(conn[t]), a)
      /\ UNCHANGED <<pc, fields, saved, job, queueing, queue, used>>
  BY DEF TenancyInv, Shapes, Enter
<1>4. pc[t] \in {"closing", "task", "sweep", "eval"}
  <2>1. Depth(t) > 0
    <3>1. Len(tokens[t]) \in Nat
      BY <1>2 DEF ThreadFits, LayersFit, Outside, Inside, InsideTwice, Serving
    <3> QED
      BY <1>2, <3>1 DEF Depth
  <2> QED
    BY <2>1 DEF Depth
<1>5. \/ Outside(t) /\ Inside(t)'
      \/ pc[t] = "eval" /\ Inside(t) /\ InsideTwice(t)'
  <2>1. CASE Outside(t)
    <3>1. tokens'[t] = <<None>>
      BY <1>3, <2>1, ShortTuples DEF Outside
    <3>2. conn'[t] = <<None, a>>
      <4>1. Opened(<<None>>) = <<None, None>>
        BY OneTransaction, Zenon
      <4>2. SetLocal(<<None, None>>, a) = <<None, a>>
        BY OneTransaction, Zenon
      <4> QED
        BY <1>3, <2>1, <4>1, <4>2 DEF Outside
    <3> QED
      BY <1>3, <2>1, <3>1, <3>2 DEF Inside
  <2>2. CASE Inside(t)
    <3>1. pc[t] = "eval" /\ a = acting[t]
      <4>1. Len(tokens[t]) = 1
        BY <2>2 DEF Inside
      <4> QED
        BY <1>2, <1>4, <4>1 DEF Depth
    <3>2. tokens'[t] = <<None, a>>
      BY <1>3, <2>2, <3>1, ShortTuples DEF Inside
    <3>3. conn'[t] = <<None, a, a>>
      BY <1>3, <2>2, <3>1, OneSavepoint DEF Inside
    <3> QED
      BY <1>3, <2>2, <3>1, <3>2, <3>3 DEF InsideTwice
  <2>3. CASE InsideTwice(t)
    <3>1. Len(tokens[t]) = 2
      BY <2>3 DEF InsideTwice
    <3> QED
      BY <1>2, <1>4, <3>1 DEF Depth
  <2> QED
    BY <1>2, <1>4, <2>1, <2>2, <2>3 DEF ThreadFits, LayersFit
<1>6. LayersFit(t)'
  BY <1>3, <1>4, <1>5 DEF LayersFit
<1>7. pc[t] = "sweep" \/ UNCHANGED acting[t]
  BY <1>2, <1>3
<1>8. WorkFits(t)'
  <2>1. acting'[t] \in Tenants /\ tokens'[t] # <<>>
    BY <1>3, <1>5 DEF Inside, InsideTwice
  <2> QED
    BY <1>2, <1>3, <1>4, <1>7, <2>1 DEF ThreadFits, WorkFits, Serving
<1>9. LabelsFit(t)'
  BY <1>2, <1>3, <1>4, <1>7 DEF ThreadFits, LabelsFit, Served
<1> QED
  BY <1>1, <1>3, <1>4, <1>6, <1>8, <1>9, QuietStep DEF TenancyInv, Serving

\* Whichever way a block ends, it leaves both layers as they were when it was entered.
LEMMA ExitFits ==
  ASSUME TenancyInv, NEW t \in Threads, Exit(t)
  PROVE  TenancyInv'
<1>1. PICK ended \in {Closed(conn[t]), RolledBack(conn[t])} : conn' = [conn EXCEPT ![t] = ended]
  BY DEF Exit
<1>2. Alone(t)
  BY <1>1 DEF TenancyInv, Shapes, Alone, Same, Exit
<1>3. ThreadFits(t) /\ tokens[t] # <<>>
  BY DEF TenancyInv, Exit
<1>4. /\ conn'[t] = ended /\ ctx'[t] = Last(tokens[t]) /\ tokens'[t] = Front(tokens[t])
      /\ acting'[t] = IF pc[t] = "sweep" \/ Last(tokens[t]) # None THEN Last(tokens[t]) ELSE acting[t]
      /\ UNCHANGED <<pc, fields, saved, job, queueing, queue, used>>
  BY <1>1 DEF TenancyInv, Shapes, Exit
<1>5. pc[t] \in {"closing", "task", "sweep", "eval"}
  BY <1>3 DEF ThreadFits, LayersFit, Outside, Serving
<1>6. \/ Inside(t) /\ Outside(t)' /\ acting'[t] = (IF pc[t] = "sweep" THEN None ELSE acting[t])
      \/ pc[t] = "eval" /\ InsideTwice(t) /\ Inside(t)' /\ acting'[t] = acting[t]
  <2>1. CASE Inside(t)
    <3>1. Last(<<None>>) = None /\ Front(<<None>>) = <<>>
      BY ShortTuples
    <3>2. conn'[t] = <<None>>
      BY <1>4, <2>1, OneTransaction DEF Inside
    <3> QED
      BY <1>4, <2>1, <3>1, <3>2 DEF Inside, Outside
  <2>2. CASE pc[t] = "eval" /\ InsideTwice(t)
    <3>1. Last(<<None, acting[t]>>) = acting[t] /\ Front(<<None, acting[t]>>) = <<None>>
      BY ShortTuples
    <3>2. conn'[t] = <<None, acting[t]>>
      BY <1>4, <2>2, OneSavepoint DEF InsideTwice
    <3>3. acting'[t] = acting[t] /\ ctx'[t] = acting[t] /\ tokens'[t] = <<None>>
      BY <1>4, <2>2, <3>1 DEF InsideTwice
    <3> QED
      BY <2>2, <3>2, <3>3 DEF Inside, InsideTwice
  <2> QED
    BY <1>3, <1>5, <2>1, <2>2 DEF ThreadFits, LayersFit, Outside
<1>7. LayersFit(t)'
  BY <1>4, <1>5, <1>6 DEF LayersFit
<1>8. pc[t] = "sweep" \/ UNCHANGED acting[t]
  BY <1>6
<1>9. WorkFits(t)'
  BY <1>3, <1>4, <1>5, <1>6, <1>8 DEF ThreadFits, WorkFits, Serving, Inside, Outside, InsideTwice
<1>10. LabelsFit(t)'
  BY <1>3, <1>4, <1>5, <1>8 DEF ThreadFits, LabelsFit, Served
<1> QED
  BY <1>2, <1>4, <1>5, <1>7, <1>9, <1>10, QuietStep DEF TenancyInv, Serving

\* A task that will be run again is published with the labels it came with.
LEMMA RetryFits ==
  ASSUME TenancyInv, NEW t \in Threads, Retry(t)
  PROVE  TenancyInv'
<1>1. Alone(t)
  BY DEF TenancyInv, Shapes, Alone, Same, Retry, Idle
<1>2. ThreadFits(t) /\ pc[t] = "task" /\ tokens[t] = <<>>
  BY DEF TenancyInv, Retry
<1>3. /\ pc'[t] = "idle" /\ acting'[t] = None /\ job'[t] = None /\ saved'[t] = Unlabelled
      /\ fields'[t] = saved[t] /\ queue' = queue \cup {[job[t] EXCEPT !.retried = TRUE]}
      /\ UNCHANGED <<ctx, tokens, conn, queueing, used>>
  BY DEF TenancyInv, Shapes, Retry, Idle
<1>4. LayersFit(t)'
  BY <1>2, <1>3 DEF ThreadFits, LayersFit, Outside, Inside
<1>5. WorkFits(t)'
  BY <1>2, <1>3 DEF ThreadFits, WorkFits, Serving
<1>6. LabelsFit(t)'
  BY <1>2, <1>3 DEF ThreadFits, LabelsFit
<1>7. QueueFits'
  <2>1. CarriesItsLabels(job[t])
    BY <1>2 DEF ThreadFits, WorkFits
  <2>2. CarriesItsLabels([job[t] EXCEPT !.retried = TRUE])
    BY <2>1 DEF CarriesItsLabels, Messages
  <2> QED
    BY <1>3, <2>2 DEF TenancyInv, QueueFits, CarriesItsLabels
<1> QED
  BY <1>1, <1>3, <1>4, <1>5, <1>6, <1>7, PublishingStep DEF ThreadFits

LEMMA EndWorkFits ==
  ASSUME TenancyInv, NEW t \in Threads, EndWork(t)
  PROVE  TenancyInv'
<1>1. Alone(t)
  BY DEF TenancyInv, Shapes, Alone, Same, EndWork, Idle
<1>2. ThreadFits(t) /\ pc[t] \in {"task", "sweep", "eval"} /\ tokens[t] = <<>>
  BY DEF TenancyInv, EndWork
<1>3. /\ pc'[t] = "idle" /\ acting'[t] = None /\ job'[t] = None /\ saved'[t] = Unlabelled
      /\ fields'[t] = saved[t]
      /\ UNCHANGED <<ctx, tokens, conn, queueing, queue, used>>
  BY DEF TenancyInv, Shapes, EndWork, Idle
<1>4. LayersFit(t)'
  BY <1>2, <1>3 DEF ThreadFits, LayersFit, Outside, Inside, InsideTwice
<1>5. WorkFits(t)'
  BY <1>2, <1>3 DEF ThreadFits, WorkFits, Serving
<1>6. LabelsFit(t)'
  BY <1>2, <1>3 DEF ThreadFits, LabelsFit
<1> QED
  BY <1>1, <1>3, <1>4, <1>5, <1>6, QuietStep DEF TenancyInv

-----------------------------------------------------------------------------
(***************************************************************************)
(* The invariant, and what it says.                                        *)
(***************************************************************************)

LEMMA TenancyInvStarts == Init => TenancyInv
<1> SUFFICES ASSUME Init PROVE TenancyInv
  OBVIOUS
<1>1. Shapes
  BY DEF Init, Shapes
<1>2. ASSUME NEW t \in Threads PROVE ThreadFits(t)
  <2>1. pc[t] = "idle" /\ Outside(t) /\ fields[t] = Unlabelled /\ saved[t] = Unlabelled
    BY DEF Init, Outside
  <2>2. acting[t] = None /\ job[t] = None /\ queueing[t] = FALSE
    BY DEF Init
  <2> QED
    BY <2>1, <2>2 DEF ThreadFits, LayersFit, WorkFits, LabelsFit, Serving
<1>3. QueueFits /\ used \subseteq Requests
  BY DEF Init, QueueFits
<1> QED
  BY <1>1, <1>2, <1>3 DEF TenancyInv

LEMMA RequestStepFits ==
  ASSUME TenancyInv, NEW t \in Threads, RequestStep(t)
  PROVE  TenancyInv'
BY BeginFits, AuthenticateFits, EnqueueFits, CommitViewFits, AbortViewFits, PublishFits,
   ClearTenantFits, EndRequestFits, RespondFits, BeginStreamFits, ProduceFrameFits,
   SendFrameFits, CloseStreamFits, EndStreamFits DEF RequestStep

LEMMA WorkStepFits ==
  ASSUME TenancyInv, ~Nests, NEW t \in Threads, WorkStep(t)
  PROVE  TenancyInv'
BY StartTaskFits, StartSweepFits, StartEvaluationFits, EnterFits, ExitFits, RetryFits,
   EndWorkFits DEF WorkStep

LEMMA StutterFits ==
  ASSUME TenancyInv, UNCHANGED vars
  PROVE  TenancyInv'
<1>1. ASSUME NEW t \in Threads PROVE ThreadFits(t)'
  <2>1. ThreadFits(t) /\ Same(t)
    BY DEF TenancyInv, Same, vars
  <2> QED
    BY <2>1, OthersStillFit
<1>2. Shapes' /\ QueueFits' /\ used' \subseteq Requests
  BY DEF TenancyInv, Shapes, QueueFits, CarriesItsLabels, vars
<1> QED
  BY <1>1, <1>2 DEF TenancyInv

LEMMA TenancyInvHolds == ~Nests => (Spec => []TenancyInv)
<1> SUFFICES ASSUME ~Nests PROVE Spec => []TenancyInv
  OBVIOUS
<1>1. TenancyInv /\ [Next]_vars => TenancyInv'
  BY RequestStepFits, WorkStepFits, StutterFits DEF Next
<1> QED
  BY TenancyInvStarts, <1>1, PTL DEF Spec

\* Every variable keeps its type: a thread nests at most two contexts, and never closes
\* more than it opened.
THEOREM TenancyTypeCorrect == ~Nests => (Spec => []TypeOK)
<1>1. TenancyInv => TypeOK
  <2> SUFFICES ASSUME TenancyInv PROVE TypeOK
    OBVIOUS
  <2>1. ASSUME NEW t \in Threads
        PROVE  /\ pc[t] \in Serving \cup {"idle", "task", "sweep", "eval"}
               /\ acting[t] \in Tenants \cup {None} /\ queueing[t] \in BOOLEAN
               /\ job[t] \in {None} \cup Requests \cup Messages
    BY DEF TenancyInv, ThreadFits, WorkFits, CarriesItsLabels, Serving
  <2>2. ASSUME NEW t \in Threads
        PROVE  /\ tokens[t] \in Seq(Tenants \cup {None})
               /\ conn[t] \in Seq(Tenants \cup {None}) /\ conn[t] # <<>>
               /\ ctx[t] \in Tenants \cup {None}
    <3>1. LayersFit(t) /\ acting[t] \in Tenants \cup {None}
      BY <2>1 DEF TenancyInv, ThreadFits
    <3>2. /\ tokens[t] \in {<<>>, <<None>>, <<None, acting[t]>>}
          /\ conn[t] \in {<<None>>, <<None, acting[t]>>, <<None, acting[t], acting[t]>>}
          /\ ctx[t] \in {None, acting[t]}
      BY <2>1, <3>1 DEF LayersFit, Outside, Inside, InsideTwice, Serving
    <3> DEFINE S == Tenants \cup {None}
    <3>3. /\ <<>> \in Seq(S) /\ <<None>> \in Seq(S) /\ <<None, acting[t]>> \in Seq(S)
          /\ <<None, acting[t], acting[t]>> \in Seq(S)
      BY <3>1
    <3>4. <<None>> # <<>> /\ <<None, acting[t]>> # <<>> /\ <<None, acting[t], acting[t]>> # <<>>
      OBVIOUS
    <3>5. tokens[t] \in Seq(S) /\ conn[t] \in Seq(S)
      BY <3>2, <3>3
    <3>6. conn[t] # <<>>
      BY <3>2, <3>4, Zenon
    <3> QED
      BY <3>1, <3>2, <3>5, <3>6
  <2>3. ASSUME NEW t \in Threads PROVE fields[t] \in Labels /\ saved[t] \in Labels
    <3>1. pc[t] \in Serving => Served(t) \in Labels
      BY <2>1 DEF TenancyInv, ThreadFits, WorkFits, Served, Labels
    <3>2. pc[t] = "task" => [request |-> job[t].request, tenant |-> job[t].tenant, task |-> "task"] \in Labels
      BY DEF TenancyInv, ThreadFits, WorkFits, CarriesItsLabels, Messages, Labels
    <3>3. Unlabelled \in Labels /\ [Unlabelled EXCEPT !.task = "sweep"] \in Labels
      BY DEF Unlabelled, Labels
    <3> QED
      BY <2>1, <3>1, <3>2, <3>3 DEF TenancyInv, ThreadFits, LabelsFit, Serving
  <2>4. queue \subseteq Messages
    BY DEF TenancyInv, QueueFits, CarriesItsLabels
  <2>5. /\ pc \in [Threads -> Serving \cup {"idle", "task", "sweep", "eval"}]
        /\ ctx \in [Threads -> Tenants \cup {None}] /\ acting \in [Threads -> Tenants \cup {None}]
        /\ fields \in [Threads -> Labels] /\ saved \in [Threads -> Labels]
        /\ queueing \in [Threads -> BOOLEAN]
    BY <2>1, <2>2, <2>3 DEF TenancyInv, Shapes
  <2> QED
    BY <2>1, <2>2, <2>4, <2>5 DEF TypeOK, TenancyInv, Serving
<1> QED
  BY <1>1, TenancyInvHolds, PTL

\* Wherever a thread may read or save rows, each layer alone lets through the rows of
\* the tenant the work is for, and a row saved lands there.
THEOREM WorkActsForItsTenant == ~Nests => (Spec => []ActsForItsTenant)
<1>1. TenancyInv => ActsForItsTenant
  <2> SUFFICES ASSUME TenancyInv, NEW t \in Threads, MayAccess(t)
               PROVE  /\ ByManager(t) = {acting[t]} /\ ByPolicy(t) = {acting[t]}
                      /\ \A given \in {None, acting[t]} : SavedFor(t, given) = acting[t]
    BY DEF ActsForItsTenant
  <2>1. ThreadFits(t)
    BY DEF TenancyInv
  <2>2. /\ acting[t] \in Tenants /\ ctx[t] = acting[t]
        /\ conn[t] \in {<<None, acting[t]>>, <<None, acting[t], acting[t]>>}
    BY <2>1 DEF ThreadFits, LayersFit, WorkFits, MayAccess, Outside, Inside, InsideTwice, Serving
  <2>3. Last(conn[t]) = acting[t]
    <3>1. Last(<<None, acting[t]>>) = acting[t] /\ Last(<<None, acting[t], acting[t]>>) = acting[t]
      BY DEF Last
    <3> QED
      BY <2>2, <3>1
  <2>4. acting[t] # None
    BY <2>2, TenancyNone
  <2> QED
    BY <2>2, <2>3, <2>4 DEF ByManager, ByPolicy, SavedFor
<1> QED
  BY <1>1, TenancyInvHolds, PTL

\* A free thread keeps nothing of its last work, and outside its view and its contexts a
\* thread has no tenant in either layer.
THEOREM NothingIsLeft == ~Nests => (Spec => []NothingLeft)
<1>1. TenancyInv => NothingLeft
  <2> SUFFICES ASSUME TenancyInv, NEW t \in Threads
               PROVE  /\ pc[t] = "idle" => fields[t] = Unlabelled /\ tokens[t] = <<>>
                      /\ pc[t] # "view" /\ tokens[t] = <<>> => conn[t] = <<None>>
                      /\ pc[t] \notin {"view", "hooks", "leaving"} /\ tokens[t] = <<>> => ctx[t] = None
    BY DEF NothingLeft
  <2>1. ThreadFits(t)
    BY DEF TenancyInv
  <2>2. pc[t] = "idle" => fields[t] = Unlabelled /\ tokens[t] = <<>>
    BY <2>1 DEF ThreadFits, LayersFit, LabelsFit, Outside
  <2>3. Inside(t) \/ InsideTwice(t) => tokens[t] # <<>>
    BY DEF Inside, InsideTwice
  <2>4. tokens[t] = <<>> =>
          \/ pc[t] = "view"
          \/ pc[t] \in {"hooks", "leaving"} /\ conn[t] = <<None>>
          \/ Outside(t)
    BY <2>1, <2>3 DEF ThreadFits, LayersFit, Serving
  <2> QED
    BY <2>2, <2>4 DEF Outside
<1> QED
  BY <1>1, TenancyInvHolds, PTL

\* Every line names the request or task it belongs to and its tenant, on whatever thread
\* and however late it is logged.
THEOREM LinesNameTheirOwnWork == ~Nests => (Spec => []LinesNameTheirWork)
<1>1. TenancyInv => LinesNameTheirWork
  <2> SUFFICES ASSUME TenancyInv, NEW t \in Threads
               PROVE  /\ pc[t] \notin {"idle", "sent", "task", "sweep", "eval"} =>
                           RecordFields(t) = Served(t)
                      /\ pc[t] = "task" =>
                           RecordFields(t) = [request |-> job[t].request, tenant |-> job[t].tenant,
                                              task |-> "task"]
                      /\ pc[t] = "sweep" =>
                           RecordFields(t) = [request |-> None, tenant |-> acting[t], task |-> "sweep"]
    BY DEF LinesNameTheirWork, Served
  <2>1. ThreadFits(t)
    BY DEF TenancyInv
  <2>2. CASE pc[t] \in {"view", "hooks", "leaving", "ending", "frame", "closing"}
    <3>1. fields[t] = Served(t) /\ ctx[t] \in {None, acting[t]}
      BY <2>1, <2>2 DEF ThreadFits, LayersFit, LabelsFit, Outside, Inside
    <3>2. Line(t) = Served(t)
      BY <3>1 DEF Line, Served
    <3>3. RecordFields(t) = Served(t)
      BY <2>2, <3>1, <3>2 DEF RecordFields, Served
    <3> QED
      BY <2>2, <3>3
  <2>3. CASE pc[t] = "late"
    <3>1. fields[t] = Unlabelled /\ saved[t] = Served(t) /\ ctx[t] = None
      BY <2>1, <2>3 DEF ThreadFits, LayersFit, LabelsFit, Outside
    <3>2. Line(t) = Unlabelled
      BY <3>1 DEF Line, Unlabelled
    <3>3. RecordFields(t) = Served(t)
      BY <2>3, <3>1, <3>2 DEF RecordFields, Served, Unlabelled
    <3> QED
      BY <2>3, <3>3
  <2>4. CASE pc[t] = "task"
    <3>1. /\ fields[t] = [request |-> job[t].request, tenant |-> job[t].tenant, task |-> "task"]
          /\ ctx[t] \in {None, job[t].tenant}
      BY <2>1, <2>4 DEF ThreadFits, LayersFit, WorkFits, LabelsFit, Outside, Inside
    <3>2. Line(t) = fields[t]
      BY <3>1 DEF Line
    <3>3. RecordFields(t) = fields[t]
      BY <2>4, <3>1, <3>2 DEF RecordFields
    <3> QED
      BY <2>4, <3>1, <3>3
  <2>5. CASE pc[t] = "sweep"
    <3>1. /\ fields[t] = [Unlabelled EXCEPT !.task = "sweep"]
          /\ ctx[t] = acting[t]
      BY <2>1, <2>5 DEF ThreadFits, LayersFit, WorkFits, LabelsFit, Outside, Inside
    <3>2. Line(t) = [request |-> None, tenant |-> acting[t], task |-> "sweep"]
      <4>1. fields[t] = [request |-> None, tenant |-> None, task |-> "sweep"]
        BY <3>1 DEF Unlabelled
      <4>2. (IF ctx[t] # None THEN ctx[t] ELSE fields[t].tenant) = acting[t]
        BY <3>1, <4>1
      <4> QED
        BY <4>1, <4>2 DEF Line
    <3>3. RecordFields(t) = Line(t)
      BY <2>5, <3>1, <3>2 DEF RecordFields, Unlabelled
    <3> QED
      BY <2>5, <3>2, <3>3
  <2> QED
    BY <2>1, <2>2, <2>3, <2>4, <2>5 DEF ThreadFits, Serving
<1> QED
  BY <1>1, TenancyInvHolds, PTL
=============================================================================
