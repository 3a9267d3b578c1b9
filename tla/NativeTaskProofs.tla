-------------------------- MODULE NativeTaskProofs --------------------------
(***************************************************************************)
(* Proofs about NativeTask, for any number of nested programs and of call  *)
(* gates: what a program that was torn down leaves behind, whom a worker's *)
(* reply is for, that what was seen to be stopped stays still, and that a  *)
(* compute job's result is its own.                                        *)
(***************************************************************************)
EXTENDS NativeTask, TLAPS

(* A gate is counted from the entry to the exit of a program's task. *)
Counted == \A p \in Programs : gate[p] = IF pc[p] \in GateSteps THEN 1 ELSE 0

(* The worker mutex is held at these places, and by the runtime thread while
   it disposes of the sockets and closes a TLS connection. *)
Holding == {"clear", "ask", "send", "reply", "give"}

Held ==
  /\ \A p \in Programs : lock = p <=> pc[p] \in Holding
  /\ lock = Runtime <=> rt.pc \in {"dispose", "closing"}

(* The worker has a request exactly while its owner waits for the reply. *)
Owned ==
  /\ \A p \in Programs : worker.owner = p <=> pc[p] = "reply"
  /\ worker.owner = Runtime <=> rt.pc = "closing"
  /\ worker.state = "idle" <=> worker.owner = Nobody

(* A gate whose check was passed before the stop may still be entered. *)
Marked ==
  \A p \in Programs :
    stop[p] => calls[p] + (IF pc[p] = "checked" THEN 1 ELSE 0) <= mark[p]

(* What the runtime thread knows of its target at each of its places *)
Stopping ==
  /\ rt.pc # "idle" => stop[rt.target]
  /\ rt.pc \notin {"idle", "suspend", "confirm"} => sched[rt.target] = "suspended"
  /\ rt.pc \in {"compute", "join", "destroy"} => pc[rt.target] \notin GateSteps
  /\ rt.pc \in {"destroy", "sockets", "dispose", "closing"} => job[rt.target].sched = "suspended"
  /\ rt.pc \in {"sockets", "dispose", "closing"} => pc[rt.target] = "deleted"
  /\ rt.pc \notin {"idle", "sockets", "dispose", "closing"} => Top(rt.target)

(* Programs start one on top of the other. *)
Chain == \A p, q \in Programs : p < q /\ pc[p] = "none" => pc[q] = "none"

(* Without programs that go on beside a child, a worker serves only the top
   one, and its cancellation reaches only a program that is being stopped. *)
Serves == \A p \in Programs : pc[p] \in WorkerSteps => Top(p)

Cancels ==
  /\ cancelled => \A p \in Programs : pc[p] \in {"ask", "send", "reply"} => stop[p]
  /\ worker.state = "cancelled" => \A p \in Programs : worker.owner = p => stop[p]
  /\ \A p \in Programs : outcome[p] = "cancelled" => stop[p]

Alone == ~Concurrent => Serves /\ Cancels

(* A result is that of the job it belongs to. *)
Answered ==
  \A p \in Programs :
    job[p].complete => job[p].result = IF job[p].kind = "pure" THEN "ok" ELSE "eperm"

Rest == Counted /\ Held /\ Owned /\ Marked /\ Stopping /\ Chain /\ Alone /\ Answered

IInv == TypeOK /\ Rest

USE DEF GateSteps, WorkerSteps, Holding

(* A program is no name for the runtime thread, or for nobody. *)
LEMMA ProgramIds ==
  /\ Programs \subseteq Nat \ {0} /\ Nobody \notin Programs /\ Runtime \notin Programs
  /\ Nobody # Runtime /\ \A p \in Programs : p > 1 => p - 1 \in Programs
  BY DepthAssumption DEF Programs, Nobody, Runtime

-----------------------------------------------------------------------------
(* Every step keeps the rest of the invariant: in and out of a gate, ... *)
LEMMA EnterInv ==
  ASSUME NEW p \in Programs, IInv,
         \/ GateEnter(p) \/ GateCount(p) \/ Return(p) \/ GateLeave(p) \/ Park(p)
         \/ SelfSuspend(p) \/ SwitchOut(p) \/ PlainCall(p)
  PROVE  Rest'
<1> USE ProgramIds DEF IInv, TypeOK, Rest, Counted, Held, Owned, Marked, Stopping, Chain, Alone,
        Serves, Cancels, Answered, Top, Live, IdleWorker, Runs, tasks, service
<1>1. CASE GateEnter(p)
  BY <1>1 DEF GateEnter, Moves, ParkOr
<1>2. CASE GateCount(p)
  BY <1>2 DEF GateCount, Moves, MayServe
<1>3. CASE Return(p)
  BY <1>3 DEF Return, Moves
<1>4. CASE GateLeave(p)
  BY <1>4 DEF GateLeave, Moves
<1>5. CASE Park(p)
  BY <1>5 DEF Park, Moves, ParkOr
<1>6. CASE SelfSuspend(p)
  BY <1>6 DEF SelfSuspend
<1>7. CASE SwitchOut(p)
  BY <1>7 DEF SwitchOut
<1>8. CASE PlainCall(p)
  BY <1>8 DEF PlainCall, Moves
<1> QED
  BY <1>1, <1>2, <1>3, <1>4, <1>5, <1>6, <1>7, <1>8

(* ... through a worker's request, ... *)
LEMMA RequestInv ==
  ASSUME NEW p \in Programs, IInv,
         \/ TakeLock(p) \/ ClearCancel(p) \/ SubmitRefused(p) \/ SubmitChecked(p)
         \/ Submit(p) \/ TakeReply(p) \/ GiveLock(p)
  PROVE  Rest'
<1> USE ProgramIds DEF IInv, TypeOK, Rest, Counted, Held, Owned, Marked, Stopping, Chain, Alone,
        Serves, Cancels, Answered, Top, Live, IdleWorker, Runs, tasks, service
<1>1. CASE TakeLock(p)
  BY <1>1 DEF TakeLock, Moves
<1>2. CASE ClearCancel(p)
  BY <1>2 DEF ClearCancel, Moves
<1>3. CASE SubmitRefused(p)
  BY <1>3 DEF SubmitRefused, Moves
<1>4. CASE SubmitChecked(p)
  BY <1>4 DEF SubmitChecked, Moves
<1>5. CASE Submit(p)
  BY <1>5 DEF Submit, Moves
<1>6. CASE TakeReply(p)
  BY <1>6 DEF TakeReply, Moves
<1>7. CASE GiveLock(p)
  BY <1>7 DEF GiveLock, Moves
<1> QED
  BY <1>1, <1>2, <1>3, <1>4, <1>5, <1>6, <1>7

(* ... of a compute job, ... *)
LEMMA ComputeInv ==
  ASSUME NEW p \in Programs, IInv,
         \/ ComputeSubmit(p) \/ ComputeWait(p) \/ ComputeWaitCancelled(p) \/ ComputeStart(p)
         \/ ComputeFinish(p) \/ ComputeSwitchOut(p)
  PROVE  Rest'
<1> USE ProgramIds DEF IInv, TypeOK, Rest, Counted, Held, Owned, Marked, Stopping, Chain, Alone,
        Serves, Cancels, Answered, Top, Live, IdleWorker, Runs, tasks, service
<1>1. CASE ComputeSubmit(p)
  BY <1>1 DEF ComputeSubmit, Submitted, JobRecord, Moves, MayServe
<1>2. CASE ComputeWait(p)
  BY <1>2 DEF ComputeWait, Moves
<1>3. CASE ComputeWaitCancelled(p)
  BY <1>3 DEF ComputeWaitCancelled, Moves
<1>4. CASE ComputeStart(p)
  BY <1>4 DEF ComputeStart, ComputeRuns
<1>5. CASE ComputeFinish(p)
  BY <1>5 DEF ComputeFinish, ComputeRuns
<1>6. CASE ComputeSwitchOut(p)
  BY <1>6 DEF ComputeSwitchOut
<1> QED
  BY <1>1, <1>2, <1>3, <1>4, <1>5, <1>6

(* ... of the worker, ... *)
LEMMA WorkerInv ==
  ASSUME IInv, WorkerDone \/ WorkerCloses \/ WorkerCancelled
  PROVE  Rest'
<1> USE ProgramIds DEF IInv, TypeOK, Rest, Counted, Held, Owned, Marked, Stopping, Chain, Alone,
        Serves, Cancels, Answered, Top, Live, IdleWorker, Runs, tasks, service
<1>1. CASE WorkerDone
  BY <1>1 DEF WorkerDone
<1>2. CASE WorkerCloses
  BY <1>2 DEF WorkerCloses
<1>3. CASE WorkerCancelled
  BY <1>3 DEF WorkerCancelled
<1> QED
  BY <1>1, <1>2, <1>3

(* ... at the start of a program and of its stop, ... *)
LEMMA LifeInv ==
  ASSUME NEW p \in Programs, IInv, Start(p) \/ BeginStop(p)
  PROVE  Rest'
<1> USE ProgramIds DEF IInv, TypeOK, Rest, Counted, Held, Owned, Marked, Stopping, Chain, Alone,
        Serves, Cancels, Answered, Top, Live, IdleWorker, Runs, tasks, service
<1>1. CASE Start(p)
  BY <1>1 DEF Start
<1>2. CASE BeginStop(p)
  BY <1>2 DEF BeginStop
<1> QED
  BY <1>1, <1>2

(* ... and through the teardown. *)
LEMMA RuntimeInv ==
  ASSUME IInv,
         \/ Suspend \/ Confirm \/ ReadDepth \/ Cancel \/ Resume \/ SuspendCompute
         \/ JoinCompute \/ Destroy \/ SuspendSockets \/ Dispose \/ CloseTls \/ TlsClosed
  PROVE  Rest'
<1> USE ProgramIds DEF IInv, TypeOK, Rest, Counted, Held, Owned, Marked, Stopping, Chain, Alone,
        Serves, Cancels, Answered, Top, Live, IdleWorker, Runs, tasks, service
<1>1. CASE Suspend
  BY <1>1 DEF Suspend, Runtimes
<1>2. CASE Confirm
  BY <1>2 DEF Confirm, Runtimes
<1>3. CASE ReadDepth
  BY <1>3 DEF ReadDepth, Runtimes
<1>4. CASE Cancel
  <2>1. \A p \in Programs : pc[p] \in {"ask", "send", "reply"} /\ ~Concurrent => p = rt.target
    BY <1>4 DEF Cancel, Runtimes
  <2> QED
    BY <1>4, <2>1 DEF Cancel, Runtimes
<1>5. CASE Resume
  BY <1>5 DEF Resume, Runtimes
<1>6. CASE SuspendCompute
  BY <1>6 DEF SuspendCompute, Runtimes
<1>7. CASE JoinCompute
  BY <1>7 DEF JoinCompute, Runtimes
<1>8. CASE Destroy
  BY <1>8 DEF Destroy, Runtimes
<1>9. CASE SuspendSockets
  BY <1>9 DEF SuspendSockets, Runtimes
<1>10. CASE Dispose
  BY <1>10 DEF Dispose, Runtimes
<1>11. CASE CloseTls
  BY <1>11 DEF CloseTls, Runtimes
<1>12. CASE TlsClosed
  BY <1>12 DEF TlsClosed, Runtimes
<1> QED
  BY <1>1, <1>2, <1>3, <1>4, <1>5, <1>6, <1>7, <1>8, <1>9, <1>10, <1>11, <1>12

-----------------------------------------------------------------------------
(* The types *)
LEMMA TaskTypes ==
  ASSUME NEW p \in Programs, IInv,
         \/ GateEnter(p) \/ GateCount(p) \/ PlainCall(p) \/ GateLeave(p) \/ Park(p)
         \/ Return(p) \/ SelfSuspend(p) \/ SwitchOut(p) \/ Start(p) \/ BeginStop(p)
  PROVE  TypeOK'
<1> USE DEF IInv, Rest, TypeOK, Counted, Runs, tasks, service, IdleWorker
<1>1. CASE GateEnter(p)
  BY <1>1 DEF GateEnter, Moves, ParkOr
<1>2. CASE GateCount(p)
  BY <1>2 DEF GateCount, Moves, MayServe
<1>3. CASE PlainCall(p)
  BY <1>3 DEF PlainCall, Moves
<1>4. CASE GateLeave(p)
  BY <1>4 DEF GateLeave, Moves
<1>5. CASE Park(p)
  BY <1>5 DEF Park, Moves, ParkOr
<1>6. CASE Return(p)
  BY <1>6 DEF Return, Moves
<1>7. CASE SelfSuspend(p)
  BY <1>7 DEF SelfSuspend
<1>8. CASE SwitchOut(p)
  BY <1>8 DEF SwitchOut
<1>9. CASE Start(p)
  BY <1>9 DEF Start
<1>10. CASE BeginStop(p)
  BY <1>10 DEF BeginStop
<1> QED
  BY <1>1, <1>2, <1>3, <1>4, <1>5, <1>6, <1>7, <1>8, <1>9, <1>10

LEMMA ServiceTypes ==
  ASSUME NEW p \in Programs, IInv,
         \/ TakeLock(p) \/ ClearCancel(p) \/ SubmitRefused(p) \/ SubmitChecked(p)
         \/ Submit(p) \/ TakeReply(p) \/ GiveLock(p)
  PROVE  TypeOK'
<1> USE DEF IInv, Rest, TypeOK, Counted, Runs, tasks, service, IdleWorker
<1>1. CASE TakeLock(p)
  BY <1>1 DEF TakeLock, Moves
<1>2. CASE ClearCancel(p)
  BY <1>2 DEF ClearCancel, Moves
<1>3. CASE SubmitRefused(p)
  BY <1>3 DEF SubmitRefused, Moves
<1>4. CASE SubmitChecked(p)
  BY <1>4 DEF SubmitChecked, Moves
<1>5. CASE Submit(p)
  BY <1>5 DEF Submit, Moves
<1>6. CASE TakeReply(p)
  BY <1>6 DEF TakeReply, Moves
<1>7. CASE GiveLock(p)
  BY <1>7 DEF GiveLock, Moves
<1> QED
  BY <1>1, <1>2, <1>3, <1>4, <1>5, <1>6, <1>7

LEMMA RuntimeTypes ==
  ASSUME IInv,
         \/ WorkerDone \/ WorkerCloses \/ WorkerCancelled \/ Suspend \/ Confirm \/ ReadDepth
         \/ Cancel \/ Resume \/ JoinCompute \/ SuspendSockets \/ Dispose
         \/ CloseTls \/ TlsClosed
  PROVE  TypeOK'
<1> USE DEF IInv, Rest, TypeOK, Counted, Runs, tasks, service, IdleWorker
<1>1. CASE WorkerDone
  BY <1>1 DEF WorkerDone
<1>2. CASE WorkerCloses
  BY <1>2 DEF WorkerCloses
<1>3. CASE WorkerCancelled
  BY <1>3 DEF WorkerCancelled
<1>4. CASE Suspend
  BY <1>4 DEF Suspend, Runtimes
<1>5. CASE Confirm
  BY <1>5 DEF Confirm, Runtimes
<1>6. CASE ReadDepth
  BY <1>6 DEF ReadDepth, Runtimes
<1>7. CASE Cancel
  BY <1>7 DEF Cancel, Runtimes
<1>8. CASE Resume
  BY <1>8 DEF Resume, Runtimes
<1>9. CASE JoinCompute
  BY <1>9 DEF JoinCompute, Runtimes
<1>10. CASE SuspendSockets
  BY <1>10 DEF SuspendSockets, Runtimes
<1>11. CASE Dispose
  BY <1>11 DEF Dispose, Runtimes
<1>12. CASE CloseTls
  BY <1>12 DEF CloseTls, Runtimes
<1>13. CASE TlsClosed
  BY <1>13 DEF TlsClosed, Runtimes
<1> QED
  BY <1>1, <1>2, <1>3, <1>4, <1>5, <1>6, <1>7, <1>8, <1>9, <1>10, <1>11, <1>12, <1>13

(* The job record after each kind of step *)
JobTask == {"absent", "waiting", "running", "deleted"}

LEMMA JobFields ==
  ASSUME NEW j \in JobRecord
  PROVE  j.task \in JobTask /\ j.submitted \in BOOLEAN /\ j.count + 1 \in Nat
  BY DEF JobRecord, JobTask

LEMMA JobChanges ==
  ASSUME NEW j \in JobRecord, NEW task \in JobTask, NEW kind \in {"pure", "calling"},
         NEW count \in Nat, NEW held \in {"stopping", "suspended"}, NEW result \in {"ok", "eperm"}
  PROVE  /\ [j EXCEPT !.task = task, !.pending = TRUE, !.complete = FALSE, !.submitted = TRUE,
                      !.ready = TRUE, !.kind = kind, !.count = count] \in JobRecord
         /\ [j EXCEPT !.pending = FALSE] \in JobRecord
         /\ [j EXCEPT !.ready = FALSE, !.submitted = FALSE, !.task = task] \in JobRecord
         /\ [j EXCEPT !.task = task, !.complete = TRUE, !.result = result] \in JobRecord
         /\ [j EXCEPT !.sched = held] \in JobRecord
         /\ [j EXCEPT !.task = task] \in JobRecord
<1> USE DEF JobRecord, JobTask
<1>1. [j EXCEPT !.task = task, !.pending = TRUE, !.complete = FALSE, !.submitted = TRUE,
                !.ready = TRUE, !.kind = kind, !.count = count] \in JobRecord
  OBVIOUS
<1>2. [j EXCEPT !.pending = FALSE] \in JobRecord
  OBVIOUS
<1>3. [j EXCEPT !.ready = FALSE, !.submitted = FALSE, !.task = task] \in JobRecord
  OBVIOUS
<1>4. [j EXCEPT !.task = task, !.complete = TRUE, !.result = result] \in JobRecord
  OBVIOUS
<1>5. [j EXCEPT !.sched = held] \in JobRecord /\ [j EXCEPT !.task = task] \in JobRecord
  OBVIOUS
<1> QED
  BY <1>1, <1>2, <1>3, <1>4, <1>5

LEMMA SubmittedType ==
  ASSUME NEW j \in JobRecord, NEW kind \in {"pure", "calling"}
  PROVE  Submitted(j, kind) \in JobRecord
<1> DEFINE task == IF j.task = "absent" THEN "waiting" ELSE j.task
           count == j.count + 1
<1>1. task \in JobTask /\ count \in Nat
  BY JobFields DEF JobTask
<1>2. Submitted(j, kind) =
        [j EXCEPT !.task = task, !.pending = TRUE, !.complete = FALSE, !.submitted = TRUE,
                  !.ready = TRUE, !.kind = kind, !.count = count]
  BY DEF Submitted, JobRecord
<1> HIDE DEF task, count
<1>3. [j EXCEPT !.task = task, !.pending = TRUE, !.complete = FALSE, !.submitted = TRUE,
                !.ready = TRUE, !.kind = kind, !.count = count] \in JobRecord
  BY <1>1, JobChanges
<1> QED
  BY <1>2, <1>3

LEMMA JobTypes ==
  ASSUME NEW p \in Programs, IInv,
         \/ ComputeSubmit(p) \/ ComputeWait(p) \/ ComputeWaitCancelled(p)
         \/ ComputeStart(p) \/ ComputeFinish(p) \/ ComputeSwitchOut(p)
  PROVE  TypeOK'
<1> USE DEF Runs, tasks, service
<1>0. TypeOK /\ job[p] \in JobRecord
  BY DEF IInv, TypeOK
<1>1. \A q \in Programs, r \in JobRecord :
        job' = [job EXCEPT ![q] = r] => job' \in [Programs -> JobRecord]
  BY <1>0 DEF TypeOK
<1>2. CASE ComputeSubmit(p)
  <2>1. PICK kind \in {"pure", "calling"} : job' = [job EXCEPT ![p] = Submitted(job[p], kind)]
    BY <1>2 DEF ComputeSubmit
  <2>2. Submitted(job[p], kind) \in JobRecord
    BY <1>0, SubmittedType
  <2>3. job' \in [Programs -> JobRecord]
    BY <1>1, <2>1, <2>2
  <2> QED
    BY <1>0, <1>2, <2>3 DEF ComputeSubmit, Moves, TypeOK
<1>3. CASE ComputeWait(p)
  <2>1. job' = [job EXCEPT ![p] = [job[p] EXCEPT !.pending = FALSE]]
    BY <1>3 DEF ComputeWait
  <2>2. job' \in [Programs -> JobRecord]
    BY <1>0, <1>1, <2>1, JobChanges DEF JobTask
  <2> QED
    BY <1>0, <1>3, <2>2 DEF ComputeWait, Moves, TypeOK
<1>4. CASE ComputeWaitCancelled(p)
  BY <1>0, <1>4 DEF ComputeWaitCancelled, Moves, TypeOK
<1>5. CASE ComputeStart(p)
  <2> DEFINE task == IF job[p].submitted THEN "running" ELSE job[p].task
  <2>1. job' = [job EXCEPT ![p] = [job[p] EXCEPT !.ready = FALSE, !.submitted = FALSE,
                                                 !.task = task]]
    BY <1>5 DEF ComputeStart
  <2>2. task \in JobTask
    BY <1>0, JobFields DEF JobTask
  <2> HIDE DEF task
  <2>3. job' \in [Programs -> JobRecord]
    BY <1>0, <1>1, <2>1, <2>2, JobChanges
  <2> QED
    BY <1>0, <1>5, <2>3 DEF ComputeStart, TypeOK
<1>6. CASE ComputeFinish(p)
  <2> DEFINE result == IF job[p].kind = "pure" THEN "ok" ELSE "eperm"
  <2>1. job' = [job EXCEPT ![p] = [job[p] EXCEPT !.task = "waiting", !.complete = TRUE,
                                                 !.result = result]]
    BY <1>6 DEF ComputeFinish
  <2>2. job' \in [Programs -> JobRecord]
    BY <1>0, <1>1, <2>1, JobChanges DEF JobTask
  <2> QED
    BY <1>0, <1>6, <2>2 DEF ComputeFinish, TypeOK
<1>7. CASE ComputeSwitchOut(p)
  <2>1. job' = [job EXCEPT ![p] = [job[p] EXCEPT !.sched = "suspended"]]
    BY <1>7 DEF ComputeSwitchOut
  <2>2. job' \in [Programs -> JobRecord]
    BY <1>0, <1>1, <2>1, JobChanges DEF JobTask
  <2> QED
    BY <1>0, <1>7, <2>2 DEF ComputeSwitchOut, TypeOK
<1> QED
  BY <1>2, <1>3, <1>4, <1>5, <1>6, <1>7

LEMMA JobEndTypes ==
  ASSUME IInv, SuspendCompute \/ Destroy
  PROVE  TypeOK'
<1> USE DEF Runs, tasks, service
<1>0. TypeOK /\ job[rt.target] \in JobRecord
  BY DEF IInv, TypeOK
<1>1. \A q \in Programs, r \in JobRecord :
        job' = [job EXCEPT ![q] = r] => job' \in [Programs -> JobRecord]
  BY <1>0 DEF TypeOK
<1>2. CASE SuspendCompute
  <2>1. PICK held \in {"stopping", "suspended"} :
          job' = [job EXCEPT ![rt.target] = [job[rt.target] EXCEPT !.sched = held]]
    BY <1>2 DEF SuspendCompute
  <2>2. job' \in [Programs -> JobRecord]
    BY <1>0, <1>1, <2>1, JobChanges DEF JobTask, TypeOK
  <2> QED
    BY <1>0, <1>2, <2>2 DEF SuspendCompute, Runtimes, TypeOK
<1>3. CASE Destroy
  <2>1. job' = [job EXCEPT ![rt.target] = [job[rt.target] EXCEPT !.task = "deleted"]]
    BY <1>3 DEF Destroy
  <2>2. job' \in [Programs -> JobRecord]
    BY <1>0, <1>1, <2>1, JobChanges DEF JobTask, TypeOK
  <2> QED
    BY <1>0, <1>3, <2>2 DEF Destroy, Runtimes, TypeOK
<1> QED
  BY <1>2, <1>3

-----------------------------------------------------------------------------
LEMMA InitInv == Init => IInv
<1> SUFFICES ASSUME Init PROVE IInv
  OBVIOUS
<1> USE ProgramIds DEF Init, NoJob, IdleWorker
<1>1. TypeOK
  <2>1. job \in [Programs -> JobRecord]
    BY DEF JobRecord
  <2>2. 1 \in Programs
    BY DepthAssumption DEF Programs
  <2> QED
    BY <2>1, <2>2 DEF TypeOK
<1> QED
  BY <1>1 DEF IInv, Rest, Counted, Held, Owned, Marked, Stopping, Chain, Alone, Serves,
     Cancels, Answered

LEMMA StepInv == IInv /\ [Next]_vars => IInv'
<1> SUFFICES ASSUME IInv, [Next]_vars PROVE IInv'
  OBVIOUS
<1>1. CASE Next
  <2>1. CASE \E p \in Programs :
               \/ GuestStep(p) \/ GateStep(p) \/ SelfSuspend(p) \/ SwitchOut(p)
               \/ ComputeStep(p) \/ ComputeSwitchOut(p) \/ Start(p) \/ BeginStop(p)
    <3>1. PICK p \in Programs :
            \/ GuestStep(p) \/ GateStep(p) \/ SelfSuspend(p) \/ SwitchOut(p)
            \/ ComputeStep(p) \/ ComputeSwitchOut(p) \/ Start(p) \/ BeginStop(p)
      BY <2>1
    <3>2. CASE GuestStep(p) \/ SelfSuspend(p) \/ SwitchOut(p) \/ Start(p) \/ BeginStop(p)
      BY <3>2, TaskTypes, EnterInv, LifeInv DEF GuestStep, IInv, Rest
    <3>3. CASE GateStep(p)
      BY <3>3, TaskTypes, ServiceTypes, JobTypes, EnterInv, RequestInv, ComputeInv
         DEF GateStep, IInv, Rest
    <3>4. CASE ComputeStep(p) \/ ComputeSwitchOut(p)
      BY <3>4, JobTypes, ComputeInv DEF ComputeStep, IInv, Rest
    <3> QED
      BY <3>1, <3>2, <3>3, <3>4
  <2>2. CASE WorkerDone \/ WorkerCloses \/ WorkerCancelled
    BY <2>2, RuntimeTypes, WorkerInv DEF IInv, Rest
  <2>3. CASE RuntimeStep
    BY <2>3, RuntimeTypes, JobEndTypes, RuntimeInv DEF RuntimeStep, IInv, Rest
  <2> QED
    BY <1>1, <2>1, <2>2, <2>3 DEF Next
<1>2. CASE UNCHANGED vars
  BY <1>2 DEF vars, IInv, Rest, TypeOK, Counted, Held, Owned, Marked, Stopping, Chain, Alone,
     Serves, Cancels, Answered, Top, Live
<1> QED
  BY <1>1, <1>2

THEOREM Invariance == Spec => []IInv
<1>1. IInv /\ [Next]_vars => IInv'
  BY StepInv
<1> QED
  BY <1>1, InitInv, PTL DEF Spec

(* A program that was deleted holds no gate, no lock and no request, and after
   the request to stop it entered no gate but one whose check it had passed. *)
THEOREM CleanTeardown == Spec => []NothingLeftBehind
<1>1. IInv => NothingLeftBehind
  BY ProgramIds DEF IInv, Rest, TypeOK, Counted, Held, Owned, Marked, NothingLeftBehind
<1> QED
  BY <1>1, Invariance, PTL

(* Unless a program goes on with its own work beside a child, the reply of a
   worker is for the holder of its mutex, and a cancellation reaches only a
   program that is being stopped. *)
THEOREM RepliesArriveHome ==
  ASSUME ~Concurrent
  PROVE  Spec => []ReplyForHolder
<1>1. IInv => ReplyForHolder
  BY ProgramIds DEF IInv, Rest, TypeOK, Held, Owned, Alone, Cancels, ReplyForHolder
<1> QED
  BY <1>1, Invariance, PTL

-----------------------------------------------------------------------------
(* What a step may do to a program whose stop was seen complete, and to one
   that is held while its operation is cancelled *)
StillAfterStop ==
  \A p \in Programs :
    (rt.target = p /\ rt.pc \in {"destroy", "sockets", "dispose", "closing"}) =>
      /\ pc'[p] \in {pc[p], "deleted"} /\ gate'[p] = 0
      /\ job'[p].task = "running" => job[p].task = "running"
      /\ job'[p].complete = job[p].complete

StillWhileHeld == rt.pc \in {"depth", "cancel"} => pc'[rt.target] = pc[rt.target]

Unmoved(p) == pc'[p] = pc[p] /\ gate'[p] = gate[p] /\ job'[p] = job[p]

(* A suspended task takes no step, nor does a suspended compute worker, and a
   step of one program is none of another. *)
LEMMA TaskStillness ==
  ASSUME NEW p \in Programs, IInv,
         \/ GuestStep(p) \/ GateStep(p) \/ SelfSuspend(p) \/ SwitchOut(p)
  PROVE  /\ \A q \in Programs : q # p => Unmoved(q)
         /\ ~Runs(p) => Unmoved(p)
<1> USE DEF IInv, TypeOK, Unmoved, Moves, ParkOr, Runs, tasks, service
<1>1. CASE GuestStep(p)
  BY <1>1 DEF GuestStep, GateEnter, GateCount, Return
<1>2. CASE GateStep(p)
  BY <1>2 DEF GateStep, PlainCall, TakeLock, ClearCancel, SubmitRefused, SubmitChecked, Submit,
     TakeReply, GiveLock, GateLeave, Park, ComputeSubmit, ComputeWait, ComputeWaitCancelled
<1>3. CASE SelfSuspend(p) \/ SwitchOut(p)
  BY <1>3 DEF SelfSuspend, SwitchOut
<1> QED
  BY <1>1, <1>2, <1>3

LEMMA ComputeStillness ==
  ASSUME NEW p \in Programs, IInv, ComputeStep(p) \/ ComputeSwitchOut(p)
  PROVE  /\ UNCHANGED <<pc, gate>>
         /\ \A q \in Programs : q # p => Unmoved(q)
         /\ job[p].sched = "suspended" => Unmoved(p)
<1> USE DEF IInv, TypeOK, Unmoved, ComputeRuns, tasks
<1> QED
  BY DEF ComputeStep, ComputeStart, ComputeFinish, ComputeSwitchOut

LEMMA StillStep ==
  ASSUME IInv, [Next]_vars
  PROVE  StillAfterStop /\ StillWhileHeld
<1> USE DEF IInv, Rest, StillAfterStop, StillWhileHeld
<1>1. /\ rt.pc \notin {"idle", "suspend", "confirm"} => ~Runs(rt.target)
      /\ rt.pc \in {"destroy", "sockets", "dispose", "closing"} =>
           job[rt.target].sched = "suspended" /\ gate[rt.target] = 0
      /\ rt.target \in Programs
  BY DEF Stopping, Runs, TypeOK, Counted
<1>2. CASE \E p \in Programs :
             GuestStep(p) \/ GateStep(p) \/ SelfSuspend(p) \/ SwitchOut(p)
  BY <1>1, <1>2, TaskStillness DEF Unmoved
<1>3. CASE \E p \in Programs : ComputeStep(p) \/ ComputeSwitchOut(p)
  BY <1>1, <1>3, ComputeStillness DEF Unmoved
<1>4. CASE \E p \in Programs : Start(p) \/ BeginStop(p)
  BY <1>4 DEF Start, BeginStop
<1>5. CASE WorkerDone \/ WorkerCloses \/ WorkerCancelled
  BY <1>1, <1>5 DEF WorkerDone, WorkerCloses, WorkerCancelled, tasks
<1>6. CASE RuntimeStep
  BY <1>1, <1>6 DEF RuntimeStep, Suspend, Confirm, ReadDepth, Cancel, Resume, SuspendCompute,
     JoinCompute, Destroy, SuspendSockets, Dispose, CloseTls, TlsClosed, Runtimes, tasks,
     TypeOK, JobRecord
<1>7. CASE UNCHANGED vars
  BY <1>1, <1>7 DEF vars
<1> QED
  BY <1>2, <1>3, <1>4, <1>5, <1>6, <1>7 DEF Next

(* What was seen to be stopped takes no step any more, and a task that is held
   while its operation is cancelled does not move. *)
THEOREM StaysStopped == Spec => StoppedIsStill
<1>1. IInv /\ [Next]_vars => [StillAfterStop]_vars
  BY StillStep
<1>2. IInv /\ [Next]_vars => [StillWhileHeld]_vars
  BY StillStep
<1> QED
  BY <1>1, <1>2, Invariance, PTL DEF Spec, StoppedIsStill, StillAfterStop, StillWhileHeld

-----------------------------------------------------------------------------
(* What is consumed is the answer of a complete job. *)
AnswerTaken ==
  \A p \in Programs :
    job[p].pending /\ ~job'[p].pending =>
      /\ job[p].complete
      /\ job[p].result = IF job[p].kind = "pure" THEN "ok" ELSE "eperm"

(* Only a wait that finds the job complete ends it. *)
LEMMA PendingEnds ==
  ASSUME NEW q \in Programs, IInv, [Next]_vars, job[q].pending, ~job'[q].pending
  PROVE  job[q].complete
<1> USE DEF IInv, TypeOK
<1>1. job' # job
  OBVIOUS
<1>2. CASE \E p \in Programs : ComputeSubmit(p)
  BY <1>2 DEF ComputeSubmit, Submitted, JobRecord
<1>3. CASE \E p \in Programs : ComputeWait(p)
  BY <1>3 DEF ComputeWait, JobRecord
<1>4. CASE \E p \in Programs : ComputeStep(p) \/ ComputeSwitchOut(p)
  <2>1. CASE \E p \in Programs : ComputeStart(p)
    BY <2>1 DEF ComputeStart, JobRecord
  <2>2. CASE \E p \in Programs : ComputeFinish(p)
    BY <2>2 DEF ComputeFinish, JobRecord
  <2>3. CASE \E p \in Programs : ComputeSwitchOut(p)
    BY <2>3 DEF ComputeSwitchOut, JobRecord
  <2> QED
    BY <1>4, <2>1, <2>2, <2>3 DEF ComputeStep
<1>5. CASE SuspendCompute \/ Destroy
  <2>1. CASE SuspendCompute
    BY <2>1 DEF SuspendCompute, JobRecord
  <2>2. CASE Destroy
    BY <2>2 DEF Destroy, JobRecord
  <2> QED
    BY <1>5, <2>1, <2>2
<1>6. \/ \E p \in Programs : ComputeSubmit(p) \/ ComputeWait(p) \/ ComputeStep(p)
                               \/ ComputeSwitchOut(p)
      \/ SuspendCompute \/ Destroy
  BY <1>1 DEF Next, vars, GuestStep, GateStep, GateEnter, GateCount, Return, PlainCall, TakeLock,
     ClearCancel, SubmitRefused, SubmitChecked, Submit, TakeReply, GiveLock, GateLeave, Park,
     ComputeWaitCancelled, SelfSuspend, SwitchOut, Start, BeginStop, WorkerDone, WorkerCloses,
     WorkerCancelled, RuntimeStep, Suspend, Confirm, ReadDepth, Cancel, Resume, JoinCompute,
     SuspendSockets, Dispose, CloseTls, TlsClosed
<1> QED
  BY <1>2, <1>3, <1>4, <1>5, <1>6

(* A compute job is complete before its result is consumed, and the result is
   its own. *)
THEOREM JobsAreAnswered == Spec => ComputeAnswers
<1>1. IInv /\ [Next]_vars => [AnswerTaken]_vars
  BY PendingEnds DEF AnswerTaken, IInv, Rest, Answered
<1> QED
  BY <1>1, Invariance, PTL DEF Spec, ComputeAnswers, AnswerTaken
=============
