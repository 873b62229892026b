-------------------------- MODULE Supervisor_proofs --------------------------
(***************************************************************************)
(* Supervisor's invariants hold for any sets of tasks and callers.         *)
(***************************************************************************)
EXTENDS Supervisor, TLAPS

\* Every step keeps the variables in their types.
LEMMA TypeStep == TypeOK /\ [Next]_vars => TypeOK'
<1> SUFFICES ASSUME TypeOK, [Next]_vars PROVE TypeOK'
  OBVIOUS
<1> USE SupervisorConstants DEF TypeOK, taskVars, stopVars
<1>1. ASSUME NEW t \in Tasks, Go(t) PROVE TypeOK'
  BY <1>1 DEF Go, TaskPC, Results, Failures
<1>2. ASSUME NEW t \in Tasks, NEW o \in Outcomes, RunTask(t, o) PROVE TypeOK'
  BY <1>2 DEF RunTask, TaskPC, Results, Failures, TaskResult, Outcomes
<1>3. ASSUME NEW t \in Tasks, RecordStopping(t) PROVE TypeOK'
  BY <1>3 DEF RecordStopping, TaskPC, Results, Failures
<1>4. ASSUME NEW t \in Tasks, RecordCtx(t) PROVE TypeOK'
  BY <1>4 DEF RecordCtx, TaskPC, Results, Failures
<1>5. ASSUME NEW t \in Tasks, RecordCAS(t) PROVE TypeOK'
  BY <1>5 DEF RecordCAS, TaskPC, Results, Failures
<1>6. ASSUME NEW t \in Tasks, Send(t) PROVE TypeOK'
  BY <1>6 DEF Send, TaskPC, Results, Failures
<1>7. ASSUME NEW t \in Tasks, Finish(t) PROVE TypeOK'
  BY <1>7 DEF Finish, TaskPC, Results, Failures
<1>8. ASSUME Receive PROVE TypeOK'
  BY <1>8 DEF Receive
<1>9. ASSUME ParentCancel PROVE TypeOK'
  BY <1>9 DEF ParentCancel
<1>10. ASSUME NEW c \in Callers, Shutdown(c) PROVE TypeOK'
  BY <1>10 DEF Shutdown
<1>11. ASSUME NEW c \in Callers, StoreStopping(c) PROVE TypeOK'
  BY <1>11 DEF StoreStopping
<1>12. ASSUME NEW c \in Callers, Cancel(c) PROVE TypeOK'
  BY <1>12 DEF Cancel
<1>13. ASSUME GroupWait PROVE TypeOK'
  BY <1>13 DEF GroupWait
<1>14. ASSUME NEW c \in Callers, SelectJoined(c) PROVE TypeOK'
  BY <1>14 DEF SelectJoined
<1>15. ASSUME NEW c \in Callers, SelectDeadline(c) PROVE TypeOK'
  BY <1>15 DEF SelectDeadline
<1>16. ASSUME NEW c \in Callers, OnceDone(c) PROVE TypeOK'
  BY <1>16 DEF OnceDone
<1>17. ASSUME NEW c \in Callers, Expire(c) PROVE TypeOK'
  BY <1>17 DEF Expire
<1>18. CASE UNCHANGED vars
  BY <1>18 DEF vars
<1> QED
  BY <1>1, <1>2, <1>3, <1>4, <1>5, <1>6, <1>7, <1>8, <1>9, <1>10, <1>11, <1>12, <1>13, <1>14, <1>15, <1>16, <1>17, <1>18
     DEF Next, TaskStep, ShutdownStep

\* The type invariant: no step of a task, of a Shutdown caller or of their contexts
\* leaves the types.
THEOREM TypeCorrect == Spec => []TypeOK
<1>1. Init => TypeOK
  BY SupervisorConstants DEF Init, TypeOK, TaskPC, Results
<1> QED BY <1>1, TypeStep, PTL DEF Spec

\* The inductive invariant is kept by every step.
LEMMA InvStep == SupervisorInv /\ [Next]_vars => SupervisorInv'
<1> SUFFICES ASSUME SupervisorInv, [Next]_vars
             PROVE  TaskInv' /\ ChannelInv' /\ GroupInv' /\ StopInv'
  BY TypeStep DEF SupervisorInv
<1>0. TypeOK /\ TypeOK' /\ TaskInv /\ ChannelInv /\ GroupInv /\ StopInv
  BY TypeStep DEF SupervisorInv
<1> USE SupervisorConstants DEF TypeOK, taskVars, stopVars
<1>1. ASSUME NEW t \in Tasks, Go(t)
      PROVE  TaskInv' /\ ChannelInv' /\ GroupInv' /\ StopInv'
  <2>1. TaskInv'
    BY <1>0, <1>1 DEF TaskInv, Go, Failures
  <2>2. ChannelInv'
    BY <1>0, <1>1 DEF ChannelInv, Go
  <2>3. GroupInv'
    BY <1>0, <1>1 DEF GroupInv, Go
  <2>4. StopInv'
    BY <1>0, <1>1 DEF StopInv, Accepted, Joined, Go
  <2> QED BY <2>1, <2>2, <2>3, <2>4
<1>2. ASSUME NEW t \in Tasks, NEW o \in Outcomes, RunTask(t, o)
      PROVE  TaskInv' /\ ChannelInv' /\ GroupInv' /\ StopInv'
  <2>1. TaskInv'
    BY <1>0, <1>2 DEF TaskInv, RunTask, TaskResult, Outcomes, Failures
  <2>2. ChannelInv'
    BY <1>0, <1>2 DEF ChannelInv, RunTask, TaskResult, Outcomes
  <2>3. GroupInv'
    BY <1>0, <1>2 DEF GroupInv, RunTask, TaskResult, Outcomes
  <2>4. StopInv'
    BY <1>0, <1>2 DEF StopInv, Accepted, Joined, RunTask, TaskResult, Outcomes
  <2> QED BY <2>1, <2>2, <2>3, <2>4
<1>3. ASSUME NEW t \in Tasks, RecordStopping(t)
      PROVE  TaskInv' /\ ChannelInv' /\ GroupInv' /\ StopInv'
  <2>1. TaskInv'
    BY <1>0, <1>3 DEF TaskInv, RecordStopping, Results, Failures
  <2>2. ChannelInv'
    BY <1>0, <1>3 DEF ChannelInv, RecordStopping
  <2>3. GroupInv'
    BY <1>0, <1>3 DEF GroupInv, RecordStopping
  <2>4. StopInv'
    BY <1>0, <1>3 DEF StopInv, Accepted, Joined, RecordStopping
  <2> QED BY <2>1, <2>2, <2>3, <2>4
<1>4. ASSUME NEW t \in Tasks, RecordCtx(t)
      PROVE  TaskInv' /\ ChannelInv' /\ GroupInv' /\ StopInv'
  <2>1. TaskInv'
    BY <1>0, <1>4 DEF TaskInv, RecordCtx, Failures
  <2>2. ChannelInv'
    BY <1>0, <1>4 DEF ChannelInv, RecordCtx
  <2>3. GroupInv'
    BY <1>0, <1>4 DEF GroupInv, RecordCtx
  <2>4. StopInv'
    BY <1>0, <1>4 DEF StopInv, Accepted, Joined, RecordCtx
  <2> QED BY <2>1, <2>2, <2>3, <2>4
<1>5. ASSUME NEW t \in Tasks, RecordCAS(t)
      PROVE  TaskInv' /\ ChannelInv' /\ GroupInv' /\ StopInv'
  <2>1. TaskInv'
    BY <1>0, <1>5 DEF TaskInv, RecordCAS, Failures
  <2>2. ChannelInv'
    BY <1>0, <1>5 DEF ChannelInv, RecordCAS
  <2>3. GroupInv'
    BY <1>0, <1>5 DEF GroupInv, RecordCAS
  <2>4. StopInv'
    BY <1>0, <1>5 DEF StopInv, Accepted, Joined, RecordCAS
  <2> QED BY <2>1, <2>2, <2>3, <2>4
<1>6. ASSUME NEW t \in Tasks, Send(t)
      PROVE  TaskInv' /\ ChannelInv' /\ GroupInv' /\ StopInv'
  <2>1. TaskInv'
    BY <1>0, <1>6 DEF TaskInv, Send, ChannelInv, Failures
  <2>2. ChannelInv'
    BY <1>0, <1>6 DEF ChannelInv, Send
  <2>3. GroupInv'
    BY <1>0, <1>6 DEF GroupInv, Send
  <2>4. StopInv'
    BY <1>0, <1>6 DEF StopInv, Accepted, Joined, Send
  <2> QED BY <2>1, <2>2, <2>3, <2>4
<1>7. ASSUME NEW t \in Tasks, Finish(t)
      PROVE  TaskInv' /\ ChannelInv' /\ GroupInv' /\ StopInv'
  <2>1. TaskInv'
    BY <1>0, <1>7 DEF TaskInv, Finish, Failures
  <2>2. ChannelInv'
    BY <1>0, <1>7 DEF ChannelInv, Finish
  <2>3. GroupInv'
    BY <1>0, <1>7 DEF GroupInv, Finish
  <2>4. StopInv'
    BY <1>0, <1>7 DEF StopInv, Accepted, Joined, Finish
  <2> QED BY <2>1, <2>2, <2>3, <2>4
<1>8. ASSUME Receive
      PROVE  TaskInv' /\ ChannelInv' /\ GroupInv' /\ StopInv'
  <2>1. TaskInv'
    BY <1>0, <1>8 DEF TaskInv, Receive, Failures
  <2>2. ChannelInv'
    BY <1>0, <1>8 DEF ChannelInv, Receive
  <2>3. GroupInv'
    BY <1>0, <1>8 DEF GroupInv, Receive
  <2>4. StopInv'
    BY <1>0, <1>8 DEF StopInv, Accepted, Joined, Receive
  <2> QED BY <2>1, <2>2, <2>3, <2>4
<1>9. ASSUME ParentCancel
      PROVE  TaskInv' /\ ChannelInv' /\ GroupInv' /\ StopInv'
  <2>1. TaskInv'
    BY <1>0, <1>9 DEF TaskInv, ParentCancel, Failures
  <2>2. ChannelInv'
    BY <1>0, <1>9 DEF ChannelInv, ParentCancel
  <2>3. GroupInv'
    BY <1>0, <1>9 DEF GroupInv, ParentCancel
  <2>4. StopInv'
    BY <1>0, <1>9 DEF StopInv, Accepted, Joined, ParentCancel
  <2> QED BY <2>1, <2>2, <2>3, <2>4
<1>10. ASSUME NEW c \in Callers, Shutdown(c)
      PROVE  TaskInv' /\ ChannelInv' /\ GroupInv' /\ StopInv'
  <2>1. TaskInv'
    BY <1>0, <1>10 DEF TaskInv, Shutdown, Failures
  <2>2. ChannelInv'
    BY <1>0, <1>10 DEF ChannelInv, Shutdown
  <2>3. GroupInv'
    BY <1>0, <1>10 DEF GroupInv, Shutdown
  <2>4. StopInv'
    BY <1>0, <1>10 DEF StopInv, Accepted, Joined, Shutdown
  <2> QED BY <2>1, <2>2, <2>3, <2>4
<1>11. ASSUME NEW c \in Callers, StoreStopping(c)
      PROVE  TaskInv' /\ ChannelInv' /\ GroupInv' /\ StopInv'
  <2>1. TaskInv'
    BY <1>0, <1>11 DEF TaskInv, StoreStopping, Failures
  <2>2. ChannelInv'
    BY <1>0, <1>11 DEF ChannelInv, StoreStopping
  <2>3. GroupInv'
    BY <1>0, <1>11 DEF GroupInv, StoreStopping
  <2>4. StopInv'
    BY <1>0, <1>11 DEF StopInv, Accepted, Joined, StoreStopping
  <2> QED BY <2>1, <2>2, <2>3, <2>4
<1>12. ASSUME NEW c \in Callers, Cancel(c)
      PROVE  TaskInv' /\ ChannelInv' /\ GroupInv' /\ StopInv'
  <2>1. TaskInv'
    BY <1>0, <1>12 DEF TaskInv, Cancel, Failures
  <2>2. ChannelInv'
    BY <1>0, <1>12 DEF ChannelInv, Cancel
  <2>3. GroupInv'
    BY <1>0, <1>12 DEF GroupInv, Cancel
  <2>4. StopInv'
    BY <1>0, <1>12 DEF StopInv, Accepted, Joined, Cancel
  <2> QED BY <2>1, <2>2, <2>3, <2>4
<1>13. ASSUME GroupWait
      PROVE  TaskInv' /\ ChannelInv' /\ GroupInv' /\ StopInv'
  <2>1. TaskInv'
    BY <1>0, <1>13 DEF TaskInv, GroupWait, Failures
  <2>2. ChannelInv'
    BY <1>0, <1>13 DEF ChannelInv, GroupWait
  <2>3. GroupInv'
    BY <1>0, <1>13 DEF GroupInv, GroupWait
  <2>4. StopInv'
    BY <1>0, <1>13 DEF StopInv, Accepted, Joined, GroupWait
  <2> QED BY <2>1, <2>2, <2>3, <2>4
<1>14. ASSUME NEW c \in Callers, SelectJoined(c)
      PROVE  TaskInv' /\ ChannelInv' /\ GroupInv' /\ StopInv'
  <2>1. TaskInv'
    BY <1>0, <1>14 DEF TaskInv, SelectJoined, Failures
  <2>2. ChannelInv'
    BY <1>0, <1>14 DEF ChannelInv, SelectJoined
  <2>3. GroupInv'
    BY <1>0, <1>14 DEF GroupInv, SelectJoined
  <2>4. StopInv'
    BY <1>0, <1>14 DEF StopInv, Accepted, Joined, SelectJoined
  <2> QED BY <2>1, <2>2, <2>3, <2>4
<1>15. ASSUME NEW c \in Callers, SelectDeadline(c)
      PROVE  TaskInv' /\ ChannelInv' /\ GroupInv' /\ StopInv'
  <2>1. TaskInv'
    BY <1>0, <1>15 DEF TaskInv, SelectDeadline, Failures
  <2>2. ChannelInv'
    BY <1>0, <1>15 DEF ChannelInv, SelectDeadline
  <2>3. GroupInv'
    BY <1>0, <1>15 DEF GroupInv, SelectDeadline
  <2>4. StopInv'
    BY <1>0, <1>15 DEF StopInv, Accepted, Joined, SelectDeadline
  <2> QED BY <2>1, <2>2, <2>3, <2>4
<1>16. ASSUME NEW c \in Callers, OnceDone(c)
      PROVE  TaskInv' /\ ChannelInv' /\ GroupInv' /\ StopInv'
  <2>1. TaskInv'
    BY <1>0, <1>16 DEF TaskInv, OnceDone, Failures
  <2>2. ChannelInv'
    BY <1>0, <1>16 DEF ChannelInv, OnceDone
  <2>3. GroupInv'
    BY <1>0, <1>16 DEF GroupInv, OnceDone
  <2>4. StopInv'
    BY <1>0, <1>16 DEF StopInv, Accepted, Joined, OnceDone
  <2> QED BY <2>1, <2>2, <2>3, <2>4
<1>17. ASSUME NEW c \in Callers, Expire(c)
      PROVE  TaskInv' /\ ChannelInv' /\ GroupInv' /\ StopInv'
  <2>1. TaskInv'
    BY <1>0, <1>17 DEF TaskInv, Expire, Failures
  <2>2. ChannelInv'
    BY <1>0, <1>17 DEF ChannelInv, Expire
  <2>3. GroupInv'
    BY <1>0, <1>17 DEF GroupInv, Expire
  <2>4. StopInv'
    BY <1>0, <1>17 DEF StopInv, Accepted, Joined, Expire
  <2> QED BY <2>1, <2>2, <2>3, <2>4
<1>18. CASE UNCHANGED vars
  BY <1>0, <1>18 DEF vars, TaskInv, ChannelInv, GroupInv, StopInv,
     Accepted, Joined
<1> QED
  BY <1>1, <1>2, <1>3, <1>4, <1>5, <1>6, <1>7, <1>8, <1>9, <1>10, <1>11, <1>12, <1>13, <1>14, <1>15, <1>16, <1>17, <1>18
     DEF Next, TaskStep, ShutdownStep

\* The inductive invariant holds of every behaviour.
THEOREM InvCorrect == Spec => []SupervisorInv
<1>1. Init => SupervisorInv
  <2> SUFFICES ASSUME Init PROVE SupervisorInv
    OBVIOUS
  <2>1. TypeOK
    BY SupervisorConstants DEF Init, TypeOK, TaskPC, Results
  <2>2. TaskInv /\ ChannelInv /\ GroupInv
    BY SupervisorConstants DEF Init, TaskInv, ChannelInv, GroupInv
  <2>3. StopInv
    BY DEF Init, StopInv, Accepted, Joined
  <2> QED BY <2>1, <2>2, <2>3 DEF SupervisorInv
<1> QED BY <1>1, InvStep, PTL DEF Spec

-----------------------------------------------------------------------------
\* No failure is lost: a task that ended in an error is recorded for readiness,
\* unless a stop had begun, and the group holds an error for Shutdown.
THEOREM FailureKept == Spec => []NoFailureLost
<1>1. SupervisorInv => NoFailureLost
  BY DEF SupervisorInv, TypeOK, TaskInv, GroupInv, NoFailureLost, Failures
<1> QED BY <1>1, InvCorrect, PTL

\* Shutdown answering without its deadline has joined every task that was ever
\* accepted, and answers nil exactly when all of them stopped as asked.
THEOREM JoinCorrect == Spec => []JoinIsComplete
<1>1. SupervisorInv => JoinIsComplete
  <2> SUFFICES ASSUME SupervisorInv, NEW c \in Callers,
                      spc[c] = "returned", answer[c] # Deadline
               PROVE  /\ Joined = Accepted
                      /\ answer[c] = NoErr <=> \A t \in Accepted : result[t] = "nil"
    BY DEF JoinIsComplete
  <2>1. owner # NoCaller /\ spc[owner] = "returned" /\ answer[c] = stopErr
    BY DEF SupervisorInv, StopInv
  <2>2. Joined = Accepted /\ answer[c] = groupErr
    BY <2>1 DEF SupervisorInv, StopInv
  <2>3. groupErr = NoErr <=> \A t \in Accepted : result[t] = "nil"
    BY <2>2 DEF SupervisorInv, GroupInv, Joined, Accepted
  <2> QED BY <2>2, <2>3
<1> QED BY <1>1, InvCorrect, PTL

\* All callers of Shutdown get one answer.
THEOREM AnswersAgree == Spec => []ShutdownAnswersAgree
<1>1. SupervisorInv => ShutdownAnswersAgree
  BY DEF SupervisorInv, StopInv, ShutdownAnswersAgree
<1> QED BY <1>1, InvCorrect, PTL

\* The goroutine of a failing task never blocks on the failure channel.
THEOREM SendReady == Spec => []SenderNeverBlocks
<1>1. SupervisorInv => SenderNeverBlocks
  BY DEF SupervisorInv, ChannelInv, SenderNeverBlocks
<1> QED BY <1>1, InvCorrect, PTL

\* The first failure is recorded and delivered once and for all, and no task's end
\* cancels the context of the others.
THEOREM FirstFailureKept == Spec => FirstFailureIsFinal
<1> DEFINE Final ==
       /\ recordedFailure # NoErr => recordedFailure' = recordedFailure
       /\ delivered # NoErr => delivered' = delivered
       /\ (\E t \in Tasks : pc'[t] # pc[t]) => taskCtxDone' = taskCtxDone
<1>1. SupervisorInv /\ [Next]_vars => [Final]_vars
  <2> SUFFICES ASSUME SupervisorInv, Next PROVE Final
    OBVIOUS
  <2> USE DEF taskVars, stopVars
  <2>1. ASSUME NEW t \in Tasks, Go(t) \/ TaskStep(t) PROVE Final
    BY <2>1 DEF Go, TaskStep, RecordStopping, RecordCtx, RecordCAS, Send, Finish
  <2>2. ASSUME NEW t \in Tasks, NEW o \in Outcomes, RunTask(t, o) PROVE Final
    BY <2>2 DEF RunTask
  <2>3. ASSUME NEW c \in Callers, Shutdown(c) \/ ShutdownStep(c) \/ Expire(c)
        PROVE  Final
    BY <2>3 DEF Shutdown, ShutdownStep, StoreStopping, Cancel, SelectJoined,
                SelectDeadline, OnceDone, Expire
  <2>4. ASSUME GroupWait \/ ParentCancel PROVE Final
    BY <2>4 DEF GroupWait, ParentCancel
  <2>5. ASSUME Receive PROVE Final
    BY <2>5 DEF Receive, SupervisorInv, ChannelInv
  <2> QED BY <2>1, <2>2, <2>3, <2>4, <2>5 DEF Next
<1>2. Spec => [][Final]_vars
  BY <1>1, InvCorrect, PTL DEF Spec
<1> QED BY <1>2 DEF FirstFailureIsFinal

-----------------------------------------------------------------------------
\* The tasks in flight, as the refinement mapping gives them to Background.
InFlight == Accepted \ Joined

\* A task is in flight when it has been accepted and is not over.
LEMMA InFlightIs ==
    InFlight = {t \in Runnable : pc[t] \notin {"new", "rejected", "done"}}
BY DEF InFlight, Accepted, Joined

\* The same of the next state.
LEMMA InFlightIsNext ==
    InFlight' = {t \in Runnable : pc'[t] \notin {"new", "rejected", "done"}}
BY DEF InFlight, Accepted, Joined

\* The steps of a Shutdown caller that Background does not see.
LEMMA QuietCallerSteps ==
    ASSUME SupervisorInv, NEW c \in Callers,
           Shutdown(c) \/ Cancel(c) \/ OnceDone(c) \/ Expire(c)
    PROVE  InFlight' = InFlight /\ recordedFailure' = recordedFailure
           /\ StopState' = StopState
<1> USE DEF taskVars, stopVars, TypeOK
<1>0. TypeOK /\ StopInv
  BY DEF SupervisorInv
<1>1. CASE Expire(c)
  BY <1>1, InFlightIs, InFlightIsNext DEF Expire, StopState
<1>2. CASE Cancel(c)
  <2>1. owner = c /\ owner' = c /\ spc'[c] = "select" /\ spc[c] = "cancel"
    BY <1>0, <1>2 DEF Cancel, StopInv
  <2> QED BY <1>2, <2>1, InFlightIs, InFlightIsNext DEF Cancel, StopState
<1>3. CASE Shutdown(c)
  BY <1>0, <1>3, InFlightIs, InFlightIsNext, SupervisorConstants
     DEF Shutdown, StopState, StopInv
<1>4. CASE OnceDone(c)
  BY <1>0, <1>4, InFlightIs, InFlightIsNext, SupervisorConstants
     DEF OnceDone, StopState, StopInv
<1> QED BY <1>1, <1>2, <1>3, <1>4

\* The supervisor implements its contract.
THEOREM SupervisorImplements == Spec => ImplementsContract
<1> DEFINE Visible == [Contract!BackgroundNext]_(Contract!bgVars)
<1> USE DEF taskVars, stopVars
<1>1. Init => Contract!BackgroundInit
  <2> SUFFICES ASSUME Init PROVE Contract!BackgroundInit
    OBVIOUS
  <2>1. InFlight = {}
    BY InFlightIs, SupervisorConstants DEF Init
  <2> QED BY <2>1 DEF Init, Contract!BackgroundInit, StopState, InFlight
<1>2. SupervisorInv /\ [Next]_vars => Visible
  <2> SUFFICES ASSUME SupervisorInv, [Next]_vars PROVE Visible
    OBVIOUS
  <2>0. TypeOK /\ StopInv /\ Runnable \subseteq Tasks
    BY SupervisorConstants DEF SupervisorInv
  <2>1. ASSUME InFlight' = InFlight, recordedFailure' = recordedFailure,
               StopState' = StopState
        PROVE  Visible
    BY <2>1 DEF Contract!bgVars, InFlight
  <2>2. ASSUME NEW t \in Tasks, Go(t) PROVE Visible
    <3>1. StopState' = StopState /\ recordedFailure' = recordedFailure
      BY <2>2 DEF Go, StopState
    <3>2. CASE t \in Runnable /\ ~stopping
      <4>1. InFlight' = InFlight \cup {t}
        BY <2>0, <2>2, <3>2, InFlightIs, InFlightIsNext DEF Go, TypeOK
      <4>2. StopState = "no"
        BY <2>0, <3>2 DEF StopState, StopInv
      <4> QED
        BY <3>1, <4>1, <4>2
           DEF Contract!BackgroundNext, Contract!Accept, InFlight
    <3>3. CASE ~(t \in Runnable /\ ~stopping)
      <4>1. InFlight' = InFlight
        BY <2>0, <2>2, <3>3, InFlightIs, InFlightIsNext DEF Go, TypeOK
      <4> QED BY <2>1, <3>1, <4>1
    <3> QED BY <3>2, <3>3
  <2>3. ASSUME NEW t \in Tasks, RecordCAS(t) PROVE Visible
    <3>1. InFlight' = InFlight /\ StopState' = StopState
      BY <2>0, <2>3, InFlightIs, InFlightIsNext DEF RecordCAS, StopState, TypeOK
    <3>2. CASE recordedFailure = NoErr
      BY <2>3, <3>1, <3>2
         DEF RecordCAS, Contract!BackgroundNext, Contract!Publish, InFlight
    <3>3. CASE recordedFailure # NoErr
      BY <2>1, <2>3, <3>1, <3>3 DEF RecordCAS
    <3> QED BY <3>2, <3>3
  <2>4. ASSUME NEW t \in Tasks, Finish(t) PROVE Visible
    <3>1. StopState' = StopState /\ recordedFailure' = recordedFailure
      BY <2>4 DEF Finish, StopState
    <3>2. CASE t \in Runnable
      <4>1. t \in InFlight /\ InFlight' = InFlight \ {t}
        BY <2>0, <2>4, <3>2, InFlightIs, InFlightIsNext DEF Finish, TypeOK
      <4> QED
        BY <3>1, <4>1 DEF Contract!BackgroundNext, Contract!End, InFlight
    <3>3. CASE t \notin Runnable
      <4>1. InFlight' = InFlight
        BY <2>0, <2>4, <3>3, InFlightIs, InFlightIsNext DEF Finish, TypeOK
      <4> QED BY <2>1, <3>1, <4>1
    <3> QED BY <3>2, <3>3
  <2>5. ASSUME NEW c \in Callers, StoreStopping(c) PROVE Visible
    <3>1. InFlight' = InFlight /\ recordedFailure' = recordedFailure
      BY <2>5, InFlightIs, InFlightIsNext DEF StoreStopping
    <3>2. owner = c /\ owner' = c /\ spc[c] = "store" /\ spc'[c] = "cancel" /\ stopping'
      BY <2>0, <2>5 DEF StoreStopping, StopInv, TypeOK
    <3>3. StopState' = "begun"
      BY <3>2, SupervisorConstants DEF StopState
    <3>4. StopState \in {"no", "begun"}
      BY <3>2 DEF StopState
    <3>5. CASE StopState = "no"
      BY <3>1, <3>3, <3>5 DEF Contract!BackgroundNext, Contract!BeginStop, InFlight
    <3>6. CASE StopState = "begun"
      BY <2>1, <3>1, <3>3, <3>6
    <3> QED BY <3>4, <3>5, <3>6
  <2>6. ASSUME NEW c \in Callers, SelectJoined(c) \/ SelectDeadline(c) PROVE Visible
    <3>1. InFlight' = InFlight /\ recordedFailure' = recordedFailure
      BY <2>6, InFlightIs, InFlightIsNext DEF SelectJoined, SelectDeadline
    <3>2. owner = c /\ owner' = c /\ spc[c] = "select" /\ spc'[c] = "returned" /\ stopping
      BY <2>0, <2>6, SupervisorConstants DEF SelectJoined, SelectDeadline, StopInv, TypeOK
    <3>3. StopState = "begun"
      BY <3>2 DEF StopState
    <3>4. CASE SelectJoined(c)
      <4>1. InFlight = {}
        BY <2>0, <3>4 DEF SelectJoined, StopInv, InFlight
      <4>2. stopErr' # Deadline
        BY <2>0, <3>4, SupervisorConstants DEF SelectJoined, TypeOK
      <4>3. StopState' = "joined"
        BY <3>2, <4>2, SupervisorConstants DEF StopState
      <4> QED
        BY <3>1, <3>3, <4>1, <4>3 DEF Contract!BackgroundNext, Contract!Join, InFlight
    <3>5. CASE SelectDeadline(c)
      <4>1. StopState' = "abandoned"
        BY <3>2, <3>5, SupervisorConstants DEF SelectDeadline, StopState
      <4> QED
        BY <3>1, <3>3, <4>1 DEF Contract!BackgroundNext, Contract!Abandon, InFlight
    <3> QED BY <2>6, <3>4, <3>5
  <2>7. ASSUME NEW t \in Tasks, NEW o \in Outcomes, RunTask(t, o) PROVE Visible
    <3>1. InFlight' = InFlight /\ recordedFailure' = recordedFailure
          /\ StopState' = StopState
      BY <2>0, <2>7, InFlightIs, InFlightIsNext DEF RunTask, StopState, TypeOK
    <3> QED BY <2>1, <3>1
  <2>8. ASSUME NEW t \in Tasks, RecordStopping(t) \/ RecordCtx(t) \/ Send(t)
        PROVE  Visible
    <3>1. InFlight' = InFlight /\ recordedFailure' = recordedFailure
          /\ StopState' = StopState
      BY <2>0, <2>8, InFlightIs, InFlightIsNext
         DEF RecordStopping, RecordCtx, Send, StopState, TypeOK
    <3> QED BY <2>1, <3>1
  <2>9. ASSUME NEW c \in Callers, Shutdown(c) \/ Cancel(c) \/ OnceDone(c) \/ Expire(c)
        PROVE  Visible
    BY <2>1, <2>9, QuietCallerSteps
  <2>10. ASSUME GroupWait \/ Receive \/ ParentCancel \/ UNCHANGED vars PROVE Visible
    <3>1. InFlight' = InFlight /\ recordedFailure' = recordedFailure
          /\ StopState' = StopState
      BY <2>10, InFlightIs, InFlightIsNext
         DEF GroupWait, Receive, ParentCancel, vars, StopState
    <3> QED BY <2>1, <3>1
  <2> QED
    BY <2>2, <2>3, <2>4, <2>5, <2>6, <2>7, <2>8, <2>9, <2>10
       DEF Next, TaskStep, ShutdownStep
<1>3. Spec => Contract!BackgroundInit /\ [][Contract!BackgroundNext]_(Contract!bgVars)
  BY <1>1, <1>2, InvCorrect, PTL DEF Spec
<1> QED BY <1>3 DEF ImplementsContract, Contract!BackgroundSpec
=============================================================================
