-------------------------- MODULE SnapshotSaveProofs --------------------------
(***************************************************************************)
(* What a save saves, for any number of commands, retries, failures and    *)
(* edits: whatever a handler takes as saved is in the registry and no      *)
(* older than its command.                                                 *)
(*                                                                         *)
(* FreshSave speaks of what was confirmed; its strengthening follows an    *)
(* image back from the handler to the poll, to Cloud's row, to the job     *)
(* that pushed it and to the lookup that job came from: at each of these   *)
(* places the command has begun, and the workspace is no older than that.  *)
(* The same strengthening shows that the saves implement SaveContract. Last *)
(* comes that, with at most three attempts, every save ends.               *)
(***************************************************************************)
EXTENDS SnapshotSave, TLAPS

Fresh(c, w) == w \in images /\ first[c] \in 0..w

\* Of Container Maker's lookups at most one is awaited, by the handler.
OneAwaited ==
    \A l \in lookups : l.awaited =>
        phase = "triggered" /\ \A m \in lookups : m.awaited => m = l

\* Who works for a command works for one that has begun.
Begun ==
    /\ current # NoCommand => first[current] # None
    /\ \A l \in lookups : first[l.command] # None
    /\ \A j \in jobs : first[j.command] # None
    /\ \A c \in Command : first[c] # None => first[c] \in 0..workspace

\* An image on its way to the handler.
Pushed == \A j \in jobs : j.pushed # None => Fresh(j.command, j.pushed)
Reported == \A c \in Command : rows[c].status = "Succeeded" => Fresh(c, rows[c].image)
Polled == seen.status = "Succeeded" => current # NoCommand /\ Fresh(current, seen.image)
Confirmed == \A c \in Command : confirmed[c] # None => Fresh(c, confirmed[c])

\* What was done with it.
Deleting ==
    phase \in {"delete", "deleted"} => current \in Hibernating /\ confirmed[current] # None
Succeeding == \A c \in Command : result[c] = "succeeded" => confirmed[c] # None
Deleted == ~ pod => \E c \in Hibernating : confirmed[c] # None

IInv ==
    /\ TypeOK /\ OneAwaited /\ Begun
    /\ Pushed /\ Reported /\ Polled /\ Confirmed
    /\ Deleting /\ Succeeding /\ Deleted

-----------------------------------------------------------------------------

\* A handler that is done leaves no deadline behind.
LEMMA IdleIsEarly == Idle => late' \in BOOLEAN
  BY DEF Idle

\* A process that has saved nothing satisfies every part.
LEMMA InitialState == Init => IInv
  <1>1. Init => late \in BOOLEAN
    BY DEF Init
  <1>. QED
    BY <1>1, CommandAssumption, BoundAssumption
    DEF Init, IInv, TypeOK, OneAwaited, Begun, Pushed, Reported, Polled, Confirmed,
        Deleting, Succeeding, Deleted, NoRow, Row, None, Workspace, Lookup, Job

\* Images only ever join the registry, and a command begins once: what was
\* fresh stays fresh while nobody begins.
LEMMA FreshStays ==
    ASSUME images \subseteq images', first' = first,
           NEW c, NEW w, Fresh(c, w)
    PROVE  Fresh(c, w)'
  BY DEF Fresh

\* A step of the handler that returns or is forgotten by a crash leaves no
\* phase, poll or lookup that speaks of a command.
LEMMA IdleKeeps ==
    ASSUME TypeOK, Idle,
           UNCHANGED <<jobs, rows, workspace, images, first, confirmed>>,
           Begun, Pushed, Reported, Confirmed,
           \A l \in lookups' : first[l.command] # None
    PROVE  Begun' /\ Pushed' /\ Reported' /\ Polled' /\ Confirmed' /\ Deleting'
  BY DEF TypeOK, Idle, Begun, Pushed, Reported, Polled, Confirmed, Deleting, Fresh, NoRow

\* The saves a failed call leaves behind are lookups nobody waits for, of
\* commands that have begun.
LEMMA ForsakenTyped ==
    ASSUME TypeOK, Begun
    PROVE  /\ Forsaken \subseteq Lookup
           /\ \A l \in Forsaken : ~ l.awaited /\ first[l.command] # None
  <1> SUFFICES ASSUME NEW l \in lookups, NEW m, m = [l EXCEPT !.awaited = FALSE]
               PROVE  m \in Lookup /\ ~ m.awaited /\ first[m.command] # None
    BY DEF Forsaken
  <1>1. l \in Lookup
    BY DEF TypeOK
  <1>2. m = [command |-> l.command, healed |-> l.healed, awaited |-> FALSE]
    BY <1>1 DEF Lookup
  <1>3. m \in Lookup /\ ~ m.awaited
    BY <1>1, <1>2 DEF Lookup
  <1>4. first[m.command] # None
    BY <1>2 DEF Begun
  <1> QED BY <1>3, <1>4

-----------------------------------------------------------------------------
(* The handler's steps *)

\* A command that begins has the workspace of its first beginning noted.
LEMMA BeginKeeps == ASSUME IInv, NEW c \in Command, Begin(c) PROVE IInv'
  <1> USE CommandAssumption, BoundAssumption DEF IInv, Begin, external
  <1>1. TypeOK'
    BY DEF TypeOK, None, Workspace
  <1>2. \A d \in Command : first[d] # None => first'[d] = first[d]
    BY DEF TypeOK
  <1>3. first' \in [Command -> {None} \cup Workspace] /\ first'[c] # None
        /\ first'[c] \in 0..workspace
    BY DEF TypeOK, None, Workspace, Begun
  <1>4. \A d \in Command : \A w : Fresh(d, w) => Fresh(d, w)'
    BY <1>2 DEF Fresh, None
  <1>5. OneAwaited'
    BY DEF OneAwaited
  <1>6. Begun'
    BY <1>2, <1>3 DEF Begun, TypeOK, Lookup, Job
  <1>7. Pushed' /\ Reported' /\ Confirmed'
    BY <1>4 DEF Pushed, Reported, Confirmed, TypeOK, Job
  <1>8. Polled'
    BY DEF Polled, TypeOK
  <1>9. Deleting' /\ Succeeding' /\ Deleted'
    BY DEF Deleting, Succeeding, Deleted
  <1> QED BY <1>1, <1>5, <1>6, <1>7, <1>8, <1>9

\* A call that fails, once more or for good, leaves its save behind.
LEMMA CallFailsKeeps == ASSUME IInv, CallFails PROVE IInv'
  <1> USE CommandAssumption, BoundAssumption DEF IInv, CallFails, history
  <1>1. Forsaken \subseteq Lookup /\ \A l \in Forsaken : ~ l.awaited /\ first[l.command] # None
    BY ForsakenTyped
  <1>2. faults' \in 0..MaxFaults
    BY DEF Fault, TypeOK
  <1>3. OneAwaited'
    BY <1>1 DEF OneAwaited
  <1>4. CASE attempt < MaxAttempts - 1 /\ attempt' = attempt + 1 /\ phase' = "trigger"
             /\ UNCHANGED <<current, seen, late, begun, result>>
    <2>1. TypeOK'
      BY <1>1, <1>2, <1>4 DEF TypeOK
    <2>2. Begun' /\ Pushed' /\ Reported' /\ Polled' /\ Confirmed'
      BY <1>1, <1>4 DEF Begun, Pushed, Reported, Polled, Confirmed, Fresh
    <2>3. Deleting' /\ Succeeding' /\ Deleted'
      BY <1>4 DEF Deleting, Succeeding, Deleted
    <2> QED BY <2>1, <2>2, <2>3, <1>3
  <1>5. CASE attempt = MaxAttempts - 1 /\ Return("failed")
    <2>1. TypeOK'
      BY <1>1, <1>2, <1>5, IdleIsEarly DEF TypeOK, Return, Idle, NoRow, Row, None
    <2>2. Begun' /\ Pushed' /\ Reported' /\ Polled' /\ Confirmed' /\ Deleting'
      BY <1>1, <1>5, IdleKeeps DEF Return
    <2>3. Succeeding' /\ Deleted'
      BY <1>5 DEF Succeeding, Deleted, Return, TypeOK
    <2> QED BY <2>1, <2>2, <2>3, <1>3
  <1> QED BY <1>4, <1>5

\* What a poll returns is Cloud's row, or nothing.
LEMMA PollKeeps == ASSUME IInv, Poll PROVE IInv'
  <1> USE DEF IInv, Poll, external, history
  <1>1. current \in Command
    BY DEF TypeOK
  <1>2. seen' \in Row /\ (seen'.status = "Succeeded" => seen' = rows[current])
    BY <1>1 DEF TypeOK, RequestId, NoRow, Row, None
  <1>3. TypeOK'
    BY <1>1, <1>2 DEF TypeOK
  <1>4. Polled'
    BY <1>1, <1>2, CommandAssumption DEF Polled, Reported, Fresh
  <1>5. OneAwaited' /\ Begun' /\ Pushed' /\ Reported' /\ Confirmed'
    BY DEF OneAwaited, Begun, Pushed, Reported, Confirmed, Fresh
  <1>6. Deleting' /\ Succeeding' /\ Deleted'
    BY DEF Deleting, Succeeding, Deleted
  <1> QED BY <1>3, <1>4, <1>5, <1>6

\* The row a handler takes as confirmation is of a pushed, fresh image.
LEMMA ConfirmKeeps == ASSUME IInv, Confirm PROVE IInv'
  <1> USE CommandAssumption, BoundAssumption DEF IInv, Confirm, external
  <1>1. current \in Command /\ Fresh(current, seen.image) /\ seen.image # None
    BY DEF TypeOK, Polled, Fresh, Row, None, Workspace
  <1>2. confirmed' = [confirmed EXCEPT ![current] = seen.image]
    OBVIOUS
  <1>3. Confirmed'
    BY <1>1, <1>2 DEF Confirmed, Fresh, TypeOK
  <1>4. confirmed'[current] # None /\ \A c \in Command : confirmed[c] # None => confirmed'[c] # None
    BY <1>1, <1>2 DEF TypeOK
  <1>5. confirmed' \in [Command -> {None} \cup Workspace]
    BY <1>1, <1>2 DEF TypeOK, Fresh
  <1>6. OneAwaited'
    BY DEF OneAwaited
  <1>7. Deleted'
    BY <1>4 DEF Deleted
  <1>8. CASE current \in Hibernating /\ phase' = "delete"
             /\ UNCHANGED <<current, attempt, seen, late, begun, result>>
    <2>1. TypeOK'
      BY <1>1, <1>5, <1>8 DEF TypeOK
    <2>2. Begun' /\ Pushed' /\ Reported' /\ Polled'
      BY <1>8 DEF Begun, Pushed, Reported, Polled, Fresh
    <2>3. Deleting' /\ Succeeding'
      BY <1>4, <1>8 DEF Deleting, Succeeding
    <2> QED BY <1>3, <1>6, <1>7, <2>1, <2>2, <2>3
  <1>9. CASE Return("succeeded")
    <2>1. TypeOK'
      BY <1>5, <1>9, IdleIsEarly DEF TypeOK, Return, Idle, NoRow, Row, None
    <2>2. Begun' /\ Pushed' /\ Reported' /\ Polled' /\ Deleting'
      BY <1>9 DEF Return, Idle, TypeOK, NoRow, Begun, Pushed, Reported, Polled, Deleting, Fresh
    <2>3. Succeeding'
      BY <1>1, <1>4, <1>9 DEF Return, Succeeding, TypeOK
    <2> QED BY <1>3, <1>6, <1>7, <2>1, <2>2, <2>3
  <1> QED BY <1>8, <1>9

\* A save that fails confirms nothing.
LEMMA SaveFailsKeeps == ASSUME IInv, SaveFails PROVE IInv'
  <1> USE DEF IInv, SaveFails, external, history
  <1>1. TypeOK'
    BY BoundAssumption, IdleIsEarly DEF TypeOK, Return, Idle, NoRow, Row, None
  <1>2. OneAwaited'
    BY DEF OneAwaited
  <1>3. Begun' /\ Pushed' /\ Reported' /\ Polled' /\ Confirmed' /\ Deleting'
    BY IdleKeeps DEF Return, Begun
  <1>4. Succeeding' /\ Deleted'
    BY DEF Succeeding, Deleted, Return, TypeOK
  <1> QED BY <1>1, <1>2, <1>3, <1>4

\* The pod goes only at the delete of a confirmed hibernation.
LEMMA DeleteKeeps == ASSUME IInv, Delete PROVE IInv'
  <1> USE DEF IInv, Delete, history
  <1>1. OneAwaited'
    BY DEF OneAwaited
  <1>2. CASE pod' = FALSE /\ phase' = "deleted"
             /\ UNCHANGED <<current, attempt, seen, late, begun, result>>
    <2>1. TypeOK'
      BY <1>2 DEF TypeOK
    <2>2. Begun' /\ Pushed' /\ Reported' /\ Polled' /\ Confirmed'
      BY <1>2 DEF Begun, Pushed, Reported, Polled, Confirmed, Fresh
    <2>3. Deleting' /\ Succeeding' /\ Deleted'
      BY <1>2 DEF Deleting, Succeeding, Deleted
    <2> QED BY <1>1, <2>1, <2>2, <2>3
  <1>3. CASE Return("failed") /\ UNCHANGED pod
    <2>1. TypeOK'
      BY <1>3, BoundAssumption, IdleIsEarly DEF TypeOK, Return, Idle, NoRow, Row, None
    <2>2. Begun' /\ Pushed' /\ Reported' /\ Polled' /\ Confirmed' /\ Deleting'
      BY <1>3, IdleKeeps DEF Return, Begun
    <2>3. Succeeding' /\ Deleted'
      BY <1>3 DEF Succeeding, Deleted, Return, TypeOK
    <2> QED BY <1>1, <2>1, <2>2, <2>3
  <1> QED BY <1>2, <1>3

\* A hibernation succeeds after its confirmed save.
LEMMA DeleteReturnsKeeps == ASSUME IInv, DeleteReturns PROVE IInv'
  <1> USE DEF IInv, DeleteReturns, external, history
  <1>1. TypeOK'
    BY BoundAssumption, IdleIsEarly DEF TypeOK, Return, Idle, NoRow, Row, None
  <1>2. OneAwaited'
    BY DEF OneAwaited
  <1>3. Begun' /\ Pushed' /\ Reported' /\ Polled' /\ Confirmed' /\ Deleting'
    BY IdleKeeps DEF Return, Begun
  <1>4. Succeeding' /\ Deleted'
    BY DEF Succeeding, Deleted, Deleting, Return, TypeOK
  <1> QED BY <1>1, <1>2, <1>3, <1>4

\* Polling again and the passing of time change neither images nor commands.
LEMMA WaitingKeeps == ASSUME IInv, PollAgain \/ DeadlinePasses PROVE IInv'
  <1> USE DEF IInv, PollAgain, DeadlinePasses, external, history
  <1>1. TypeOK'
    BY BoundAssumption DEF TypeOK
  <1>2. OneAwaited' /\ Begun' /\ Pushed' /\ Reported' /\ Polled' /\ Confirmed'
    BY DEF OneAwaited, Begun, Pushed, Reported, Polled, Confirmed, Fresh
  <1>3. Deleting' /\ Succeeding' /\ Deleted'
    BY DEF Deleting, Succeeding, Deleted
  <1> QED BY <1>1, <1>2, <1>3

\* A crash leaves what was pushed, reported and confirmed as it was.
LEMMA CrashKeeps == ASSUME IInv, Crash PROVE IInv'
  <1> USE DEF IInv, Crash, history
  <1>1. Forsaken \subseteq Lookup /\ \A l \in Forsaken : ~ l.awaited /\ first[l.command] # None
    BY ForsakenTyped
  <1>2. TypeOK'
    BY <1>1, BoundAssumption, IdleIsEarly DEF TypeOK, Fault, Idle, NoRow, Row, None
  <1>3. OneAwaited'
    BY <1>1 DEF OneAwaited
  <1>4. Begun' /\ Pushed' /\ Reported' /\ Polled' /\ Confirmed' /\ Deleting'
    BY <1>1, IdleKeeps
  <1>5. Succeeding' /\ Deleted'
    BY DEF Succeeding, Deleted
  <1> QED BY <1>2, <1>3, <1>4, <1>5

-----------------------------------------------------------------------------
(* Container Maker's steps *)

\* Container Maker's save is of the command that waits for it.
LEMMA TakeCallKeeps == ASSUME IInv, TakeCall PROVE IInv'
  <1> USE DEF IInv, TakeCall, history
  <1>1. current \in Command /\ current # NoCommand
    BY CommandAssumption DEF TypeOK
  <1>a. [command |-> current, healed |-> FALSE, awaited |-> TRUE] \in Lookup
    BY <1>1 DEF Lookup
  <1>2. TypeOK'
    BY <1>1, <1>a DEF TypeOK
  <1>3. OneAwaited'
    BY DEF OneAwaited
  <1>4. Begun'
    BY <1>1 DEF Begun
  <1>5. Pushed' /\ Reported' /\ Polled' /\ Confirmed'
    BY DEF Pushed, Reported, Polled, Confirmed, Fresh
  <1>6. Deleting' /\ Succeeding' /\ Deleted'
    BY DEF Deleting, Succeeding, Deleted
  <1> QED BY <1>2, <1>3, <1>4, <1>5, <1>6

\* A refused save fails the handler that waits for it, and no other.
LEMMA RefusedKeeps == ASSUME IInv, NEW l \in lookups, Refused(l) PROVE IInv'
  <1> USE DEF IInv, Refused, history
  <1>1. CASE l.awaited
    <2> USE <1>1
    <2>1. TypeOK'
      BY BoundAssumption, IdleIsEarly DEF TypeOK, Return, Idle, NoRow, Row, None
    <2>2. OneAwaited'
      BY DEF OneAwaited
    <2>3. Begun' /\ Pushed' /\ Reported' /\ Polled' /\ Confirmed' /\ Deleting'
      BY IdleKeeps DEF Return, Begun
    <2>4. Succeeding' /\ Deleted'
      BY DEF Succeeding, Deleted, Return, TypeOK
    <2> QED BY <2>1, <2>2, <2>3, <2>4
  <1>2. CASE ~ l.awaited
    <2> USE <1>2 DEF handler
    <2>1. TypeOK'
      BY DEF TypeOK
    <2>2. OneAwaited' /\ Begun'
      BY DEF OneAwaited, Begun
    <2>3. Pushed' /\ Reported' /\ Polled' /\ Confirmed'
      BY DEF Pushed, Reported, Polled, Confirmed, Fresh
    <2>4. Deleting' /\ Succeeding' /\ Deleted'
      BY DEF Deleting, Succeeding, Deleted
    <2> QED BY <2>1, <2>2, <2>3, <2>4
  <1> QED BY <1>1, <1>2

\* A lookup changes only how far Container Maker's save has come.
LEMMA LookUpKeeps == ASSUME IInv, NEW l \in lookups, LookUp(l) PROVE IInv'
  <1> USE DEF IInv, LookUp, history, handler
  <1> DEFINE m == [l EXCEPT !.healed = TRUE]
  <1>1. m \in Lookup /\ m.command = l.command /\ m.awaited = l.awaited
    BY DEF TypeOK, Lookup
  <1> HIDE DEF m
  <1>2. lookups' = (lookups \ {l}) \cup {m}
    BY DEF m
  <1>3. TypeOK'
    BY <1>1, <1>2 DEF TypeOK
  <1>4. OneAwaited' /\ Begun'
    BY <1>1, <1>2 DEF OneAwaited, Begun
  <1>5. Pushed' /\ Reported' /\ Polled' /\ Confirmed'
    BY DEF Pushed, Reported, Polled, Confirmed, Fresh
  <1>6. Deleting' /\ Succeeding' /\ Deleted'
    BY DEF Deleting, Succeeding, Deleted
  <1> QED BY <1>3, <1>4, <1>5, <1>6

\* A job belongs to a command that has begun.
LEMMA CreateJobKeeps == ASSUME IInv, NEW l \in lookups, CreateJob(l) PROVE IInv'
  <1> USE DEF IInv, CreateJob, history
  <1> DEFINE j == [command |-> l.command, allocated |-> FALSE, pushed |-> None]
  <1>1. j \in Job /\ j.command = l.command /\ j.pushed = None
    BY DEF TypeOK, Lookup, Job
  <1> HIDE DEF j
  <1>2. jobs' = jobs \cup {j}
    BY DEF j
  <1>3. TypeOK'
    BY <1>1, <1>2, BoundAssumption, CommandAssumption DEF TypeOK, OneAwaited, handler
  <1>4. OneAwaited' /\ Begun'
    BY <1>1, <1>2 DEF OneAwaited, Begun, handler
  <1>5. Pushed' /\ Reported' /\ Polled' /\ Confirmed'
    BY <1>1, <1>2 DEF Pushed, Reported, Polled, Confirmed, Fresh, handler
  <1>6. Deleting' /\ Succeeding' /\ Deleted'
    BY DEF Deleting, Succeeding, Deleted, handler
  <1> QED BY <1>3, <1>4, <1>5, <1>6

-----------------------------------------------------------------------------
(* The job's steps, the user's, and the theorem *)

\* A row that is allocated anew speaks of no success.
LEMMA AllocateKeeps == ASSUME IInv, NEW j \in jobs, Allocate(j) PROVE IInv'
  <1> USE DEF IInv, Allocate, Becomes, history, handler
  <1> DEFINE r == RequestId(j.command)
  <1>1. r \in Command
    BY DEF TypeOK, Job, RequestId
  <1> HIDE DEF r
  <1>2. \/ rows' = [rows EXCEPT ![r] = [status |-> "Pending", image |-> None]]
        \/ UNCHANGED rows
    BY DEF r
  <1> DEFINE k == [j EXCEPT !.allocated = TRUE]
  <1>a. j \in Job /\ k \in Job /\ k.command = j.command /\ k.pushed = j.pushed
    BY DEF TypeOK, Job
  <1> HIDE DEF k
  <1>3. \/ jobs' = (jobs \ {j}) \cup {k}
        \/ jobs' = (jobs \ {j}) \cup {j}
    BY DEF k
  <1>4. rows' \in [Command -> Row]
    BY <1>1, <1>2 DEF TypeOK, Row
  <1>b. faults' \in 0..MaxFaults
    BY BoundAssumption DEF Fault, TypeOK
  <1>5. TypeOK'
    BY <1>a, <1>b, <1>3, <1>4 DEF TypeOK
  <1>6. OneAwaited' /\ Begun'
    BY <1>a, <1>3 DEF OneAwaited, Begun
  <1>7. Pushed' /\ Polled' /\ Confirmed'
    BY <1>a, <1>3 DEF Pushed, Polled, Confirmed, Fresh
  <1>8. Reported'
    BY <1>1, <1>2 DEF Reported, Fresh, TypeOK
  <1>9. Deleting' /\ Succeeding' /\ Deleted'
    BY DEF Deleting, Succeeding, Deleted
  <1> QED BY <1>5, <1>6, <1>7, <1>8, <1>9

\* What a job pushes is the workspace of now, no older than its command.
LEMMA PushKeeps == ASSUME IInv, NEW j \in jobs, Push(j) PROVE IInv'
  <1> USE DEF IInv, Push, Becomes, history, handler
  <1> DEFINE k == [j EXCEPT !.pushed = workspace]
  <1>1. j \in Job /\ workspace \in Workspace /\ workspace # None
    BY DEF TypeOK, Workspace, None
  <1>2. k \in Job /\ k.command = j.command /\ k.pushed = workspace
    BY <1>1 DEF Job
  <1> HIDE DEF k
  <1>3. jobs' = (jobs \ {j}) \cup {k}
    BY DEF k
  <1>4. TypeOK'
    BY <1>1, <1>2, <1>3 DEF TypeOK
  <1>5. OneAwaited' /\ Begun'
    BY <1>2, <1>3 DEF OneAwaited, Begun
  <1>6. Fresh(j.command, workspace)'
    BY <1>1 DEF Fresh, Begun, Job
  <1>7. Pushed'
    BY <1>2, <1>3, <1>6 DEF Pushed, Fresh
  <1>8. Reported' /\ Polled' /\ Confirmed'
    BY DEF Reported, Polled, Confirmed, Fresh
  <1>9. Deleting' /\ Succeeding' /\ Deleted'
    BY DEF Deleting, Succeeding, Deleted
  <1> QED BY <1>4, <1>5, <1>7, <1>8, <1>9

\* A job reports success only of what it has pushed.
LEMMA JobEndsKeeps == ASSUME IInv, NEW j \in jobs, JobEnds(j) PROVE IInv'
  <1> USE DEF IInv, JobEnds, history, handler
  <1> DEFINE r == RequestId(j.command)
  <1>1. j \in Job /\ r \in Command /\ r = j.command
    BY DEF TypeOK, Job, RequestId
  <1> HIDE DEF r
  <1>2. \/ j.pushed # None
           /\ rows' = [rows EXCEPT ![r] = [status |-> "Succeeded", image |-> j.pushed]]
        \/ rows' = [rows EXCEPT ![r] = [status |-> "Failed", image |-> j.pushed]]
        \/ UNCHANGED rows
    BY DEF r
  <1>3. rows' \in [Command -> Row]
    BY <1>1, <1>2 DEF TypeOK, Row, Job
  <1>a. faults' \in 0..MaxFaults
    BY BoundAssumption DEF Fault, TypeOK
  <1>4. TypeOK'
    BY <1>3, <1>a DEF TypeOK
  <1>5. OneAwaited' /\ Begun'
    BY DEF OneAwaited, Begun
  <1>6. Pushed' /\ Polled' /\ Confirmed'
    BY DEF Pushed, Polled, Confirmed, Fresh
  <1>7. Reported'
    BY <1>1, <1>2 DEF Reported, Pushed, Fresh, TypeOK
  <1>8. Deleting' /\ Succeeding' /\ Deleted'
    BY DEF Deleting, Succeeding, Deleted
  <1> QED BY <1>4, <1>5, <1>6, <1>7, <1>8

\* Edits only make the workspace newer.
LEMMA EditKeeps == ASSUME IInv, Edit PROVE IInv'
  <1> USE DEF IInv, Edit, history, handler
  <1>1. workspace' \in Workspace /\ workspace' = workspace + 1 /\ workspace \in Nat
    BY BoundAssumption DEF TypeOK, Workspace
  <1>2. TypeOK'
    BY <1>1 DEF TypeOK
  <1>3. \A c \in Command : first[c] # None => first[c] \in 0..(workspace + 1)
    BY <1>1 DEF Begun
  <1>4. OneAwaited' /\ Begun'
    BY <1>1, <1>3 DEF OneAwaited, Begun
  <1>5. Pushed' /\ Reported' /\ Polled' /\ Confirmed'
    BY DEF Pushed, Reported, Polled, Confirmed, Fresh
  <1>6. Deleting' /\ Succeeding' /\ Deleted'
    BY DEF Deleting, Succeeding, Deleted
  <1> QED BY <1>2, <1>4, <1>5, <1>6

\* Every step preserves the strengthening.
LEMMA StepKeeps == IInv /\ [Next]_vars => IInv'
  <1> SUFFICES ASSUME IInv, [Next]_vars PROVE IInv'
    OBVIOUS
  <1>1. CASE \E c \in Command : Begin(c)
    BY <1>1, BeginKeeps
  <1>2. CASE Handling
    BY <1>2, CallFailsKeeps, PollKeeps, ConfirmKeeps, SaveFailsKeeps, WaitingKeeps,
       DeleteKeeps, DeleteReturnsKeeps DEF Handling
  <1>3. CASE DeadlinePasses \/ Crash \/ Edit
    BY <1>3, WaitingKeeps, CrashKeeps, EditKeeps
  <1>4. CASE ContainerMaker
    BY <1>4, TakeCallKeeps, RefusedKeeps, LookUpKeeps, CreateJobKeeps DEF ContainerMaker
  <1>5. CASE \E j \in jobs : Working(j)
    BY <1>5, AllocateKeeps, PushKeeps, JobEndsKeeps DEF Working
  <1>6. CASE UNCHANGED vars
    BY <1>6 DEF vars, handler, external, history, IInv, TypeOK, OneAwaited, Begun, Pushed,
       Reported, Polled, Confirmed, Deleting, Succeeding, Deleted, Fresh
  <1> QED BY <1>1, <1>2, <1>3, <1>4, <1>5, <1>6 DEF Next

\* The strengthening holds of every behaviour.
THEOREM SaveInvariance == Spec => []IInv
  BY InitialState, StepKeeps, PTL DEF Spec

\* Every variable stays in its set.
THEOREM SaveTypes == Spec => []TypeOK
  <1>1. IInv => TypeOK
    BY DEF IInv
  <1> QED BY SaveInvariance, <1>1, PTL

\* save_execution.py: for any number of retries, crashes, lost reports and
\* edits, what a handler takes as saved is an image in the registry at least
\* as new as the command, and no save succeeds and no pod is deleted without.
THEOREM SavesAreFresh == Spec => []FreshSave
  <1>1. IInv => FreshSave
    BY DEF IInv, Confirmed, Fresh, Succeeding, Deleted, FreshSave
  <1> QED BY SaveInvariance, <1>1, PTL

-----------------------------------------------------------------------------
(* The saves keep the contract *)

\* A handler works for an open command, a pod that was deleted is gone, and
\* the registry has no workspace that is still to come.
ContractInv ==
    /\ images \subseteq 0..workspace
    /\ current # NoCommand => result[current] = "none"
    /\ phase = "deleted" => ~ pod

\* Every step keeps it.
LEMMA ContractInvStep == IInv /\ ContractInv /\ [Next]_vars => ContractInv'
  <1>. SUFFICES ASSUME IInv, ContractInv, [Next]_vars PROVE ContractInv'
    OBVIOUS
  <1>. USE CommandAssumption DEF ContractInv
  <1>. DEFINE Registry == UNCHANGED <<workspace, images>>
  <1>1. ASSUME NEW o, Return(o), Registry PROVE ContractInv'
    BY <1>1 DEF Return, Idle
  <1>2. CASE UNCHANGED <<current, result, phase, pod>> /\ Registry
    BY <1>2
  <1>3. CASE \E c \in Command : Begin(c)
    BY <1>3 DEF Begin, external
  <1>4. CASE Handling
    BY <1>1, <1>2, <1>4 DEF Handling, CallFails, Poll, Confirm, SaveFails, PollAgain,
       Delete, DeleteReturns, external
  <1>5. CASE Crash
    BY <1>5 DEF Crash, Idle
  <1>6. CASE ContainerMaker
    BY <1>1, <1>2, <1>6 DEF ContainerMaker, TakeCall, Refused, LookUp, CreateJob, handler
  <1>7. CASE (\E j \in jobs : Allocate(j) \/ JobEnds(j)) \/ DeadlinePasses \/ UNCHANGED vars
    BY <1>2, <1>7 DEF Allocate, JobEnds, Becomes, DeadlinePasses, handler, external, vars
  <1>8. CASE (\E j \in jobs : Push(j)) \/ Edit
    <2>1. workspace \in Nat /\ workspace' \in {workspace, workspace + 1}
          /\ images' \subseteq images \cup {workspace}
      BY <1>8 DEF Push, Becomes, Edit, IInv, TypeOK, Workspace
    <2>2. UNCHANGED <<current, result, phase, pod>>
      BY <1>8 DEF Push, Becomes, Edit, handler
    <2>. QED  BY <2>1, <2>2
  <1>. QED  BY <1>3, <1>4, <1>5, <1>6, <1>7, <1>8 DEF Next, Working

\* A handler that returns a failure fails its open command.
LEMMA FailureRefines ==
    ASSUME IInv, ContractInv, current # NoCommand, Return("failed"),
           UNCHANGED <<workspace, images, pod, first, confirmed>>
    PROVE  Contract!Next
  <1>1. current \in Command /\ Contract!Open(current)
    BY DEF IInv, TypeOK, ContractInv, Contract!Open
  <1>2. Contract!Fail(current)
    BY <1>1 DEF Return, Contract!Fail
  <1>. QED  BY <1>1, <1>2 DEF Contract!Next

\* Every step of a save is one the contract allows, or none.
LEMMA ContractStep == IInv /\ ContractInv /\ [Next]_vars => [Contract!Next]_(Contract!vars)
  <1>. SUFFICES ASSUME IInv, ContractInv, [Next]_vars
                PROVE  Contract!Next \/ UNCHANGED Contract!vars
    OBVIOUS
  <1>. USE DEF Contract!vars
  <1>1. phase # "idle" => /\ current # NoCommand /\ current \in Command
                          /\ Contract!Open(current)
    BY DEF IInv, TypeOK, ContractInv, Contract!Open
  <1>2. ASSUME NEW c \in Command, Begin(c) PROVE Contract!Next \/ UNCHANGED Contract!vars
    <2>1. CASE first[c] = None
      <3>1. first' = [first EXCEPT ![c] = workspace]
        BY <1>2, <2>1 DEF Begin
      <3>2. Contract!Begin(c)
        BY <1>2, <2>1, <3>1
        DEF Begin, external, Contract!Begin, Contract!Open, Contract!None, None
      <3>. QED  BY <3>2 DEF Contract!Next
    <2>2. CASE first[c] # None
      BY <1>2, <2>2 DEF Begin, external, IInv, TypeOK
    <2>. QED  BY <2>1, <2>2
  <1>3. CASE Confirm
    <2>1. current \in Command /\ Contract!Open(current)
      BY <1>1, <1>3 DEF Confirm
    <2>2. /\ seen.image \in images /\ first[current] # None
          /\ first[current] <= seen.image /\ seen.image <= workspace
      <3>1. Fresh(current, seen.image) /\ first[current] # None
        BY <1>1, <1>3 DEF Confirm, IInv, Polled, Begun
      <3>2. workspace \in Nat /\ images \subseteq 0..workspace
        BY DEF IInv, TypeOK, Workspace, ContractInv
      <3>3. seen.image \in images /\ first[current] \in 0..seen.image
        BY <3>1 DEF Fresh
      <3>4. seen.image \in 0..workspace
        BY <3>2, <3>3
      <3>. QED  BY <3>1, <3>2, <3>3, <3>4
    <2>3. result' = [result EXCEPT ![current] =
                        IF current \in Hibernating THEN @ ELSE "succeeded"]
      BY <1>3, <2>1 DEF Confirm, Return, IInv, TypeOK
    <2>4. Contract!TakeAsSaved(current)
      BY <1>3, <2>1, <2>2, <2>3
      DEF Confirm, external, Contract!TakeAsSaved, Contract!None, None
    <2>. QED  BY <2>1, <2>4 DEF Contract!Next
  <1>4. CASE Delete /\ pod' = FALSE /\ phase' = "deleted" /\ UNCHANGED result
    <2>1. /\ current \in Command /\ Contract!Open(current)
          /\ current \in Hibernating /\ confirmed[current] # None
      BY <1>1, <1>4 DEF Delete, IInv, Deleting
    <2>2. CASE pod
      <3>1. Contract!RemovePod(current)
        BY <1>4, <2>1, <2>2 DEF Delete, history, Contract!RemovePod, Contract!None, None
      <3>. QED  BY <2>1, <3>1 DEF Contract!Next
    <2>3. CASE ~ pod
      <3>1. pod = FALSE
        BY <2>3 DEF IInv, TypeOK
      <3>. QED  BY <1>4, <3>1 DEF Delete, history
    <2>. QED  BY <2>2, <2>3
  <1>5. CASE DeleteReturns
    <2>1. /\ current \in Command /\ Contract!Open(current) /\ ~ pod
          /\ current \in Hibernating /\ confirmed[current] # None
      BY <1>1, <1>5 DEF DeleteReturns, IInv, Deleting, ContractInv
    <2>2. Contract!Succeed(current)
      BY <1>5, <2>1
      DEF DeleteReturns, Return, external, history, Contract!Succeed, Contract!None, None
    <2>. QED  BY <2>1, <2>2 DEF Contract!Next
  <1>6. ASSUME NEW j \in jobs, Push(j) PROVE Contract!Next
    <2>1. Contract!PushImage
      BY <1>6 DEF Push, Becomes, history, Contract!PushImage
    <2>. QED  BY <2>1 DEF Contract!Next
  <1>7. CASE Edit
    <2>1. Contract!Edit
      BY <1>7 DEF Edit, history, Contract!Edit
    <2>. QED  BY <2>1 DEF Contract!Next
  <1>8. CASE CallFails \/ SaveFails \/ (Delete /\ UNCHANGED pod)
    BY <1>1, <1>8, FailureRefines DEF CallFails, SaveFails, Delete, external, history
  <1>9. CASE \E l \in lookups : Refused(l)
    <2>1. PICK l \in lookups : Refused(l)
      BY <1>9
    <2>2. l.awaited => phase = "triggered"
      BY DEF IInv, OneAwaited
    <2>. QED  BY <1>1, <2>1, <2>2, FailureRefines DEF Refused, history
  <1>10. CASE Poll \/ PollAgain \/ DeadlinePasses \/ Crash \/ TakeCall
    BY <1>10 DEF Poll, PollAgain, DeadlinePasses, Crash, TakeCall, external, history
  <1>11. CASE \E l \in lookups : LookUp(l) \/ CreateJob(l)
    BY <1>11 DEF LookUp, CreateJob, history
  <1>12. CASE \E j \in jobs : Allocate(j) \/ JobEnds(j)
    BY <1>12 DEF Allocate, JobEnds, Becomes, history
  <1>13. CASE UNCHANGED vars
    BY <1>13 DEF vars, external, history
  <1>14. Delete => \/ pod' = FALSE /\ phase' = "deleted" /\ UNCHANGED result
                   \/ UNCHANGED pod
    BY DEF Delete
  <1>. QED
    BY <1>2, <1>3, <1>4, <1>5, <1>6, <1>7, <1>8, <1>9, <1>10, <1>11, <1>12, <1>13, <1>14
    DEF Next, Handling, ContainerMaker, Working

\* For any commands, edits, retries, crashes and lost reports the saves do
\* what SaveContract allows and nothing else (save_execution.py, save.py,
\* hibernate.py:83-112).
THEOREM SavesKeepTheContract == Spec => SaveSpec
  <1>1. Init => Contract!Init /\ ContractInv
    BY CommandAssumption DEF Init, Contract!Init, Contract!None, None, ContractInv
  <1>2. Spec => []ContractInv
    BY <1>1, ContractInvStep, SaveInvariance, PTL DEF Spec
  <1>. QED
    BY <1>1, <1>2, ContractStep, SaveInvariance, PTL DEF Spec, SaveSpec, Contract!Spec

-----------------------------------------------------------------------------
(* Every save ends. What the states of a save enable is TLC's to check        *)
(* (NeverStuck); from there the argument is the prover's. Its chain of waits  *)
(* has a fixed length, so it needs a limit on the attempts: retry.py's is 3.  *)

\* A handler in attempt a of its call, before and after Container Maker has
\* it, its lookup done or not; one that polls; one that deletes.
Out(a) == phase = "trigger" /\ attempt = a
Taken(a, done) ==
    /\ phase = "triggered" /\ attempt = a
    /\ \A l \in lookups : l.awaited => l.healed = done
Polling == phase \in {"poll", "decide"}
Late(ph) == phase = ph /\ late
At(ph) == phase = ph
Again(a) == a < 2 /\ Out(a + 1)
Done == phase = "idle"

\* What a fair behaviour is to a save.
Going == [](IInv /\ NeverStuck) /\ [][Next]_vars /\ Fairness

\* What comes of a call: it is taken, looked up, answered, if it does not fail.
CallIsTaken(a) == Out(a) ~> Taken(a, FALSE) \/ Again(a) \/ Done
CallGoesOn(a) == Taken(a, FALSE) ~> Taken(a, TRUE) \/ Again(a) \/ Done
CallIsAnswered(a) == Taken(a, TRUE) ~> Polling \/ Again(a) \/ Done

\* The handler stays in its poll and in its delete until it goes on.
LEMMA OwnPace ==
    ASSUME IInv, phase \notin {"idle", "trigger", "triggered"}, [Next]_vars
    PROVE  Handling \/ DeadlinePasses \/ phase' = "idle" \/ UNCHANGED <<phase, late>>
  <1>1. \A l \in lookups : ~ l.awaited
    BY DEF IInv, OneAwaited
  <1>. QED
    BY <1>1 DEF Next, Begin, Crash, Idle, ContainerMaker, TakeCall, Refused, LookUp,
       CreateJob, Working, Allocate, Push, JobEnds, Becomes, Edit, handler, vars

\* A call that fails is made again, three times at most.
LEMMA FailsThrice ==
    ASSUME IInv, CallFails, NEW a \in 0..2, attempt = a, MaxAttempts <= 3
    PROVE  (Again(a) \/ Done)'
  <1>1. CASE attempt < MaxAttempts - 1 /\ attempt' = attempt + 1 /\ phase' = "trigger"
    BY <1>1, BoundAssumption DEF Again, Out
  <1>2. CASE Return("failed")
    BY <1>2 DEF Return, Idle, Done
  <1>. QED  BY <1>1, <1>2 DEF CallFails

\* Container Maker takes the call, or it fails.
LEMMA CallsAreTaken ==
    ASSUME NEW a \in 0..2, MaxAttempts <= 3
    PROVE  Going => CallIsTaken(a)
  <1>. DEFINE After == Taken(a, FALSE) \/ Again(a) \/ Done
  <1>1. ASSUME IInv, Out(a), TakeCall PROVE Taken(a, FALSE)'
    <2>1. \A l \in lookups : ~ l.awaited
      BY <1>1 DEF IInv, OneAwaited, Out
    <2>. QED  BY <1>1, <2>1 DEF TakeCall, Out, Taken
  <1>2. IInv /\ Out(a) /\ [Next]_vars => Out(a)' \/ After'
    <2>. SUFFICES ASSUME IInv, Out(a), [Next]_vars PROVE Out(a)' \/ After'
      OBVIOUS
    <2>1. \A l \in lookups : ~ l.awaited
      BY DEF IInv, OneAwaited, Out
    <2>2. CASE CallFails
      BY <2>2, FailsThrice DEF Out
    <2>3. CASE Crash
      BY <2>3 DEF Crash, Idle, Done
    <2>4. CASE UNCHANGED <<phase, attempt>>
      BY <2>4 DEF Out
    <2>. QED
      BY <1>1, <2>1, <2>2, <2>3, <2>4
      DEF Out, Next, Handling, Begin, Poll, Confirm, SaveFails, PollAgain, Delete,
          DeleteReturns, DeadlinePasses, ContainerMaker, Refused, LookUp, CreateJob,
          Working, Allocate, Push, JobEnds, Becomes, Edit, handler, vars
  <1>3. IInv /\ Out(a) /\ <<Proceeding>>_vars => After'
    BY <1>1 DEF Proceeding, Out
  <1>4. NeverStuck /\ Out(a) => ENABLED <<Proceeding>>_vars
    BY DEF NeverStuck, Out
  <1>. QED  BY <1>2, <1>3, <1>4, PTL DEF Going, Fairness, CallIsTaken

\* Container Maker goes on with the call, or it fails.
LEMMA CallsAreAnswered ==
    ASSUME NEW a \in 0..2, MaxAttempts <= 3
    PROVE  Going => CallGoesOn(a) /\ CallIsAnswered(a)
  <1>. DEFINE After == Again(a) \/ Done
  <1>1. ASSUME IInv, NEW done \in BOOLEAN, Taken(a, done), [Next]_vars, ~ Answering
        PROVE  Taken(a, done)' \/ After'
    <2>1. ASSUME NEW l \in lookups, ~ l.awaited, Refused(l) \/ LookUp(l) \/ CreateJob(l)
          PROVE  Taken(a, done)'
      <3>1. l \in Lookup
        BY <1>1, <2>1 DEF IInv, TypeOK
      <3>2. \A m \in lookups' : m.awaited => m \in lookups
        BY <2>1, <3>1 DEF Refused, LookUp, CreateJob, Lookup
      <3>. QED  BY <1>1, <2>1, <3>2 DEF Taken, Refused, LookUp, CreateJob, handler
    <2>2. ASSUME NEW l \in lookups, l.awaited, Refused(l) PROVE Done'
      BY <2>2 DEF Refused, Return, Idle, Done
    <2>3. CASE CallFails
      BY <1>1, <2>3, FailsThrice DEF Taken
    <2>4. CASE Crash
      BY <2>4 DEF Crash, Idle, Done
    <2>5. CASE UNCHANGED <<phase, attempt, lookups>>
      BY <1>1, <2>5 DEF Taken
    <2>6. ASSUME NEW l \in lookups, l.awaited, Refused(l) \/ LookUp(l) \/ CreateJob(l)
          PROVE  Refused(l)
      BY <1>1, <2>6 DEF Answering, CreateJob
    <2>7. CASE ContainerMaker
      BY <1>1, <2>1, <2>2, <2>6, <2>7 DEF ContainerMaker, TakeCall, Taken
    <2>8. CASE Edit \/ (\E j \in jobs : Working(j)) \/ UNCHANGED vars
      <3>1. ASSUME NEW j \in jobs, Working(j) PROVE UNCHANGED <<handler, lookups>>
        <4>1. CASE Allocate(j)
          BY <4>1 DEF Allocate, Becomes
        <4>2. CASE Push(j) \/ JobEnds(j)
          BY <4>2 DEF Push, JobEnds, Becomes
        <4>. QED  BY <3>1, <4>1, <4>2 DEF Working
      <3>2. UNCHANGED <<handler, lookups>>
        BY <2>8, <3>1 DEF Edit, vars, external
      <3>. QED  BY <2>5, <3>2 DEF handler
    <2>9. CASE Handling \/ (\E c \in Command : Begin(c)) \/ DeadlinePasses
      BY <1>1, <2>3, <2>9
      DEF Taken, Handling, Begin, Poll, Confirm, SaveFails, PollAgain, Delete,
          DeleteReturns, DeadlinePasses
    <2>. QED  BY <1>1, <2>4, <2>7, <2>8, <2>9 DEF Next
  <1>2. ASSUME IInv, Taken(a, FALSE), Answering PROVE Taken(a, TRUE)'
    <2>1. PICK l \in lookups : l.awaited /\ LookUp(l)
      BY <1>2 DEF Answering, Taken
    <2>2. l \in Lookup /\ \A m \in lookups : m.awaited => m = l
      BY <1>2, <2>1 DEF IInv, TypeOK, OneAwaited
    <2>3. [l EXCEPT !.healed = TRUE].healed = TRUE
      BY <2>2 DEF Lookup
    <2>. QED  BY <1>2, <2>1, <2>2, <2>3 DEF LookUp, Taken, handler
  <1>3. ASSUME IInv, Taken(a, TRUE), Answering PROVE (Polling \/ Done)'
    BY <1>3 DEF Answering, Taken, LookUp, CreateJob, Refused, Return, Idle, Polling, Done
  <1>4. IInv /\ Taken(a, FALSE) /\ [Next]_vars =>
           (Taken(a, FALSE) \/ Taken(a, TRUE) \/ After)'
    BY <1>1, <1>2
  <1>5. IInv /\ Taken(a, TRUE) /\ [Next]_vars => (Taken(a, TRUE) \/ Polling \/ After)'
    BY <1>1, <1>3
  <1>6. NeverStuck /\ (Taken(a, FALSE) \/ Taken(a, TRUE)) => ENABLED <<Answering>>_vars
    BY DEF NeverStuck, Taken
  <1>7. IInv /\ Taken(a, FALSE) /\ <<Answering>>_vars => Taken(a, TRUE)'
    BY <1>2
  <1>8. IInv /\ Taken(a, TRUE) /\ <<Answering>>_vars => (Polling \/ Done)'
    BY <1>3
  <1>. QED
    BY <1>4, <1>5, <1>6, <1>7, <1>8, PTL
    DEF Going, Fairness, CallGoesOn, CallIsAnswered

\* Polling comes to its deadline or to an end; past the deadline the next look
\* is the last; and a delete returns.
LEMMA PollsEnd ==
    Going => /\ Polling ~> Late("poll") \/ Late("decide") \/ At("delete") \/ Done
             /\ Late("poll") ~> Late("decide") \/ Done
             /\ Late("decide") ~> At("delete") \/ Done
             /\ At("delete") ~> At("deleted") \/ Done
             /\ At("deleted") ~> Done
  <1>. USE DEF Polling, Late, At, Done
  <1>1. ASSUME NEW o, Return(o) PROVE Done'
    BY <1>1 DEF Return, Idle
  <1>2. Polling /\ Handling => (Polling \/ At("delete") \/ Done)'
    BY <1>1 DEF Handling, CallFails, Poll, Confirm, SaveFails, PollAgain, Delete,
       DeleteReturns
  <1>3. Late("poll") /\ Handling => Late("decide")'
    BY DEF Handling, CallFails, Poll, Confirm, SaveFails, PollAgain, Delete,
       DeleteReturns
  <1>4. Late("decide") /\ Handling => (At("delete") \/ Done)'
    BY <1>1 DEF Handling, CallFails, Poll, Confirm, SaveFails, PollAgain, Delete,
       DeleteReturns
  <1>5. At("delete") /\ Handling => (At("deleted") \/ Done)'
    BY <1>1 DEF Handling, CallFails, Poll, Confirm, SaveFails, PollAgain, Delete,
       DeleteReturns
  <1>6. At("deleted") /\ Handling => Done'
    BY <1>1 DEF Handling, CallFails, Poll, Confirm, SaveFails, PollAgain, Delete,
       DeleteReturns
  <1>7. IInv /\ Polling /\ [Next]_vars => (Polling \/ At("delete") \/ Done)'
    BY <1>2, OwnPace DEF DeadlinePasses
  <1>8. IInv /\ Late("poll") /\ [Next]_vars => (Late("poll") \/ Late("decide") \/ Done)'
    BY <1>3, OwnPace DEF DeadlinePasses
  <1>9. IInv /\ Late("decide") /\ [Next]_vars =>
          (Late("decide") \/ At("delete") \/ Done)'
    BY <1>4, OwnPace DEF DeadlinePasses
  <1>10. IInv /\ At("delete") /\ [Next]_vars => (At("delete") \/ At("deleted") \/ Done)'
    BY <1>5, OwnPace DEF DeadlinePasses
  <1>11. IInv /\ At("deleted") /\ [Next]_vars => (At("deleted") \/ Done)'
    BY <1>6, OwnPace DEF DeadlinePasses
  <1>12. ASSUME phase \notin {"trigger", "triggered"}, Proceeding PROVE Handling
    BY <1>12 DEF Proceeding, TakeCall
  <1>13. NeverStuck /\ (\/ Late("poll") \/ Late("decide")
                        \/ At("delete") \/ At("deleted")) => ENABLED <<Proceeding>>_vars
    BY DEF NeverStuck
  <1>14. NeverStuck /\ Polling /\ ~ late => ENABLED <<DeadlinePasses>>_vars
    BY DEF NeverStuck
  <1>15. Polling /\ <<DeadlinePasses>>_vars => (Late("poll") \/ Late("decide"))'
    BY DEF DeadlinePasses
  <1>16. Polling /\ late => Late("poll") \/ Late("decide")
    OBVIOUS
  <1>17. /\ Late("poll") /\ <<Proceeding>>_vars => Late("decide")'
         /\ Late("decide") /\ <<Proceeding>>_vars => (At("delete") \/ Done)'
         /\ At("delete") /\ <<Proceeding>>_vars => (At("deleted") \/ Done)'
         /\ At("deleted") /\ <<Proceeding>>_vars => Done'
    BY <1>3, <1>4, <1>5, <1>6, <1>12
  <1>18. Going => (Polling ~> Late("poll") \/ Late("decide") \/ At("delete") \/ Done)
    BY <1>7, <1>14, <1>15, <1>16, PTL DEF Going, Fairness
  <1>19. Going => /\ Late("poll") ~> Late("decide") \/ Done
                  /\ Late("decide") ~> At("delete") \/ Done
    BY <1>8, <1>9, <1>13, <1>17, PTL DEF Going, Fairness
  <1>20. Going => /\ At("delete") ~> At("deleted") \/ Done
                  /\ At("deleted") ~> Done
    BY <1>10, <1>11, <1>13, <1>17, PTL DEF Going, Fairness
  <1>. QED  BY <1>18, <1>19, <1>20

\* From any phase a handler comes to its end.
LEMMA SaveComesToItsEnd ==
    ASSUME MaxAttempts <= 3
    PROVE  Going => SaveEnds
  <1>1. Going => CallIsTaken(0) /\ CallGoesOn(0) /\ CallIsAnswered(0)
    BY CallsAreTaken, CallsAreAnswered
  <1>2. Going => CallIsTaken(1) /\ CallGoesOn(1) /\ CallIsAnswered(1)
    BY CallsAreTaken, CallsAreAnswered
  <1>3. Going => CallIsTaken(2) /\ CallGoesOn(2) /\ CallIsAnswered(2)
    BY CallsAreTaken, CallsAreAnswered
  <1>4. Going => (Polling \/ At("delete") \/ At("deleted") ~> Done)
    BY PollsEnd, PTL
  <1>5. (Again(0) => Out(1)) /\ (Again(1) => Out(2)) /\ ~ Again(2)
    BY DEF Again, Out
  <1>6. ASSUME IInv, phase \in {"trigger", "triggered"}
        PROVE  \E a \in 0..2 : Out(a) \/ Taken(a, FALSE) \/ Taken(a, TRUE)
    <2>1. attempt \in 0..2
      BY <1>6, BoundAssumption DEF IInv, TypeOK
    <2>2. \A l \in lookups : l.healed \in BOOLEAN
      BY <1>6 DEF IInv, TypeOK, Lookup
    <2>3. \E done \in BOOLEAN : \A l \in lookups : l.awaited => l.healed = done
      BY <1>6, <2>2 DEF IInv, OneAwaited
    <2>. QED  BY <1>6, <2>1, <2>3 DEF Out, Taken
  <1>7. 0..2 = {0, 1, 2}
    OBVIOUS
  <1>8. IInv =>
          \/ Done \/ Polling \/ At("delete") \/ At("deleted")
          \/ Out(0) \/ Taken(0, FALSE) \/ Taken(0, TRUE)
          \/ Out(1) \/ Taken(1, FALSE) \/ Taken(1, TRUE)
          \/ Out(2) \/ Taken(2, FALSE) \/ Taken(2, TRUE)
    BY <1>6, <1>7 DEF IInv, TypeOK, Done, Polling, At
  <1>9. (Done <=> phase = "idle") /\ (~ Done <=> phase # "idle")
    BY DEF Done
  <1>. QED
    BY <1>1, <1>2, <1>3, <1>4, <1>5, <1>8, <1>9, PTL
    DEF Going, CallIsTaken, CallGoesOn, CallIsAnswered, SaveEnds

\* Every save that was begun ends, for any commands, edits and faults, with at
\* most the three attempts of retry.py:17, and although the call is answered
\* only after Container Maker has called the agent. The second hypothesis is
\* the invariant NeverStuck.
THEOREM EverySaveEnds ==
    ASSUME MaxAttempts <= 3
    PROVE  FairSpec /\ []NeverStuck => SaveEnds
  <1>1. FairSpec /\ []NeverStuck => Going
    BY SaveInvariance, PTL DEF FairSpec, Spec, Going
  <1>. QED  BY <1>1, SaveComesToItsEnd
=============================================================================
