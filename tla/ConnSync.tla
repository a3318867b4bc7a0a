------------------------------ MODULE ConnSync ------------------------------
(***************************************************************************)
(* ConnectionSync (mtpcache/ConnectionSync.h, .cpp): one worker thread     *)
(* serves three queues of requests to the device, and WaitOnResult hands   *)
(* the answer back to the thread that waits for it.                        *)
(*                                                                         *)
(* A queue operation is one action: each runs under the queue's mutex, and *)
(* so does each section under _threadStopCondVarMutex.  _threadYield waits *)
(* on a mutex of its own, and the callback of WaitOnResult does not take   *)
(* the mutex its waiter holds; the control points "yGap" and "gap" are the *)
(* windows this leaves between the test of a flag and the sleep.           *)
(*                                                                         *)
(* What a request does to the device is left to module DeviceTree of the   *)
(* plan: here a served request succeeds or fails.                          *)
(***************************************************************************)
EXTENDS Naturals, Sequences, FiniteSets

CONSTANTS Clients,      \* threads that use the connection
          Worker,       \* the thread of ConnectionSyncThreadRoutine
          NoRequest,    \* no request in hand
          Menu,         \* bound: the <<kind, callback or not>> clients ask for
          MaxReqs,      \* bound: requests per client
          MaxTotal,     \* bound: requests of all clients together
          MaxDrives     \* bound: calls of mapNewDrive

ASSUME ClientsAssumption ==
  IsFiniteSet(Clients) /\ Worker \notin Clients
ASSUME RequestsAssumption == NoRequest \notin Clients \X (1 .. MaxReqs)
ASSUME BoundsAssumption ==
  MaxReqs \in Nat /\ MaxTotal \in Nat /\ MaxDrives \in Nat

Kinds == {"tree", "pull", "push"}
ASSUME MenuAssumption == Menu \subseteq Kinds \X BOOLEAN

Requests == Clients \X (1 .. MaxReqs)

VARIABLES queue,        \* _treeAccessRequests, _filePullRequests, _filePushRequests
          wakeFlag,     \* _threadStopCondVarUnlocked
          normalStop,   \* _threadNormalStop
          myDrives,     \* keys of _myDrives
          driveCount,   \* _myDrivesCounter
          wpc,          \* where the worker is
          cur,          \* the request it serves
          cpc,          \* where each client is
          creq,         \* the request each client enqueues or waits for
          sent,         \* requests each client has made
          dpc,          \* where the destructor is
          req,          \* kind, drive and callback (or NULL) of each request
          wait,         \* the WaitOnResult of each request
          outcome,      \* what serving each request resulted in
          overtaken,    \* ghost: requests of lower priority taken before it
          missed        \* ghost: threads notified in a window, until woken

workerVars == <<wpc, cur>>
clientVars == <<cpc, creq, sent>>
driveVars  == <<myDrives, driveCount>>
resultVars == <<outcome, overtaken>>
vars == <<queue, wakeFlag, normalStop, driveVars, workerVars, clientVars, dpc,
          req, wait, resultVars, missed>>

\* A WaitOnResult that does not exist, or not any more.
NoWait == [unlocked |-> FALSE, success |-> FALSE, alive |-> FALSE]
Made == {r \in Requests : r[2] <= sent[r[1]]}

Answer == {"none", "ok", "failed"}
WorkerControl == {"tree", "pull", "push", "stop", "yTest", "yGap", "ySleep",
                  "serve", "success", "unlock", "notify", "ended"}
ClientControl == {"idle", "flag", "wake", "test", "gap", "sleep"}
DestructorControl == {"no", "flag", "wake", "join", "gone"}

TypeOK ==
  /\ queue \in [Kinds -> Seq(Requests)]
  /\ wakeFlag \in BOOLEAN /\ normalStop \in BOOLEAN
  /\ driveCount \in 0 .. MaxDrives /\ myDrives \subseteq 0 .. MaxDrives
  /\ wpc \in WorkerControl /\ cur \in Requests \cup {NoRequest}
  /\ cur \in Requests <=> wpc \in {"serve", "success", "unlock", "notify"}
  /\ wpc \in {"success", "unlock", "notify"} => req[cur].cb
  /\ cpc \in [Clients -> ClientControl]
  /\ creq \in [Clients -> Requests \cup {NoRequest}]
  /\ sent \in [Clients -> 0 .. MaxReqs]
  /\ dpc \in DestructorControl
  /\ req \in [Requests -> [kind : Kinds, drive : 0 .. MaxDrives, cb : BOOLEAN]]
  /\ wait \in [Requests -> [unlocked : BOOLEAN, success : BOOLEAN,
                            alive : BOOLEAN]]
  /\ outcome \in [Requests -> Answer]
  /\ overtaken \in [Requests -> Nat]
  /\ missed \subseteq Clients \cup {Worker}

Init ==
  /\ queue = [k \in Kinds |-> <<>>]
  /\ wakeFlag = FALSE /\ normalStop = FALSE
  /\ myDrives = {} /\ driveCount = 0
  /\ wpc = "tree" /\ cur = NoRequest
  /\ cpc = [c \in Clients |-> "idle"]
  /\ creq = [c \in Clients |-> NoRequest]
  /\ sent = [c \in Clients |-> 0]
  /\ dpc = "no"
  /\ req = [r \in Requests |-> [kind |-> "tree", drive |-> 0, cb |-> FALSE]]
  /\ wait = [r \in Requests |-> NoWait]
  /\ outcome = [r \in Requests |-> "none"]
  /\ overtaken = [r \in Requests |-> 0]
  /\ missed = {}

Queued(k) == {queue[k][i] : i \in 1 .. Len(queue[k])}
Pending(r) == r \in Made /\ outcome[r] = "none"

-----------------------------------------------------------------------------
(* Main thread: the drives. *)

\* mapNewDrive, when the decider picks a drive; otherwise it changes nothing.
MapNewDrive ==
  /\ dpc = "no" /\ driveCount < MaxDrives
  /\ myDrives' = myDrives \cup {driveCount}
  /\ driveCount' = driveCount + 1
  /\ UNCHANGED <<queue, wakeFlag, normalStop, workerVars, clientVars, dpc, req,
                 wait, resultVars, missed>>

UnmapDrive(d) ==
  /\ dpc = "no" /\ d \in myDrives
  /\ myDrives' = myDrives \ {d}
  /\ UNCHANGED <<queue, wakeFlag, normalStop, driveCount, workerVars,
                 clientVars, dpc, req, wait, resultVars, missed>>

-----------------------------------------------------------------------------
(* Clients: the three enqueue operations, _threadWakeup, and wait. *)

\* The new request goes to the back of its queue.
Push(k, r) == queue' = [queue EXCEPT ![k] = Append(@, r)]

\* enqueueTreeAccessRequest, enqueueFilePullRequest, enqueueFilePushRequest: on a
\* drive once mapped, with a WaitOnResult or with NULL for a callback.
Enqueue(c, k, d, cb) ==
  LET r == <<c, sent[c] + 1>> IN
  /\ cpc[c] = "idle" /\ dpc = "no"
  /\ sent[c] < MaxReqs /\ Cardinality(Made) < MaxTotal
  /\ <<k, cb>> \in Menu /\ d < driveCount
  /\ Push(k, r)
  /\ sent' = [sent EXCEPT ![c] = @ + 1]
  /\ req' = [req EXCEPT ![r] = [kind |-> k, drive |-> d, cb |-> cb]]
  /\ wait' = [wait EXCEPT ![r].alive = cb]
  /\ cpc' = [cpc EXCEPT ![c] = "flag"]
  /\ UNCHANGED <<wakeFlag, normalStop, driveVars, workerVars, creq, dpc,
                 resultVars, missed>>

\* (The flag is not set.)
SetWakeFlag_Skipped == UNCHANGED wakeFlag
\* _threadWakeup sets the flag, and then calls notify_one on the worker.
SetWakeFlag == wakeFlag' = TRUE

\* (The notification is forgotten.)
NotifyWorker_None == UNCHANGED <<wpc, cur, missed>>

NotifyWorker ==
  /\ wpc' = IF wpc = "ySleep" THEN "yTest" ELSE wpc
  /\ missed' = CASE wpc = "yGap"   -> missed \cup {Worker}
                 [] wpc = "ySleep" -> missed \ {Worker}
                 [] OTHER          -> missed
  /\ UNCHANGED cur

Wakeup(c) ==
  /\ cpc[c] = "flag"
  /\ SetWakeFlag
  /\ cpc' = [cpc EXCEPT ![c] = "wake"]
  /\ UNCHANGED <<queue, normalStop, driveVars, workerVars, creq, sent, dpc,
                 req, wait, resultVars, missed>>

WakeupNotify(c) ==
  /\ cpc[c] = "wake"
  /\ NotifyWorker
  /\ cpc' = [cpc EXCEPT ![c] = "idle"]
  /\ UNCHANGED <<queue, wakeFlag, normalStop, driveVars, creq, sent, dpc, req,
                 wait, resultVars>>

\* WaitOnResult::wait: called at once by a doRequest, any time later by a client
\* that enqueued several requests.
Wait(c, r) ==
  /\ cpc[c] = "idle"
  /\ r[1] = c /\ wait[r].alive
  /\ creq' = [creq EXCEPT ![c] = r]
  /\ cpc' = [cpc EXCEPT ![c] = "test"]
  /\ UNCHANGED <<queue, wakeFlag, normalStop, driveVars, workerVars, sent, dpc,
                 req, wait, resultVars, missed>>

\* The loop of wait.  When it ends the caller returns, and the WaitOnResult, a
\* local of the caller, is gone.
WaitTest(c) ==
  LET r == creq[c] IN
  /\ cpc[c] = "test"
  /\ \/ /\ ~wait[r].unlocked
        /\ cpc' = [cpc EXCEPT ![c] = "gap"]
        /\ UNCHANGED <<creq, wait>>
     \/ /\ wait[r].unlocked
        /\ cpc' = [cpc EXCEPT ![c] = "idle"]
        /\ creq' = [creq EXCEPT ![c] = NoRequest]
        /\ wait' = [wait EXCEPT ![r] = NoWait]
  /\ UNCHANGED <<queue, wakeFlag, normalStop, driveVars, workerVars, sent, dpc,
                 req, resultVars, missed>>

WaitSleep(c) ==
  /\ cpc[c] = "gap"
  /\ cpc' = [cpc EXCEPT ![c] = "sleep"]
  /\ UNCHANGED <<queue, wakeFlag, normalStop, driveVars, workerVars, creq, sent,
                 dpc, req, wait, resultVars, missed>>

-----------------------------------------------------------------------------
(* The worker: ConnectionSyncThreadRoutine. *)

\* The order in which the routine asks its handlers.
After(k) == CASE k = "tree" -> "pull" [] k = "pull" -> "push" [] k = "push" -> "stop"
Higher(k) == CASE k = "tree" -> {} [] k = "pull" -> {"tree"}
               [] k = "push" -> {"tree", "pull"}

\* (The worker goes on to the next queue.)
Restart_Push == "push"
\* Where the loop goes on after a request is served.
Restart == "tree"

\* A handler finds its queue empty.
HandleNothing(k) ==
  /\ wpc = k /\ queue[k] = <<>>
  /\ wpc' = After(k)
  /\ UNCHANGED <<queue, wakeFlag, normalStop, driveVars, cur, clientVars,
                 dpc, req, wait, resultVars, missed>>

\* A handler takes the request at the front of its queue.
HandleTake(k) ==
  /\ wpc = k /\ queue[k] # <<>>
  /\ cur' = Head(queue[k])
  /\ queue' = [queue EXCEPT ![k] = Tail(@)]
  /\ wpc' = "serve"
  /\ overtaken' = [r \in Requests |->
                     IF \E h \in Higher(k) : r \in Queued(h)
                     THEN overtaken[r] + 1
                     ELSE IF r = Head(queue[k]) THEN 0 ELSE overtaken[r]]
  /\ UNCHANGED <<wakeFlag, normalStop, driveVars, clientVars, dpc, req,
                 wait, outcome, missed>>

\* (The callback is called without a look at whether there is one.)
Serve_NoNullCheck ==
  /\ wpc = "serve"
  /\ \E success \in IF req[cur].drive \in myDrives THEN BOOLEAN ELSE {FALSE} :
       outcome' = [outcome EXCEPT ![cur] = IF success THEN "ok" ELSE "failed"]
  /\ wpc' = "success"
  /\ UNCHANGED <<queue, wakeFlag, normalStop, driveVars, cur, clientVars, dpc,
                 req, wait, overtaken, missed>>

\* The rest of the handler: it fails if the drive is not mapped (any more), and
\* otherwise does what the device lets it do.
Serve ==
  /\ wpc = "serve"
  /\ \E success \in IF req[cur].drive \in myDrives THEN BOOLEAN ELSE {FALSE} :
       /\ outcome' = [outcome EXCEPT ![cur] = IF success THEN "ok" ELSE "failed"]
       /\ \/ req[cur].cb /\ wpc' = "success" /\ UNCHANGED cur
          \/ ~req[cur].cb /\ wpc' = Restart /\ cur' = NoRequest
  /\ UNCHANGED <<queue, wakeFlag, normalStop, driveVars, clientVars, dpc, req,
                 wait, overtaken, missed>>

\* WaitOnResult::callback: success, then unlocked, then notify_one.
CallbackSuccess ==
  /\ wpc = "success"
  /\ wait' = [wait EXCEPT ![cur].success = (outcome[cur] = "ok")]
  /\ wpc' = "unlock"
  /\ UNCHANGED <<queue, wakeFlag, normalStop, driveVars, cur, clientVars,
                 dpc, req, resultVars, missed>>

CallbackUnlock ==
  /\ wpc = "unlock"
  /\ wait' = [wait EXCEPT ![cur].unlocked = TRUE]
  /\ wpc' = "notify"
  /\ UNCHANGED <<queue, wakeFlag, normalStop, driveVars, cur, clientVars,
                 dpc, req, resultVars, missed>>

\* The clients that sleep on r, and those about to.
Sleeping(r) == {c \in Clients : cpc[c] = "sleep" /\ creq[c] = r}
Drowsing(r) == {c \in Clients : cpc[c] = "gap" /\ creq[c] = r}

\* (The notification is forgotten.)
WakeClients_None(r) == UNCHANGED <<cpc, missed>>
WakeClients(r) ==
  /\ cpc' = [c \in Clients |-> IF c \in Sleeping(r) THEN "test" ELSE cpc[c]]
  /\ missed' = (missed \cup Drowsing(r)) \ Sleeping(r)

CallbackNotify ==
  /\ wpc = "notify"
  /\ WakeClients(cur)
  /\ wpc' = Restart /\ cur' = NoRequest
  /\ UNCHANGED <<queue, wakeFlag, normalStop, driveVars, creq, sent, dpc, req,
                 wait, resultVars>>

StopCheck ==
  /\ wpc = "stop"
  /\ wpc' = IF normalStop THEN "ended" ELSE "yTest"
  /\ UNCHANGED <<queue, wakeFlag, normalStop, driveVars, cur, clientVars,
                 dpc, req, wait, resultVars, missed>>

\* _threadYield: the test under _threadStopCondVarMutex ...
YieldTest ==
  /\ wpc = "yTest"
  /\ \/ wakeFlag /\ wpc' = "tree" /\ wakeFlag' = FALSE
     \/ ~wakeFlag /\ wpc' = "yGap" /\ UNCHANGED wakeFlag
  /\ UNCHANGED <<queue, normalStop, driveVars, cur, clientVars, dpc, req,
                 wait, resultVars, missed>>

\* ... and the sleep, after that mutex is released.
YieldSleep ==
  /\ wpc = "yGap"
  /\ wpc' = "ySleep"
  /\ UNCHANGED <<queue, wakeFlag, normalStop, driveVars, cur, clientVars,
                 dpc, req, wait, resultVars, missed>>

-----------------------------------------------------------------------------
(* The destructor.  Its caller has joined or stopped the threads that wait for *)
(* an answer: ~ActiveConnection unmaps the drives and deletes the cache first. *)

DestroyBegin ==
  /\ dpc = "no"
  /\ \A c \in Clients : cpc[c] = "idle"
  /\ \A r \in Requests : ~wait[r].alive
  /\ normalStop' = TRUE
  /\ dpc' = "flag"
  /\ UNCHANGED <<queue, wakeFlag, driveVars, workerVars, clientVars, req, wait,
                 resultVars, missed>>

DestroyWakeup ==
  /\ dpc = "flag"
  /\ SetWakeFlag
  /\ dpc' = "wake"
  /\ UNCHANGED <<queue, normalStop, driveVars, workerVars, clientVars, req,
                 wait, resultVars, missed>>

DestroyNotify ==
  /\ dpc = "wake"
  /\ NotifyWorker
  /\ dpc' = "join"
  /\ UNCHANGED <<queue, wakeFlag, normalStop, driveVars, clientVars, req, wait,
                 resultVars>>

DestroyJoin ==
  /\ dpc = "join" /\ wpc = "ended"
  /\ dpc' = "gone"
  /\ UNCHANGED <<queue, wakeFlag, normalStop, driveVars, workerVars, clientVars,
                 req, wait, resultVars, missed>>

-----------------------------------------------------------------------------
\* std::condition_variable::wait may return without a notification.
SpuriousWorker ==
  /\ wpc = "ySleep"
  /\ wpc' = "yTest"
  /\ missed' = missed \ {Worker}
  /\ UNCHANGED <<queue, wakeFlag, normalStop, driveVars, cur, clientVars,
                 dpc, req, wait, resultVars>>

\* (If instead of while: the woken caller does not test again.)
SpuriousClient_Returns(c) ==
  /\ cpc[c] = "sleep"
  /\ cpc' = [cpc EXCEPT ![c] = "idle"]
  /\ creq' = [creq EXCEPT ![c] = NoRequest]
  /\ wait' = [wait EXCEPT ![creq[c]] = NoWait]
  /\ missed' = missed \ {c}
  /\ UNCHANGED <<queue, wakeFlag, normalStop, driveVars, workerVars, sent, dpc,
                 req, resultVars>>

SpuriousClient(c) ==
  /\ cpc[c] = "sleep"
  /\ cpc' = [cpc EXCEPT ![c] = "test"]
  /\ missed' = missed \ {c}
  /\ UNCHANGED <<queue, wakeFlag, normalStop, driveVars, workerVars, creq, sent,
                 dpc, req, wait, resultVars>>

Call(c) ==
  \/ \E k \in Kinds, d \in 0 .. MaxDrives, cb \in BOOLEAN : Enqueue(c, k, d, cb)
  \/ \E r \in Requests : Wait(c, r)

ClientStep(c) == \/ Wakeup(c) \/ WakeupNotify(c) \/ WaitTest(c) \/ WaitSleep(c)

WorkerStep ==
  \/ \E k \in Kinds : HandleNothing(k) \/ HandleTake(k)
  \/ Serve \/ CallbackSuccess \/ CallbackUnlock \/ CallbackNotify
  \/ StopCheck \/ YieldTest \/ YieldSleep

DestructorStep == DestroyWakeup \/ DestroyNotify \/ DestroyJoin

Next ==
  \/ MapNewDrive \/ \E d \in 0 .. MaxDrives : UnmapDrive(d)
  \/ \E c \in Clients : Call(c) \/ ClientStep(c) \/ SpuriousClient(c)
  \/ WorkerStep \/ SpuriousWorker
  \/ DestroyBegin \/ DestructorStep

Spec == Init /\ [][Next]_vars

\* The threads are scheduled; nobody has to make a request or a call, and nothing
\* makes a spurious wake-up happen.
Fairness ==
  /\ WF_vars(WorkerStep)
  /\ \A c \in Clients : WF_vars(ClientStep(c))
  /\ WF_vars(DestructorStep)
FairSpec == Spec /\ Fairness

-----------------------------------------------------------------------------
\* wait() returns the answer the worker gave to that very request: the two plain
\* stores of the callback are seen in an order that keeps answer and flag together.
ReturnsOwnAnswer ==
  [][\A r \in Requests : wait[r].alive /\ ~wait'[r].alive
                         => outcome[r] # "none"
                            /\ wait[r].success = (outcome[r] = "ok")]_vars

\* The queues are asked one after the other, not together, so a request can be
\* overtaken by one of lower priority; it is never overtaken twice.
OvertakenOnce == \A r \in Requests : overtaken[r] <= 1

\* While the worker sleeps over a request or a stop, its wake-up is still to come,
\* or it was sent in the window between the test of the flag and the sleep.
WorkerIsOwed ==
  /\ wpc \in {"yGap", "ySleep"}
  /\ normalStop \/ \E k \in Kinds : queue[k] # <<>>
  => \/ Worker \in missed
     \/ dpc \in {"flag", "wake"}
     \/ \E c \in Clients : cpc[c] \in {"flag", "wake"}

\* The same for a client that sleeps over an answer.
ClientIsOwed ==
  \A c \in Clients :
    /\ cpc[c] \in {"gap", "sleep"}
    /\ wait[creq[c]].unlocked
    => c \in missed \/ (wpc = "notify" /\ cur = creq[c])

\* As long as no notification is lost in a window, each request with a callback is
\* served, each wait() returns, and the destructor's join does.
AnsweredUnlessMissed ==
  [](missed = {}) =>
    /\ \A r \in Requests : Pending(r) /\ req[r].cb ~> outcome[r] # "none"
    /\ \A c \in Clients : cpc[c] # "idle" ~> cpc[c] = "idle"
    /\ dpc # "no" ~> dpc = "gone"

\* ConnectionSync.h:53: the callback must not be deleted while its request is under
\* way.  The worker only ever touches a WaitOnResult that is still there.
CallbackIsAlive == wpc \in {"success", "unlock", "notify"} => wait[cur].alive
=============================================================================
