--------------------------- MODULE ConnSyncProofs ---------------------------
(***************************************************************************)
(* Safety of ConnectionSync for every finite set of clients and any bound  *)
(* on their requests: every wait returns the answer to its own request,    *)
(* only the windows between a test and a sleep make a thread sleep past    *)
(* its wake-up, and no request is overtaken twice.                         *)
(***************************************************************************)
EXTENDS ConnSync, QueueTheorems

\* A request waits in the queue of its kind, once, from when it is made until the
\* worker has it in hand.
QueuesInOrder ==
  /\ \A k \in Kinds : Once(queue[k])
  /\ \A k \in Kinds : \A r \in Queued(k) :
       r \in Made /\ req[r].kind = k /\ outcome[r] = "none" /\ r # cur
  /\ cur \in Requests => cur \in Made

\* Nothing has happened to a request that has not been made.
UnmadeUntouched ==
  \A r \in Requests \ Made :
    outcome[r] = "none" /\ wait[r] = NoWait /\ overtaken[r] = 0

\* The worker's callback goes from the outcome to success to unlocked: whoever finds
\* the flag finds the answer.
AnswerBeforeFlag ==
  /\ \A r \in Requests :
       wait[r].unlocked => outcome[r] # "none" /\ wait[r].success = (outcome[r] = "ok")
  /\ wpc = "serve" => outcome[cur] = "none"
  /\ wpc \in {"success", "unlock"} => outcome[cur] # "none" /\ ~wait[cur].unlocked
  /\ wpc = "unlock" => wait[cur].success = (outcome[cur] = "ok")

\* Who waits, waits for a request.
WaitsForRequest ==
  \A c \in Clients : cpc[c] \in {"test", "gap", "sleep"} => creq[c] \in Requests

\* The queues the worker has found empty since it began with the first one.
Asked == CASE wpc = "tree" -> {} [] wpc = "pull" -> {"tree"}
           [] wpc = "push" -> {"tree", "pull"}
           [] wpc \in {"stop", "yTest", "yGap", "ySleep"} -> Kinds
           [] OTHER -> {}
Flagging == dpc = "flag" \/ \E c \in Clients : cpc[c] = "flag"
Waking   == dpc = "wake" \/ \E c \in Clients : cpc[c] = "wake"

\* What came behind the worker's back is flagged, or is about to be; and while it
\* goes to sleep over the flag it has been notified, or is about to be.
BehindItsBack ==
  /\ (\E k \in Asked : queue[k] # <<>>) \/ (normalStop /\ wpc \in {"yTest", "yGap", "ySleep"})
       => wakeFlag \/ Flagging
  /\ wpc \in {"yGap", "ySleep"} /\ wakeFlag => Worker \in missed \/ Waking

\* A request that came behind the worker's back has not been overtaken yet.
LateNotOvertaken == \A k \in Asked : \A r \in Queued(k) : overtaken[r] = 0

Inv ==
  /\ TypeOK
  /\ QueuesInOrder
  /\ UnmadeUntouched
  /\ AnswerBeforeFlag
  /\ WaitsForRequest
  /\ BehindItsBack
  /\ LateNotOvertaken
  /\ OvertakenOnce
  /\ ClientIsOwed

-----------------------------------------------------------------------------
\* An enqueue operation adds its request to one queue, and to no other.
LEMMA PushAdds ==
  ASSUME queue \in [Kinds -> Seq(Requests)], NEW k \in Kinds, NEW r \in Requests,
         Push(k, r)
  PROVE  /\ queue' \in [Kinds -> Seq(Requests)]
         /\ Queued(k)' = Queued(k) \cup {r} /\ queue'[k] # <<>>
         /\ Once(queue[k]) /\ r \notin Queued(k) => Once(queue'[k])
         /\ \A h \in Kinds \ {k} : queue'[h] = queue[h]
<1>1. /\ queue[k] \in Seq(Requests) /\ queue'[k] = Append(queue[k], r)
      /\ queue' = [queue EXCEPT ![k] = Append(queue[k], r)]
  BY DEF Push
<1>2. /\ Append(queue[k], r) \in Seq(Requests)
      /\ Append(queue[k], r) # <<>>
      /\ Waiting(Append(queue[k], r)) = Waiting(queue[k]) \cup {r}
      /\ Once(queue[k]) /\ r \notin Waiting(queue[k]) => Once(Append(queue[k], r))
  BY <1>1, AppendWaiting
<1>3. Waiting(queue[k]) = Queued(k) /\ Waiting(queue'[k]) = Queued(k)'
  BY DEF Waiting, Queued
<1>4. QED
  BY <1>1, <1>2, <1>3

\* A handler takes one request off one queue.
LEMMA TakeRemoves ==
  ASSUME queue \in [Kinds -> Seq(Requests)], NEW k \in Kinds, HandleTake(k)
  PROVE  /\ queue' \in [Kinds -> Seq(Requests)]
         /\ cur' \in Requests /\ cur' = Head(queue[k]) /\ cur' \in Queued(k)
         /\ Queued(k)' \subseteq Queued(k)
         /\ Once(queue[k]) => Once(queue'[k]) /\ cur' \notin Queued(k)'
         /\ \A h \in Kinds \ {k} : queue'[h] = queue[h]
<1>1. /\ queue[k] \in Seq(Requests) /\ queue[k] # <<>>
      /\ queue'[k] = Tail(queue[k]) /\ cur' = Head(queue[k])
      /\ queue' = [queue EXCEPT ![k] = Tail(queue[k])]
  BY DEF HandleTake
<1>2. /\ Head(queue[k]) \in Waiting(queue[k]) /\ Head(queue[k]) \in Requests
      /\ Tail(queue[k]) \in Seq(Requests)
      /\ Waiting(queue[k]) = Waiting(Tail(queue[k])) \cup {Head(queue[k])}
      /\ Once(queue[k]) => Once(Tail(queue[k])) /\ Head(queue[k]) \notin Waiting(Tail(queue[k]))
  BY <1>1, TailWaiting
<1>3. Waiting(queue[k]) = Queued(k) /\ Waiting(queue'[k]) = Queued(k)'
  BY DEF Waiting, Queued
<1>4. QED
  BY <1>1, <1>2, <1>3

\* The request a client makes is a new one.
LEMMA EnqueueNew ==
  ASSUME TypeOK, NEW c \in Clients, NEW k \in Kinds, NEW d \in 0 .. MaxDrives,
         NEW cb \in BOOLEAN, Enqueue(c, k, d, cb)
  PROVE  /\ <<c, sent[c] + 1>> \in Requests \ Made
         /\ sent' \in [Clients -> 0 .. MaxReqs]
         /\ Made' = Made \cup {<<c, sent[c] + 1>>}
<1>1. sent[c] \in 0 .. MaxReqs /\ sent[c] < MaxReqs /\ MaxReqs \in Nat
  BY BoundsAssumption DEF TypeOK, Enqueue
<1>2. sent[c] + 1 \in 1 .. MaxReqs
  BY <1>1
<1>3. sent' = [sent EXCEPT ![c] = sent[c] + 1]
  BY DEF Enqueue
<1>4. sent' \in [Clients -> 0 .. MaxReqs]
  BY <1>1, <1>2, <1>3 DEF TypeOK
<1>5. <<c, sent[c] + 1>> \in Requests \ Made
  BY <1>1, <1>2 DEF Requests, Made
<1>6. ASSUME NEW r \in Requests
      PROVE  r \in Made' <=> r \in Made \/ r = <<c, sent[c] + 1>>
  <2>1. PICK b \in Clients, n \in 1 .. MaxReqs : r = <<b, n>>
    BY <1>6 DEF Requests
  <2>2. CASE b = c
    BY <1>1, <1>3, <2>1, <2>2, BoundsAssumption DEF Made, TypeOK
  <2>3. CASE b # c
    BY <1>1, <1>3, <2>1, <2>3, BoundsAssumption DEF Made, TypeOK
  <2>4. QED
    BY <2>2, <2>3
<1>7. QED
  BY <1>4, <1>5, <1>6 DEF Made

-----------------------------------------------------------------------------
(* Types. *)

LEMMA TypeInit == Init => TypeOK
<1> SUFFICES ASSUME Init PROVE TypeOK
  OBVIOUS
<1>1. queue \in [Kinds -> Seq(Requests)]
  BY EmptyWaiting DEF Init
<1>2. cur \notin Requests
  BY RequestsAssumption DEF Init, Requests
<1>3. /\ req \in [Requests -> [kind : Kinds, drive : 0 .. MaxDrives, cb : BOOLEAN]]
      /\ wait \in [Requests -> [unlocked : BOOLEAN, success : BOOLEAN, alive : BOOLEAN]]
  BY BoundsAssumption DEF Init, NoWait, Kinds
<1>4. /\ sent \in [Clients -> 0 .. MaxReqs] /\ overtaken \in [Requests -> Nat]
      /\ driveCount \in 0 .. MaxDrives /\ myDrives \subseteq 0 .. MaxDrives
  BY BoundsAssumption DEF Init
<1>5. QED
  BY <1>1, <1>2, <1>3, <1>4
  DEF Init, TypeOK, WorkerControl, ClientControl, DestructorControl, Answer

\* A notification moves the worker only out of its sleep.
LEMMA NotifyWorkerMoves ==
  ASSUME TypeOK, NotifyWorker
  PROVE  /\ wpc' = IF wpc = "ySleep" THEN "yTest" ELSE wpc
         /\ wpc' \in WorkerControl /\ cur' = cur
         /\ missed' \subseteq Clients \cup {Worker}
         /\ wpc = "yGap" => Worker \in missed'
         /\ \A c \in Clients : c \in missed' <=> c \in missed
BY ClientsAssumption DEF TypeOK, NotifyWorker, WorkerControl

LEMMA TypeStep == TypeOK /\ QueuesInOrder /\ [Next]_vars => TypeOK'
<1> SUFFICES ASSUME TypeOK, QueuesInOrder, [Next]_vars PROVE TypeOK'
  OBVIOUS
<1> USE DEF TypeOK, driveVars, workerVars, clientVars, resultVars
<1>0. NoRequest \notin Requests
  BY RequestsAssumption DEF Requests
<1>1. ASSUME NEW c \in Clients, NEW k \in Kinds, NEW d \in 0 .. MaxDrives,
             NEW cb \in BOOLEAN, Enqueue(c, k, d, cb)
      PROVE  TypeOK'
  <2> DEFINE r == <<c, sent[c] + 1>>
  <2>1. r \in Requests \ Made /\ sent' \in [Clients -> 0 .. MaxReqs]
    BY <1>1, EnqueueNew
  <2> HIDE DEF r
  <2>2. /\ Push(k, r)
        /\ req' = [req EXCEPT ![r] = [kind |-> k, drive |-> d, cb |-> cb]]
        /\ wait' = [wait EXCEPT ![r].alive = cb]
        /\ cpc' = [cpc EXCEPT ![c] = "flag"]
        /\ UNCHANGED <<wakeFlag, normalStop, driveVars, workerVars, creq, dpc,
                       resultVars, missed>>
    BY <1>1 DEF Enqueue, r
  <2>3. queue' \in [Kinds -> Seq(Requests)]
    BY <2>1, <2>2, PushAdds
  <2>4. /\ req' \in [Requests -> [kind : Kinds, drive : 0 .. MaxDrives, cb : BOOLEAN]]
        /\ wait' \in [Requests -> [unlocked : BOOLEAN, success : BOOLEAN, alive : BOOLEAN]]
        /\ cpc' \in [Clients -> ClientControl]
    BY <2>1, <2>2, ZenonT(60) DEF ClientControl
  <2>5. wpc' \in {"success", "unlock", "notify"} => req'[cur'].cb
    <3>1. wpc \in {"success", "unlock", "notify"} => cur \in Requests /\ cur # r
      BY <2>1 DEF QueuesInOrder
    <3>2. QED
      BY <2>1, <2>2, <3>1
  <2>6. QED
    BY <2>1, <2>2, <2>3, <2>4, <2>5
<1>2. ASSUME NEW c \in Clients, NEW r \in Requests, Wait(c, r) PROVE TypeOK'
  BY <1>2 DEF Wait, ClientControl
<1>3. ASSUME NEW c \in Clients, Wakeup(c) PROVE TypeOK'
  BY <1>3 DEF Wakeup, SetWakeFlag, ClientControl
<1>4. ASSUME NEW c \in Clients, WakeupNotify(c) PROVE TypeOK'
  BY <1>4, NotifyWorkerMoves DEF WakeupNotify, ClientControl
<1>5. ASSUME NEW c \in Clients, WaitTest(c) PROVE TypeOK'
  <2>1. NoWait \in [unlocked : BOOLEAN, success : BOOLEAN, alive : BOOLEAN]
    BY DEF NoWait
  <2>2. wait' = wait \/ wait' = [wait EXCEPT ![creq[c]] = NoWait]
    BY <1>5 DEF WaitTest
  <2>3. wait' \in [Requests -> [unlocked : BOOLEAN, success : BOOLEAN, alive : BOOLEAN]]
    BY <2>1, <2>2
  <2>4. /\ cpc' \in [Clients -> ClientControl]
        /\ creq' \in [Clients -> Requests \cup {NoRequest}]
    BY <1>5 DEF WaitTest, ClientControl
  <2>5. QED
    BY <1>5, <2>3, <2>4 DEF WaitTest
<1>6. ASSUME NEW c \in Clients, WaitSleep(c) \/ SpuriousClient(c) PROVE TypeOK'
  BY <1>6 DEF WaitSleep, SpuriousClient, ClientControl
<1>7. ASSUME NEW k \in Kinds, HandleNothing(k) PROVE TypeOK'
  BY <1>7 DEF HandleNothing, After, WorkerControl, Kinds
<1>8. ASSUME NEW k \in Kinds, HandleTake(k) PROVE TypeOK'
  BY <1>8, TakeRemoves, SMTT(30) DEF HandleTake, WorkerControl
<1>9. CASE Serve
  BY <1>0, <1>9 DEF Serve, WorkerControl, Restart, Answer
<1>10. CASE CallbackSuccess
  <2>1. /\ wpc = "success" /\ wpc' = "unlock" /\ cur \in Requests
        /\ UNCHANGED <<queue, wakeFlag, normalStop, driveVars, cur, clientVars,
                       dpc, req, resultVars, missed>>
    BY <1>10 DEF CallbackSuccess
  <2>2. wait' \in [Requests -> [unlocked : BOOLEAN, success : BOOLEAN, alive : BOOLEAN]]
    <3> DEFINE ok == outcome[cur] = "ok"
    <3>1. wait' = [wait EXCEPT ![cur].success = ok] /\ ok \in BOOLEAN
      BY <1>10 DEF CallbackSuccess
    <3> HIDE DEF ok
    <3>2. QED
      BY <2>1, <3>1
  <2>3. (wpc \in {"success", "unlock", "notify"} => req[cur].cb)'
    BY <2>1
  <2>4. (cur \in Requests <=> wpc \in {"serve", "success", "unlock", "notify"})'
    BY <2>1
  <2>5. UNCHANGED <<queue, wakeFlag, normalStop, myDrives, driveCount, cur, cpc, creq,
                    sent, dpc, req, outcome, overtaken, missed>>
    BY <2>1
  <2>6. QED
    BY <2>1, <2>2, <2>3, <2>4, <2>5 DEF WorkerControl
<1>11. CASE CallbackUnlock
  BY <1>11 DEF CallbackUnlock, WorkerControl
<1>12. CASE CallbackNotify
  BY <1>0, <1>12 DEF CallbackNotify, WakeClients, WorkerControl, ClientControl,
       Restart, Drowsing
<1>13. CASE StopCheck \/ YieldTest \/ YieldSleep \/ SpuriousWorker
  BY <1>13 DEF StopCheck, YieldTest, YieldSleep, SpuriousWorker, WorkerControl
<1>14. CASE DestroyBegin \/ DestructorStep
  <2>1. CASE DestroyNotify
    BY <2>1, NotifyWorkerMoves DEF DestroyNotify, DestructorControl
  <2>2. CASE DestroyBegin \/ DestroyWakeup \/ DestroyJoin
    BY <2>2 DEF DestroyBegin, DestroyWakeup, DestroyJoin, SetWakeFlag, DestructorControl
  <2>3. QED
    BY <1>14, <2>1, <2>2 DEF DestructorStep
<1>15. CASE MapNewDrive
  BY <1>15, BoundsAssumption DEF MapNewDrive
<1>16. ASSUME NEW d \in 0 .. MaxDrives, UnmapDrive(d) PROVE TypeOK'
  BY <1>16 DEF UnmapDrive
<1>17. CASE UNCHANGED vars
  BY <1>17 DEF vars
<1> HIDE DEF TypeOK
<1>18. QED
  BY <1>1, <1>2, <1>3, <1>4, <1>5, <1>6, <1>7, <1>8, <1>9, <1>10, <1>11, <1>12,
     <1>13, <1>14, <1>15, <1>16, <1>17
  DEF Next, Call, ClientStep, WorkerStep


-----------------------------------------------------------------------------
(* The queues and the answers. *)

Serving == {"serve", "success", "unlock", "notify"}

\* Seven steps deal with requests and their answers; the others touch neither, and
\* move the worker only where it serves nothing.
LEMMA RequestSteps ==
  ASSUME TypeOK, [Next]_vars
  PROVE  \/ \E c \in Clients, k \in Kinds, d \in 0 .. MaxDrives, cb \in BOOLEAN :
              Enqueue(c, k, d, cb)
         \/ \E c \in Clients : WaitTest(c)
         \/ \E k \in Kinds : HandleTake(k)
         \/ Serve \/ CallbackSuccess \/ CallbackUnlock \/ CallbackNotify
         \/ /\ UNCHANGED <<queue, sent, req, wait, outcome, overtaken, cur>>
            /\ wpc' = wpc \/ (wpc \notin Serving /\ wpc' \notin Serving)
<1> USE DEF driveVars, workerVars, clientVars, resultVars, Serving
<1> DEFINE Elsewhere ==
             /\ UNCHANGED <<queue, sent, req, wait, outcome, overtaken, cur>>
             /\ wpc' = wpc \/ (wpc \notin Serving /\ wpc' \notin Serving)
<1>1. ASSUME NEW c \in Clients, Call(c) \/ ClientStep(c) \/ SpuriousClient(c)
      PROVE  \/ \E k \in Kinds, d \in 0 .. MaxDrives, cb \in BOOLEAN : Enqueue(c, k, d, cb)
             \/ WaitTest(c)
             \/ Elsewhere
  <2>1. CASE WakeupNotify(c)
    BY <2>1, NotifyWorkerMoves DEF WakeupNotify
  <2>2. CASE Call(c) \/ Wakeup(c) \/ WaitTest(c) \/ WaitSleep(c) \/ SpuriousClient(c)
    BY <2>2 DEF Call, SpuriousClient, Wait, Wakeup, WaitSleep
  <2>3. QED
    BY <1>1, <2>1, <2>2 DEF ClientStep
<1>2. ASSUME WorkerStep \/ SpuriousWorker
      PROVE  \/ \E k \in Kinds : HandleTake(k)
             \/ Serve \/ CallbackSuccess \/ CallbackUnlock \/ CallbackNotify
             \/ Elsewhere
  <2>1. ASSUME NEW k \in Kinds, HandleNothing(k) PROVE Elsewhere
    BY <2>1 DEF HandleNothing, After, Kinds
  <2>2. CASE StopCheck \/ YieldTest \/ YieldSleep \/ SpuriousWorker
    BY <2>2 DEF StopCheck, YieldTest, YieldSleep, SpuriousWorker
  <2> HIDE DEF Elsewhere
  <2>3. QED
    BY <1>2, <2>1, <2>2 DEF WorkerStep
<1>3. ASSUME DestroyBegin \/ DestructorStep PROVE Elsewhere
  <2>1. CASE DestroyNotify
    BY <2>1, NotifyWorkerMoves DEF DestroyNotify
  <2>2. CASE DestroyBegin \/ DestroyWakeup \/ DestroyJoin
    BY <2>2 DEF DestroyBegin, DestroyWakeup, DestroyJoin
  <2>3. QED
    BY <1>3, <2>1, <2>2 DEF DestructorStep
<1>4. ASSUME MapNewDrive \/ (\E d \in 0 .. MaxDrives : UnmapDrive(d)) \/ UNCHANGED vars
      PROVE  Elsewhere
  BY <1>4 DEF MapNewDrive, UnmapDrive, vars
<1> HIDE DEF Elsewhere
<1>5. QED
  BY <1>1, <1>2, <1>3, <1>4 DEF Next, Elsewhere

\* Only four of them touch the queues, the requests or what became of them.
LEMMA QueueSteps ==
  ASSUME TypeOK, [Next]_vars
  PROVE  \/ \E c \in Clients, k \in Kinds, d \in 0 .. MaxDrives, cb \in BOOLEAN :
              Enqueue(c, k, d, cb)
         \/ \E k \in Kinds : HandleTake(k)
         \/ Serve \/ CallbackNotify
         \/ UNCHANGED <<queue, sent, req, outcome, overtaken, cur>>
<1>1. ASSUME CallbackSuccess \/ CallbackUnlock \/ \E c \in Clients : WaitTest(c)
      PROVE  UNCHANGED <<queue, sent, req, outcome, overtaken, cur>>
  BY <1>1 DEF CallbackSuccess, CallbackUnlock, WaitTest, clientVars, resultVars,
       workerVars
<1>2. QED
  BY <1>1, RequestSteps

\* Only four touch a WaitOnResult.
LEMMA WaitSteps ==
  ASSUME TypeOK, [Next]_vars
  PROVE  \/ \E c \in Clients, k \in Kinds, d \in 0 .. MaxDrives, cb \in BOOLEAN :
              Enqueue(c, k, d, cb)
         \/ \E c \in Clients : WaitTest(c)
         \/ CallbackSuccess \/ CallbackUnlock
         \/ wait' = wait
<1>1. ASSUME Serve \/ CallbackNotify \/ \E k \in Kinds : HandleTake(k)
      PROVE  wait' = wait
  BY <1>1 DEF Serve, CallbackNotify, HandleTake
<1>2. QED
  BY <1>1, RequestSteps

\* No two requests that wait in different queues are the same.
LEMMA QueuesApart ==
  ASSUME QueuesInOrder, NEW k \in Kinds, NEW h \in Kinds, NEW r \in Queued(k),
         r \in Queued(h)
  PROVE  k = h
BY DEF QueuesInOrder

LEMMA QueuesStep ==
  TypeOK /\ QueuesInOrder /\ AnswerBeforeFlag /\ UnmadeUntouched /\ [Next]_vars
  => QueuesInOrder'
<1> SUFFICES ASSUME TypeOK, QueuesInOrder, AnswerBeforeFlag, UnmadeUntouched, [Next]_vars
             PROVE  QueuesInOrder'
  OBVIOUS
<1> USE DEF driveVars, workerVars, clientVars, resultVars
<1>0. NoRequest \notin Requests /\ queue \in [Kinds -> Seq(Requests)]
  BY RequestsAssumption DEF Requests, TypeOK
<1>1. ASSUME NEW c \in Clients, NEW k \in Kinds, NEW d \in 0 .. MaxDrives,
             NEW cb \in BOOLEAN, Enqueue(c, k, d, cb)
      PROVE  QueuesInOrder'
  <2> DEFINE r == <<c, sent[c] + 1>>
  <2>1. r \in Requests \ Made /\ Made' = Made \cup {r}
    BY <1>1, EnqueueNew
  <2> HIDE DEF r
  <2>2. /\ Push(k, r)
        /\ req' = [req EXCEPT ![r] = [kind |-> k, drive |-> d, cb |-> cb]]
        /\ outcome' = outcome /\ cur' = cur
    BY <1>1 DEF Enqueue, r
  <2>3. r \notin Queued(k) /\ r # cur /\ outcome[r] = "none"
    BY <2>1 DEF QueuesInOrder, UnmadeUntouched
  <2>4. /\ Queued(k)' = Queued(k) \cup {r} /\ Once(queue'[k])
        /\ \A h \in Kinds \ {k} : queue'[h] = queue[h]
    BY <1>0, <2>1, <2>2, <2>3, PushAdds DEF QueuesInOrder
  <2>5. \A h \in Kinds : Once(queue'[h])
    BY <2>4 DEF QueuesInOrder
  <2>6. /\ req'[r].kind = k
        /\ \A q \in Requests \ {r} : req'[q] = req[q]
    BY <2>1, <2>2 DEF TypeOK
  <2>7. ASSUME NEW h \in Kinds, NEW q \in Queued(h)'
        PROVE  q \in Made' /\ req'[q].kind = h /\ outcome'[q] = "none" /\ q # cur'
    <3>1. CASE q \in Queued(h)
      <4>1. q \in Made /\ req[q].kind = h /\ outcome[q] = "none" /\ q # cur
        BY <3>1 DEF QueuesInOrder
      <4>2. QED
        BY <2>1, <2>2, <2>6, <4>1 DEF Made
    <3>2. CASE h = k /\ q = r
      BY <2>1, <2>2, <2>3, <2>6, <3>2
    <3>3. QED
      BY <2>4, <2>7, <3>1, <3>2 DEF Queued
  <2>8. cur' \in Requests => cur' \in Made'
    BY <2>1, <2>2 DEF QueuesInOrder
  <2>9. QED
    BY <2>5, <2>7, <2>8 DEF QueuesInOrder
<1>2. ASSUME NEW k \in Kinds, HandleTake(k) PROVE QueuesInOrder'
  <2>1. /\ cur' \in Queued(k) /\ Queued(k)' \subseteq Queued(k)
        /\ Once(queue'[k]) /\ cur' \notin Queued(k)'
        /\ \A h \in Kinds \ {k} : queue'[h] = queue[h]
    BY <1>0, <1>2, TakeRemoves DEF QueuesInOrder
  <2>2. sent' = sent /\ req' = req /\ outcome' = outcome /\ Made' = Made
    BY <1>2 DEF HandleTake, Made
  <2>3. \A h \in Kinds : Once(queue'[h]) /\ Queued(h)' \subseteq Queued(h)
    <3>1. \A h \in Kinds \ {k} : Queued(h)' = Queued(h)
      BY <2>1 DEF Queued
    <3>2. QED
      BY <2>1, <3>1 DEF QueuesInOrder
  <2>4. ASSUME NEW h \in Kinds, NEW q \in Queued(h)' PROVE q # cur'
    BY <2>1, <2>3, <2>4, QueuesApart
  <2>5. QED
    BY <2>1, <2>2, <2>3, <2>4 DEF QueuesInOrder
<1>3. CASE Serve
  <2>1. /\ cur \in Requests /\ queue' = queue /\ req' = req /\ sent' = sent
        /\ cur' = cur \/ cur' = NoRequest
        /\ \A r \in Requests \ {cur} : outcome'[r] = outcome[r]
    BY <1>3 DEF Serve, TypeOK
  <2>2. Made' = Made /\ \A k \in Kinds : Queued(k)' = Queued(k)
    BY <2>1 DEF Made, Queued
  <2>3. \A k \in Kinds : \A r \in Queued(k) : outcome'[r] = "none" /\ r # cur'
    BY <1>0, <2>1 DEF QueuesInOrder, Made
  <2>4. QED
    BY <1>0, <2>1, <2>2, <2>3 DEF QueuesInOrder
<1>4. CASE CallbackNotify
  <2>1. /\ queue' = queue /\ req' = req /\ sent' = sent /\ outcome' = outcome
        /\ cur' = NoRequest
    BY <1>4 DEF CallbackNotify
  <2>2. Made' = Made /\ \A k \in Kinds : Queued(k)' = Queued(k)
    BY <2>1 DEF Made, Queued
  <2>3. \A k \in Kinds : \A r \in Queued(k) : r # NoRequest
    BY <1>0 DEF QueuesInOrder, Made
  <2>4. QED
    BY <1>0, <2>1, <2>2, <2>3 DEF QueuesInOrder
<1>5. CASE UNCHANGED <<queue, sent, req, outcome, overtaken, cur>>
  BY <1>5 DEF QueuesInOrder, Made, Queued
<1>6. QED
  BY <1>1, <1>2, <1>3, <1>4, <1>5, QueueSteps

LEMMA UnmadeStep ==
  TypeOK /\ QueuesInOrder /\ UnmadeUntouched /\ [Next]_vars => UnmadeUntouched'
<1> SUFFICES ASSUME TypeOK, QueuesInOrder, UnmadeUntouched, [Next]_vars,
                    NEW q \in Requests \ Made'
             PROVE  outcome'[q] = "none" /\ wait'[q] = NoWait /\ overtaken'[q] = 0
  BY DEF UnmadeUntouched
<1> USE DEF driveVars, workerVars, clientVars, resultVars
<1>0. /\ Made \subseteq Made'
      /\ q \in Requests \ Made
      /\ outcome[q] = "none" /\ wait[q] = NoWait /\ overtaken[q] = 0
  <2>1. Made \subseteq Made'
    <3>1. CASE sent' = sent
      BY <3>1 DEF Made
    <3>2. ASSUME NEW c \in Clients, NEW k \in Kinds, NEW d \in 0 .. MaxDrives,
                 NEW cb \in BOOLEAN, Enqueue(c, k, d, cb)
          PROVE  Made \subseteq Made'
      BY <3>2, EnqueueNew
    <3>3. QED
      BY <3>1, <3>2, QueueSteps DEF HandleTake, Serve, CallbackNotify
  <2>2. QED
    BY <2>1 DEF UnmadeUntouched
<1>1. outcome'[q] = "none" /\ overtaken'[q] = 0
  <2>1. ASSUME NEW k \in Kinds, HandleTake(k) PROVE outcome'[q] = "none" /\ overtaken'[q] = 0
    <3>1. \A h \in Kinds : q \notin Queued(h)
      BY <1>0 DEF QueuesInOrder
    <3>2. \A h \in Higher(k) : h \in Kinds
      BY DEF Higher, Kinds
    <3>3. QED
      BY <1>0, <2>1, <3>1, <3>2 DEF HandleTake
  <2>2. CASE Serve
    <3>1. cur # q
      BY <1>0, <2>2 DEF TypeOK, QueuesInOrder, Serve
    <3>2. QED
      BY <1>0, <2>2, <3>1 DEF Serve, TypeOK
  <2>3. ASSUME NEW c \in Clients, NEW k \in Kinds, NEW d \in 0 .. MaxDrives,
               NEW cb \in BOOLEAN, Enqueue(c, k, d, cb)
        PROVE  outcome'[q] = "none" /\ overtaken'[q] = 0
    BY <1>0, <2>3 DEF Enqueue
  <2>4. CASE CallbackNotify \/ UNCHANGED <<queue, sent, req, outcome, overtaken, cur>>
    BY <1>0, <2>4 DEF CallbackNotify
  <2>5. QED
    BY <2>1, <2>2, <2>3, <2>4, QueueSteps
<1>2. wait'[q] = wait[q]
  <2>1. CASE wait' = wait
    BY <2>1
  <2>2. ASSUME NEW c \in Clients, NEW k \in Kinds, NEW d \in 0 .. MaxDrives,
               NEW cb \in BOOLEAN, Enqueue(c, k, d, cb)
        PROVE  wait'[q] = wait[q]
    <3>1. q # <<c, sent[c] + 1>>
      BY <2>2, EnqueueNew
    <3>2. wait' = [wait EXCEPT ![<<c, sent[c] + 1>>].alive = cb]
      BY <2>2 DEF Enqueue
    <3>3. QED
      BY <3>1, <3>2 DEF TypeOK
  <2>3. ASSUME NEW c \in Clients, WaitTest(c) PROVE wait'[q] = wait[q]
    <3>1. wait[creq[c]].unlocked => creq[c] # q
      BY <1>0 DEF NoWait
    <3>2. QED
      BY <1>0, <2>3, <3>1 DEF WaitTest, TypeOK
  <2>4. ASSUME CallbackSuccess \/ CallbackUnlock PROVE wait'[q] = wait[q]
    <3>1. cur # q
      BY <1>0, <2>4 DEF TypeOK, QueuesInOrder, CallbackSuccess, CallbackUnlock
    <3>2. QED
      BY <1>0, <2>4, <3>1 DEF TypeOK, CallbackSuccess, CallbackUnlock
  <2>5. QED
    BY <2>1, <2>2, <2>3, <2>4, WaitSteps
<1>3. QED
  BY <1>0, <1>1, <1>2

LEMMA AnswerStep ==
  TypeOK /\ QueuesInOrder /\ UnmadeUntouched /\ AnswerBeforeFlag /\ [Next]_vars
  => AnswerBeforeFlag'
<1> SUFFICES ASSUME TypeOK, QueuesInOrder, UnmadeUntouched, AnswerBeforeFlag, [Next]_vars
             PROVE  AnswerBeforeFlag'
  OBVIOUS
<1> USE DEF driveVars, workerVars, clientVars, resultVars
<1>0. /\ wait \in [Requests -> [unlocked : BOOLEAN, success : BOOLEAN, alive : BOOLEAN]]
      /\ outcome \in [Requests -> Answer]
      /\ wpc \in Serving => cur \in Requests
  BY DEF TypeOK, Serving
<1>1. ASSUME NEW c \in Clients, NEW k \in Kinds, NEW d \in 0 .. MaxDrives,
             NEW cb \in BOOLEAN, Enqueue(c, k, d, cb)
      PROVE  AnswerBeforeFlag'
  <2> DEFINE r == <<c, sent[c] + 1>>
  <2>1. r \in Requests \ Made
    BY <1>1, EnqueueNew
  <2> HIDE DEF r
  <2>2. /\ wait' = [wait EXCEPT ![r].alive = cb]
        /\ outcome' = outcome /\ cur' = cur /\ wpc' = wpc
    BY <1>1 DEF Enqueue, r
  <2>3. ~wait[r].unlocked /\ (wpc \in Serving => cur # r)
    BY <1>0, <2>1 DEF UnmadeUntouched, NoWait, QueuesInOrder
  <2>4. /\ \A q \in Requests \ {r} : wait'[q] = wait[q]
        /\ ~wait'[r].unlocked
    BY <1>0, <2>1, <2>2, <2>3
  <2>5. QED
    BY <1>0, <2>2, <2>3, <2>4 DEF AnswerBeforeFlag, Serving
<1>2. ASSUME NEW c \in Clients, WaitTest(c) PROVE AnswerBeforeFlag'
  <2>1. /\ outcome' = outcome /\ cur' = cur /\ wpc' = wpc
        /\ wait' = wait \/ (wait[creq[c]].unlocked /\ wait' = [wait EXCEPT ![creq[c]] = NoWait])
    BY <1>2 DEF WaitTest
  <2>2. CASE wait' = wait
    BY <2>1, <2>2 DEF AnswerBeforeFlag
  <2>3. CASE wait[creq[c]].unlocked /\ wait' = [wait EXCEPT ![creq[c]] = NoWait]
    <3>1. /\ \A q \in Requests \ {creq[c]} : wait'[q] = wait[q]
          /\ creq[c] \in Requests => ~wait'[creq[c]].unlocked
      BY <1>0, <2>3 DEF NoWait
    <3>2. wpc \in {"success", "unlock"} => cur # creq[c]
      BY <2>3 DEF AnswerBeforeFlag
    <3>3. QED
      BY <1>0, <2>1, <3>1, <3>2 DEF AnswerBeforeFlag, Serving
  <2>4. QED
    BY <2>1, <2>2, <2>3
<1>3. ASSUME NEW k \in Kinds, HandleTake(k) PROVE AnswerBeforeFlag'
  <2>1. cur' \in Queued(k) /\ cur' \in Requests
    BY <1>3, TakeRemoves DEF TypeOK
  <2>2. outcome' = outcome /\ wait' = wait /\ wpc' = "serve"
    BY <1>3 DEF HandleTake
  <2>3. QED
    BY <2>1, <2>2 DEF AnswerBeforeFlag, QueuesInOrder
<1>4. CASE Serve
  <2>1. /\ cur \in Requests /\ wait' = wait
        /\ \/ wpc' = "success" /\ cur' = cur
           \/ wpc' = "tree"
        /\ outcome'[cur] # "none"
        /\ \A r \in Requests \ {cur} : outcome'[r] = outcome[r]
    BY <1>4 DEF Serve, TypeOK, Restart
  <2>2. ~wait[cur].unlocked
    BY <1>4, <2>1 DEF Serve, AnswerBeforeFlag
  <2>3. QED
    BY <2>1, <2>2 DEF AnswerBeforeFlag
<1>5. CASE CallbackSuccess
  <2> DEFINE ok == outcome[cur] = "ok"
  <2>1. /\ wpc = "success" /\ wpc' = "unlock" /\ cur' = cur /\ outcome' = outcome
        /\ wait' = [wait EXCEPT ![cur].success = ok] /\ ok \in BOOLEAN
        /\ cur \in Requests
    BY <1>0, <1>5 DEF CallbackSuccess, Serving
  <2>2. outcome[cur] # "none" /\ ~wait[cur].unlocked
    BY <2>1 DEF AnswerBeforeFlag
  <2> HIDE DEF ok
  <2>3. /\ \A r \in Requests \ {cur} : wait'[r] = wait[r]
        /\ wait'[cur].success = ok /\ ~wait'[cur].unlocked
    BY <1>0, <2>1, <2>2
  <2>4. QED
    BY <2>1, <2>2, <2>3 DEF AnswerBeforeFlag, ok
<1>6. CASE CallbackUnlock
  <2>1. /\ wpc = "unlock" /\ wpc' = "notify" /\ cur' = cur /\ outcome' = outcome
        /\ wait' = [wait EXCEPT ![cur].unlocked = TRUE]
        /\ cur \in Requests
    BY <1>0, <1>6 DEF CallbackUnlock, Serving
  <2>2. outcome[cur] # "none" /\ wait[cur].success = (outcome[cur] = "ok")
    BY <2>1 DEF AnswerBeforeFlag
  <2>3. /\ \A r \in Requests \ {cur} : wait'[r] = wait[r]
        /\ wait'[cur].success = wait[cur].success
    BY <1>0, <2>1
  <2>4. QED
    BY <2>1, <2>2, <2>3 DEF AnswerBeforeFlag
<1>7. CASE CallbackNotify
  BY <1>7 DEF CallbackNotify, AnswerBeforeFlag, Restart
<1>8. CASE /\ UNCHANGED <<queue, sent, req, wait, outcome, overtaken, cur>>
           /\ wpc' = wpc \/ (wpc \notin Serving /\ wpc' \notin Serving)
  BY <1>8 DEF AnswerBeforeFlag, Serving
<1>9. QED
  BY <1>1, <1>2, <1>3, <1>4, <1>5, <1>6, <1>7, <1>8, RequestSteps

LEMMA WaitsStep ==
  TypeOK /\ WaitsForRequest /\ [Next]_vars => WaitsForRequest'
<1> SUFFICES ASSUME TypeOK, WaitsForRequest, [Next]_vars, NEW c \in Clients,
                    cpc'[c] \in {"test", "gap", "sleep"}
             PROVE  creq'[c] \in Requests
  BY DEF WaitsForRequest
<1> USE DEF driveVars, workerVars, clientVars, resultVars
<1>1. CASE cpc'[c] = cpc[c] /\ creq'[c] = creq[c]
  BY <1>1 DEF WaitsForRequest
<1>2. ASSUME NEW b \in Clients, Call(b) \/ ClientStep(b) \/ SpuriousClient(b)
      PROVE  creq'[c] \in Requests
  <2>1. CASE b # c
    <3>1. cpc'[c] = cpc[c] /\ creq'[c] = creq[c]
      BY <1>2, <2>1
      DEF TypeOK, Call, ClientStep, SpuriousClient, Enqueue, Wait, Wakeup,
          WakeupNotify, WaitTest, WaitSleep
    <3>2. QED
      BY <1>1, <3>1
  <2>2. CASE b = c
    BY <1>2, <2>2, ZenonT(60)
    DEF TypeOK, WaitsForRequest, Call, ClientStep, SpuriousClient, Enqueue, Wait, Wakeup,
        WakeupNotify, WaitTest, WaitSleep
  <2>3. QED
    BY <2>1, <2>2
<1>3. CASE WorkerStep \/ SpuriousWorker
  <2>1. CASE CallbackNotify
    BY <2>1 DEF CallbackNotify, WakeClients, WaitsForRequest, Sleeping
  <2>2. CASE \/ \E k \in Kinds : HandleNothing(k) \/ HandleTake(k)
             \/ Serve \/ CallbackSuccess \/ CallbackUnlock
             \/ StopCheck \/ YieldTest \/ YieldSleep \/ SpuriousWorker
    BY <1>1, <2>2 DEF HandleNothing, HandleTake, Serve, CallbackSuccess, CallbackUnlock,
         StopCheck, YieldTest, YieldSleep, SpuriousWorker
  <2>3. QED
    BY <1>3, <2>1, <2>2 DEF WorkerStep
<1>4. CASE DestroyBegin \/ DestructorStep
  BY <1>1, <1>4 DEF DestroyBegin, DestructorStep, DestroyWakeup, DestroyNotify, DestroyJoin
<1>5. CASE MapNewDrive \/ (\E d \in 0 .. MaxDrives : UnmapDrive(d)) \/ UNCHANGED vars
  BY <1>1, <1>5 DEF MapNewDrive, UnmapDrive, vars
<1>6. QED
  BY <1>2, <1>3, <1>4, <1>5 DEF Next

-----------------------------------------------------------------------------
(* Wake-ups. *)

LEMMA BehindStep ==
  TypeOK /\ BehindItsBack /\ [Next]_vars => BehindItsBack'
<1> SUFFICES ASSUME TypeOK, BehindItsBack, [Next]_vars PROVE BehindItsBack'
  OBVIOUS
<1> USE DEF driveVars, workerVars, clientVars, resultVars
<1>0. /\ cpc \in [Clients -> ClientControl] /\ queue \in [Kinds -> Seq(Requests)]
      /\ Worker \notin Clients
  BY ClientsAssumption DEF TypeOK
\* What else would keep the invariant is the same in every step that leaves the
\* worker, its flag and its queues alone.
<1>a. ASSUME UNCHANGED <<queue, normalStop, wpc, wakeFlag>>,
             Flagging => Flagging',
             Worker \in missed \/ Waking => Worker \in missed' \/ Waking'
      PROVE  BehindItsBack'
  <2>1. Asked' = Asked
    BY <1>a DEF Asked
  <2>2. QED
    BY <1>a, <2>1 DEF BehindItsBack
\* A notification finds the worker about to sleep, asleep or at work.
<1>b. ASSUME NotifyWorker, UNCHANGED <<queue, normalStop, wakeFlag>>, Flagging => Flagging'
      PROVE  BehindItsBack'
  <2>1. /\ wpc' = IF wpc = "ySleep" THEN "yTest" ELSE wpc
        /\ wpc = "yGap" => Worker \in missed'
    BY <1>b, NotifyWorkerMoves
  <2>2. Asked' = Asked
    BY <2>1 DEF Asked
  <2>3. QED
    BY <1>b, <2>1, <2>2 DEF BehindItsBack
<1>1. ASSUME NEW c \in Clients, NEW k \in Kinds, NEW d \in 0 .. MaxDrives,
             NEW cb \in BOOLEAN, Enqueue(c, k, d, cb)
      PROVE  BehindItsBack'
  <2>1. /\ UNCHANGED <<wakeFlag, normalStop, wpc, dpc, missed>>
        /\ cpc[c] = "idle" /\ cpc' = [cpc EXCEPT ![c] = "flag"]
    BY <1>1 DEF Enqueue
  <2>2. Flagging' /\ (Waking => Waking')
    BY <1>0, <2>1 DEF Flagging, Waking
  <2>3. QED
    BY <2>1, <2>2 DEF BehindItsBack
<1>2. ASSUME NEW c \in Clients, NEW r \in Requests, Wait(c, r) PROVE BehindItsBack'
  BY <1>0, <1>2, <1>a DEF Wait, Flagging, Waking
<1>3. ASSUME NEW c \in Clients, Wakeup(c) PROVE BehindItsBack'
  <2>1. wakeFlag' /\ Waking' /\ wpc' = wpc
    BY <1>0, <1>3 DEF Wakeup, SetWakeFlag, Waking
  <2>2. QED
    BY <2>1 DEF BehindItsBack
<1>4. ASSUME NEW c \in Clients, WakeupNotify(c) PROVE BehindItsBack'
  BY <1>0, <1>4, <1>b DEF WakeupNotify, Flagging
<1>5. ASSUME NEW c \in Clients, WaitTest(c) \/ WaitSleep(c) \/ SpuriousClient(c)
      PROVE  BehindItsBack'
  <2>1. /\ UNCHANGED <<queue, normalStop, wpc, wakeFlag, dpc>>
        /\ cpc[c] \in {"test", "gap", "sleep"}
        /\ cpc' = [cpc EXCEPT ![c] = cpc'[c]]
        /\ Worker \in missed => Worker \in missed'
    BY <1>0, <1>5 DEF WaitTest, WaitSleep, SpuriousClient
  <2>2. (Flagging => Flagging') /\ (Waking => Waking')
    BY <1>0, <2>1 DEF Flagging, Waking
  <2>3. QED
    BY <1>a, <2>1, <2>2
<1>6. ASSUME NEW k \in Kinds, HandleNothing(k) PROVE BehindItsBack'
  <2>1. /\ UNCHANGED <<queue, normalStop, wakeFlag, dpc, cpc>>
        /\ wpc = k /\ wpc' = After(k) /\ queue[k] = <<>>
    BY <1>6 DEF HandleNothing
  <2>2. Asked' = Asked \cup {k} /\ wpc' \in {"pull", "push", "stop"}
    BY <2>1 DEF Asked, After, Kinds
  <2>3. Flagging' = Flagging
    BY <2>1 DEF Flagging
  <2>4. QED
    BY <2>1, <2>2, <2>3 DEF BehindItsBack
<1>7. ASSUME wpc' \in {"tree", "serve", "success", "unlock", "notify", "ended"}
      PROVE  BehindItsBack'
  <2>1. Asked' = {}
    BY <1>7 DEF Asked
  <2>2. QED
    BY <1>7, <2>1 DEF BehindItsBack
<1>8. ASSUME NEW k \in Kinds, HandleTake(k) PROVE BehindItsBack'
  BY <1>7, <1>8 DEF HandleTake
<1>9. CASE Serve \/ CallbackSuccess \/ CallbackUnlock \/ CallbackNotify
  BY <1>7, <1>9 DEF Serve, CallbackSuccess, CallbackUnlock, CallbackNotify, Restart
<1>10. CASE StopCheck \/ YieldSleep
  <2>1. CASE wpc' = "ended"
    BY <1>7, <2>1
  <2>2. CASE wpc' # "ended"
    <3>1. /\ UNCHANGED <<queue, normalStop, wakeFlag, dpc, cpc, missed>>
          /\ \/ wpc = "stop" /\ wpc' = "yTest" /\ ~normalStop
             \/ wpc = "yGap" /\ wpc' = "ySleep"
      BY <1>10, <2>2 DEF StopCheck, YieldSleep
    <3>2. Asked' = Asked
      BY <3>1 DEF Asked
    <3>3. Flagging' = Flagging /\ Waking' = Waking
      BY <3>1 DEF Flagging, Waking
    <3>4. QED
      BY <3>1, <3>2, <3>3 DEF BehindItsBack
  <2>3. QED
    BY <2>1, <2>2
<1>11. CASE YieldTest
  <2>1. CASE wakeFlag
    BY <1>7, <1>11, <2>1 DEF YieldTest
  <2>2. CASE ~wakeFlag
    <3>1. /\ UNCHANGED <<queue, normalStop, wakeFlag, dpc, cpc, missed>>
          /\ wpc = "yTest" /\ wpc' = "yGap"
      BY <1>11, <2>2 DEF YieldTest
    <3>2. Asked' = Asked /\ Flagging' = Flagging
      BY <3>1 DEF Asked, Flagging
    <3>3. QED
      BY <2>2, <3>1, <3>2 DEF BehindItsBack
  <2>3. QED
    BY <2>1, <2>2
<1>12. CASE SpuriousWorker
  <2>1. /\ UNCHANGED <<queue, normalStop, wakeFlag, dpc, cpc>>
        /\ wpc = "ySleep" /\ wpc' = "yTest"
    BY <1>12 DEF SpuriousWorker
  <2>2. Asked' = Asked /\ Flagging' = Flagging
    BY <2>1 DEF Asked, Flagging
  <2>3. QED
    BY <2>1, <2>2 DEF BehindItsBack
<1>13. CASE DestroyBegin
  <2>1. Flagging' /\ (Waking => Waking') /\ UNCHANGED <<wpc, wakeFlag, missed>>
    BY <1>13 DEF DestroyBegin, Flagging, Waking
  <2>2. QED
    BY <2>1 DEF BehindItsBack
<1>14. CASE DestroyWakeup
  BY <1>14 DEF DestroyWakeup, SetWakeFlag, Waking, BehindItsBack
<1>15. CASE DestroyNotify
  BY <1>15, <1>b DEF DestroyNotify, Flagging
<1>16. CASE DestroyJoin
  BY <1>16, <1>a DEF DestroyJoin, Flagging, Waking
<1>17. CASE MapNewDrive \/ (\E d \in 0 .. MaxDrives : UnmapDrive(d)) \/ UNCHANGED vars
  BY <1>17, <1>a DEF MapNewDrive, UnmapDrive, vars, Flagging, Waking
<1>18. QED
  BY <1>1, <1>2, <1>3, <1>4, <1>5, <1>6, <1>8, <1>9, <1>10, <1>11, <1>12, <1>13,
     <1>14, <1>15, <1>16, <1>17
  DEF Next, Call, ClientStep, WorkerStep, DestructorStep

LEMMA ClientOwedStep ==
  TypeOK /\ WaitsForRequest /\ ClientIsOwed /\ [Next]_vars => ClientIsOwed'
<1> SUFFICES ASSUME TypeOK, WaitsForRequest, ClientIsOwed, [Next]_vars, NEW c \in Clients,
                    cpc'[c] \in {"gap", "sleep"}, wait'[creq'[c]].unlocked
             PROVE  c \in missed' \/ (wpc' = "notify" /\ cur' = creq'[c])
  BY DEF ClientIsOwed
<1> USE DEF driveVars, workerVars, clientVars, resultVars
<1>0. /\ cpc \in [Clients -> ClientControl] /\ Worker \notin Clients
      /\ wait \in [Requests -> [unlocked : BOOLEAN, success : BOOLEAN, alive : BOOLEAN]]
      /\ creq \in [Clients -> Requests \cup {NoRequest}]
      /\ wpc \in Serving => cur \in Requests
  BY ClientsAssumption DEF TypeOK, Serving
<1>a. ASSUME cpc[c] \in {"gap", "sleep"}, creq'[c] = creq[c], wait[creq[c]].unlocked,
             c \in missed => c \in missed',
             wpc = "notify" => wpc' = "notify" /\ cur' = cur
      PROVE  c \in missed' \/ (wpc' = "notify" /\ cur' = creq'[c])
  BY <1>a DEF ClientIsOwed
<1>b. ASSUME UNCHANGED <<cpc, creq, wait>>, c \in missed => c \in missed',
             wpc = "notify" => wpc' = "notify" /\ cur' = cur
      PROVE  c \in missed' \/ (wpc' = "notify" /\ cur' = creq'[c])
  BY <1>a, <1>b
<1>1. ASSUME NEW b \in Clients, NEW k \in Kinds, NEW d \in 0 .. MaxDrives,
             NEW cb \in BOOLEAN, Enqueue(b, k, d, cb)
      PROVE  c \in missed' \/ (wpc' = "notify" /\ cur' = creq'[c])
  <2> DEFINE r == <<b, sent[b] + 1>>
  <2>1. /\ UNCHANGED <<creq, wpc, cur, missed>>
        /\ cpc' = [cpc EXCEPT ![b] = "flag"]
        /\ wait' = [wait EXCEPT ![r].alive = cb]
    BY <1>1 DEF Enqueue
  <2> HIDE DEF r
  <2>2. b # c /\ cpc'[c] = cpc[c] /\ creq[c] \in Requests
    BY <1>0, <2>1 DEF WaitsForRequest
  <2>3. wait[creq[c]].unlocked
    BY <1>0, <2>1, <2>2
  <2>4. QED
    BY <1>a, <2>1, <2>2, <2>3
<1>2. ASSUME NEW b \in Clients, NEW r \in Requests, Wait(b, r)
      PROVE  c \in missed' \/ (wpc' = "notify" /\ cur' = creq'[c])
  BY <1>0, <1>2, <1>a DEF Wait
<1>3. ASSUME NEW b \in Clients, Wakeup(b) \/ WaitSleep(b) \/ SpuriousClient(b)
      PROVE  c \in missed' \/ (wpc' = "notify" /\ cur' = creq'[c])
  BY <1>0, <1>3, <1>a DEF Wakeup, WaitSleep, SpuriousClient
<1>4. ASSUME NEW b \in Clients, WakeupNotify(b)
      PROVE  c \in missed' \/ (wpc' = "notify" /\ cur' = creq'[c])
  BY <1>0, <1>4, <1>a, NotifyWorkerMoves DEF WakeupNotify
<1>5. ASSUME NEW b \in Clients, WaitTest(b)
      PROVE  c \in missed' \/ (wpc' = "notify" /\ cur' = creq'[c])
  <2>1. /\ UNCHANGED <<wpc, cur, missed>>
        /\ cpc[b] = "test"
        /\ \/ /\ ~wait[creq[b]].unlocked
              /\ cpc' = [cpc EXCEPT ![b] = "gap"]
              /\ creq' = creq /\ wait' = wait
           \/ /\ cpc' = [cpc EXCEPT ![b] = "idle"]
              /\ creq' = [creq EXCEPT ![b] = NoRequest]
              /\ wait' = [wait EXCEPT ![creq[b]] = NoWait]
    BY <1>5 DEF WaitTest
  <2>2. b # c /\ cpc'[c] = cpc[c] /\ creq'[c] = creq[c]
    BY <1>0, <2>1
  <2>3. creq[c] \in Requests /\ wait'[creq[c]].unlocked
    BY <2>2 DEF WaitsForRequest
  <2>4. wait[creq[c]].unlocked
    BY <1>0, <2>1, <2>3 DEF NoWait
  <2>5. QED
    BY <1>a, <2>1, <2>2, <2>4
<1>6. CASE \/ \E k \in Kinds : HandleNothing(k) \/ HandleTake(k)
           \/ Serve \/ StopCheck \/ YieldTest \/ YieldSleep \/ SpuriousWorker
  BY <1>0, <1>6, <1>b DEF HandleNothing, HandleTake, Serve, StopCheck, YieldTest,
       YieldSleep, SpuriousWorker, Kinds
<1>7. CASE CallbackSuccess
  <2> DEFINE ok == outcome[cur] = "ok"
  <2>1. /\ wpc = "success" /\ cur \in Requests /\ UNCHANGED <<cpc, creq, missed>>
        /\ wait' = [wait EXCEPT ![cur].success = ok]
    BY <1>0, <1>7 DEF CallbackSuccess, Serving
  <2> HIDE DEF ok
  <2>2. creq[c] \in Requests
    BY <2>1 DEF WaitsForRequest
  <2>3. wait[creq[c]].unlocked
    BY <1>0, <2>1, <2>2
  <2>4. QED
    BY <1>a, <2>1, <2>3
<1>8. CASE CallbackUnlock
  <2>1. /\ wpc = "unlock" /\ wpc' = "notify" /\ cur' = cur
        /\ UNCHANGED <<cpc, creq, missed>>
        /\ wait' = [wait EXCEPT ![cur].unlocked = TRUE]
    BY <1>8 DEF CallbackUnlock
  <2>2. creq[c] \in Requests
    BY <2>1 DEF WaitsForRequest
  <2>3. CASE creq[c] = cur
    BY <2>1, <2>3
  <2>4. CASE creq[c] # cur
    <3>1. wait[creq[c]].unlocked
      BY <1>0, <2>1, <2>2, <2>4
    <3>2. QED
      BY <1>a, <2>1, <3>1
  <2>5. QED
    BY <2>3, <2>4
<1>9. CASE CallbackNotify
  <2>1. /\ creq' = creq /\ wait' = wait
        /\ cpc'[c] = IF c \in Sleeping(cur) THEN "test" ELSE cpc[c]
        /\ missed' = (missed \cup Drowsing(cur)) \ Sleeping(cur)
    BY <1>9 DEF CallbackNotify, WakeClients
  <2>2. c \notin Sleeping(cur) /\ cpc[c] \in {"gap", "sleep"}
    BY <2>1
  <2>3. c \in missed \/ c \in Drowsing(cur)
    BY <2>1, <2>2 DEF ClientIsOwed, Sleeping, Drowsing
  <2>4. QED
    BY <2>1, <2>2, <2>3
<1>10. CASE DestroyBegin \/ DestructorStep
  <2>1. CASE DestroyNotify
    BY <2>1, <1>b, NotifyWorkerMoves DEF DestroyNotify
  <2>2. CASE DestroyBegin \/ DestroyWakeup \/ DestroyJoin
    BY <2>2, <1>b DEF DestroyBegin, DestroyWakeup, DestroyJoin
  <2>3. QED
    BY <1>10, <2>1, <2>2 DEF DestructorStep
<1>11. CASE MapNewDrive \/ (\E d \in 0 .. MaxDrives : UnmapDrive(d)) \/ UNCHANGED vars
  BY <1>11, <1>b DEF MapNewDrive, UnmapDrive, vars
<1>12. QED
  BY <1>1, <1>2, <1>3, <1>4, <1>5, <1>6, <1>7, <1>8, <1>9, <1>10, <1>11
  DEF Next, Call, ClientStep, WorkerStep

-----------------------------------------------------------------------------
(* Overtaking. *)

\* The worker has asked no more queues after a step than before it, unless the step
\* found one empty.
LEMMA AskedSteps ==
  ASSUME TypeOK, [Next]_vars
  PROVE  \/ \E k \in Kinds : queue[k] = <<>> /\ queue' = queue /\ Asked' \subseteq Asked \cup {k}
         \/ Asked' \subseteq Asked
<1> USE DEF driveVars, workerVars, clientVars, resultVars
<1>a. ASSUME \/ wpc' = wpc
             \/ wpc \in {"stop", "yTest", "yGap", "ySleep"}
             \/ wpc' \in {"tree", "serve", "success", "unlock", "notify", "ended"}
      PROVE  Asked' \subseteq Asked
  <2>1. Asked \subseteq Kinds /\ Asked' \subseteq Kinds
    BY DEF Asked, Kinds
  <2>2. CASE wpc' = wpc
    BY <2>2 DEF Asked
  <2>3. CASE wpc \in {"stop", "yTest", "yGap", "ySleep"}
    BY <2>1, <2>3 DEF Asked
  <2>4. CASE wpc' \in {"tree", "serve", "success", "unlock", "notify", "ended"}
    BY <2>4 DEF Asked
  <2>5. QED
    BY <1>a, <2>2, <2>3, <2>4
<1>b. ASSUME NotifyWorker PROVE Asked' \subseteq Asked
  BY <1>a, <1>b, NotifyWorkerMoves
<1>1. ASSUME NEW c \in Clients, Call(c) \/ ClientStep(c) \/ SpuriousClient(c)
      PROVE  Asked' \subseteq Asked
  BY <1>1, <1>a, <1>b DEF Call, ClientStep, SpuriousClient, Enqueue, Wait, Wakeup,
       WakeupNotify, WaitTest, WaitSleep
<1>2. ASSUME NEW k \in Kinds, HandleNothing(k)
      PROVE  queue[k] = <<>> /\ queue' = queue /\ Asked' \subseteq Asked \cup {k}
  BY <1>2 DEF HandleNothing, Asked, After, Kinds
<1>3. CASE \/ \E k \in Kinds : HandleTake(k)
           \/ Serve \/ CallbackSuccess \/ CallbackUnlock \/ CallbackNotify
           \/ StopCheck \/ YieldTest \/ YieldSleep \/ SpuriousWorker
  BY <1>3, <1>a DEF HandleTake, Serve, CallbackSuccess, CallbackUnlock, CallbackNotify,
       StopCheck, YieldTest, YieldSleep, SpuriousWorker, Restart
<1>4. CASE DestroyBegin \/ DestructorStep
  BY <1>4, <1>a, <1>b DEF DestroyBegin, DestructorStep, DestroyWakeup, DestroyNotify,
       DestroyJoin
<1>5. CASE MapNewDrive \/ (\E d \in 0 .. MaxDrives : UnmapDrive(d)) \/ UNCHANGED vars
  BY <1>5, <1>a DEF MapNewDrive, UnmapDrive, vars
<1>6. QED
  BY <1>1, <1>2, <1>3, <1>4, <1>5 DEF Next, WorkerStep

LEMMA OvertakenStep ==
  TypeOK /\ QueuesInOrder /\ UnmadeUntouched /\ LateNotOvertaken /\ OvertakenOnce /\ [Next]_vars
  => LateNotOvertaken' /\ OvertakenOnce'
<1> SUFFICES ASSUME TypeOK, QueuesInOrder, UnmadeUntouched, LateNotOvertaken, OvertakenOnce,
                    [Next]_vars
             PROVE  LateNotOvertaken' /\ OvertakenOnce'
  OBVIOUS
<1> USE DEF driveVars, workerVars, clientVars, resultVars
<1>0. queue \in [Kinds -> Seq(Requests)] /\ overtaken \in [Requests -> Nat]
  BY DEF TypeOK
<1>1. ASSUME NEW c \in Clients, NEW k \in Kinds, NEW d \in 0 .. MaxDrives,
             NEW cb \in BOOLEAN, Enqueue(c, k, d, cb)
      PROVE  LateNotOvertaken' /\ OvertakenOnce'
  <2> DEFINE r == <<c, sent[c] + 1>>
  <2>1. r \in Requests \ Made
    BY <1>1, EnqueueNew
  <2>2. Push(k, r) /\ overtaken' = overtaken /\ wpc' = wpc
    BY <1>1 DEF Enqueue
  <2> HIDE DEF r
  <2>3. /\ Queued(k)' = Queued(k) \cup {r} /\ overtaken[r] = 0
        /\ \A h \in Kinds \ {k} : queue'[h] = queue[h]
    BY <1>0, <2>1, <2>2, PushAdds DEF UnmadeUntouched
  <2>4. \A h \in Kinds : Queued(h)' \subseteq Queued(h) \cup {r}
    <3> SUFFICES ASSUME NEW h \in Kinds PROVE Queued(h)' \subseteq Queued(h) \cup {r}
      OBVIOUS
    <3>1. CASE h = k
      BY <2>3, <3>1
    <3>2. CASE h # k
      <4>1. queue'[h] = queue[h]
        BY <2>3, <3>2
      <4>2. QED
        BY <4>1 DEF Queued
    <3>3. QED
      BY <3>1, <3>2
  <2>5. Asked' = Asked /\ Asked \subseteq Kinds
    BY <2>2 DEF Asked, Kinds
  <2>6. QED
    BY <2>2, <2>3, <2>4, <2>5 DEF LateNotOvertaken, OvertakenOnce
<1>2. ASSUME NEW k \in Kinds, HandleTake(k) PROVE LateNotOvertaken' /\ OvertakenOnce'
  <2>1. Asked' = {} /\ Higher(k) = Asked
    BY <1>2 DEF HandleTake, Asked, Higher, Kinds
  <2>2. ASSUME NEW r \in Requests PROVE overtaken'[r] <= 1
    <3>1. overtaken'[r] = IF \E h \in Higher(k) : r \in Queued(h) THEN overtaken[r] + 1
                          ELSE IF r = Head(queue[k]) THEN 0 ELSE overtaken[r]
      BY <1>2 DEF HandleTake
    <3>2. CASE \E h \in Higher(k) : r \in Queued(h)
      BY <2>1, <3>1, <3>2 DEF LateNotOvertaken
    <3>3. CASE ~ \E h \in Higher(k) : r \in Queued(h)
      BY <1>0, <3>1, <3>3 DEF OvertakenOnce
    <3>4. QED
      BY <3>2, <3>3
  <2>3. QED
    BY <2>1, <2>2 DEF LateNotOvertaken, OvertakenOnce
<1>3. ASSUME queue' = queue, overtaken' = overtaken PROVE LateNotOvertaken' /\ OvertakenOnce'
  <2>1. \A k \in Kinds : Queued(k)' = Queued(k) /\ (queue[k] = <<>> => Queued(k) = {})
    BY <1>3 DEF Queued
  <2>2. Asked \subseteq Kinds
    BY DEF Asked, Kinds
  <2>3. QED
    BY <1>3, <2>1, <2>2, AskedSteps DEF LateNotOvertaken, OvertakenOnce
<1>4. CASE Serve \/ CallbackNotify \/ UNCHANGED <<queue, sent, req, outcome, overtaken, cur>>
  BY <1>3, <1>4 DEF Serve, CallbackNotify
<1>5. QED
  BY <1>1, <1>2, <1>4, QueueSteps

-----------------------------------------------------------------------------
(* What ConnectionSync promises. *)

LEMMA Invariance == Spec => []Inv
<1>1. Init => Inv
  <2> SUFFICES ASSUME Init PROVE Inv
    OBVIOUS
  <2>1. TypeOK
    BY TypeInit
  <2>2. /\ \A k \in Kinds : queue[k] = <<>> /\ Once(queue[k]) /\ Queued(k) = {}
        /\ cur \notin Requests
    BY EmptyWaiting, RequestsAssumption DEF Init, Queued, Waiting, Requests
  <2>3. QueuesInOrder /\ LateNotOvertaken
    <3>1. Asked = {}
      BY DEF Init, Asked
    <3>2. QED
      BY <2>2, <3>1 DEF QueuesInOrder, LateNotOvertaken
  <2>4. UnmadeUntouched /\ AnswerBeforeFlag /\ WaitsForRequest /\ ClientIsOwed /\ OvertakenOnce
    BY DEF Init, UnmadeUntouched, AnswerBeforeFlag, WaitsForRequest, ClientIsOwed,
       OvertakenOnce, NoWait
  <2>5. BehindItsBack
    BY DEF Init, BehindItsBack, Asked
  <2>6. QED
    BY <2>1, <2>3, <2>4, <2>5 DEF Inv
<1>2. Inv /\ [Next]_vars => Inv'
  BY TypeStep, QueuesStep, UnmadeStep, AnswerStep, WaitsStep, BehindStep, OvertakenStep,
     ClientOwedStep DEF Inv
<1>3. QED
  BY <1>1, <1>2, PTL DEF Spec

\* The control points and the data stay in their types; the worker has a request in
\* hand exactly while it serves one, and calls back only who gave a callback.
THEOREM TypeCorrect == Spec => []TypeOK
<1>1. Inv => TypeOK
  BY DEF Inv
<1>2. QED
  BY <1>1, Invariance, PTL

\* _threadYield: a worker that sleeps, or is about to, over a request or a stop is
\* owed a wake-up that is still to come, unless it came in the window.
THEOREM WorkerOwed == Spec => []WorkerIsOwed
<1>1. Inv => WorkerIsOwed
  <2> SUFFICES ASSUME BehindItsBack, wpc \in {"yGap", "ySleep"},
                      normalStop \/ \E k \in Kinds : queue[k] # <<>>
               PROVE  \/ Worker \in missed
                      \/ dpc \in {"flag", "wake"}
                      \/ \E c \in Clients : cpc[c] \in {"flag", "wake"}
    BY DEF Inv, WorkerIsOwed
  <2>1. Asked = Kinds
    BY DEF Asked
  <2>2. wakeFlag \/ Flagging
    BY <2>1 DEF BehindItsBack
  <2>3. QED
    BY <2>2 DEF BehindItsBack, Flagging, Waking
<1>2. QED
  BY <1>1, Invariance, PTL

\* WaitOnResult::wait: the same for a client that sleeps over an answer.
THEOREM ClientOwed == Spec => []ClientIsOwed
<1>1. Inv => ClientIsOwed
  BY DEF Inv
<1>2. QED
  BY <1>1, Invariance, PTL

\* The three handlers, asked one after the other, let a request be overtaken by one
\* of lower priority once, and never twice.
THEOREM OvertakenAtMostOnce == Spec => []OvertakenOnce
<1>1. Inv => OvertakenOnce
  BY DEF Inv
<1>2. QED
  BY <1>1, Invariance, PTL

\* A wait that ends returns what serving its own request resulted in.
THEOREM OwnAnswer == Spec => ReturnsOwnAnswer
<1> DEFINE Returned ==
             \A r \in Requests : wait[r].alive /\ ~wait'[r].alive
               => outcome[r] # "none" /\ wait[r].success = (outcome[r] = "ok")
<1>1. Inv /\ [Next]_vars => [Returned]_vars
  <2> SUFFICES ASSUME Inv, [Next]_vars, NEW r \in Requests,
                      wait[r].alive, ~wait'[r].alive
               PROVE  outcome[r] # "none" /\ wait[r].success = (outcome[r] = "ok")
    OBVIOUS
  <2>1. TypeOK /\ AnswerBeforeFlag /\ QueuesInOrder /\ UnmadeUntouched
    BY DEF Inv
  <2>2. wait \in [Requests -> [unlocked : BOOLEAN, success : BOOLEAN, alive : BOOLEAN]]
    BY <2>1 DEF TypeOK
  <2>3. ASSUME NEW c \in Clients, WaitTest(c)
        PROVE  wait[r].unlocked
    BY <2>2, <2>3 DEF WaitTest
  <2>4. ASSUME NEW c \in Clients, NEW k \in Kinds, NEW d \in 0 .. MaxDrives,
               NEW cb \in BOOLEAN, Enqueue(c, k, d, cb)
        PROVE  FALSE
    <3> DEFINE q == <<c, sent[c] + 1>>
    <3>1. q \in Requests \ Made /\ wait' = [wait EXCEPT ![q].alive = cb]
      BY <2>1, <2>4, EnqueueNew DEF Enqueue
    <3> HIDE DEF q
    <3>2. ~wait[q].alive
      BY <2>1, <3>1 DEF UnmadeUntouched, NoWait
    <3>3. q # r
      BY <3>2
    <3>4. QED
      BY <2>2, <3>1, <3>3
  <2>5. ASSUME CallbackSuccess \/ CallbackUnlock PROVE FALSE
    <3> DEFINE ok == outcome[cur] = "ok"
    <3>1. \/ wait' = [wait EXCEPT ![cur].success = ok]
          \/ wait' = [wait EXCEPT ![cur].unlocked = TRUE]
      BY <2>5 DEF CallbackSuccess, CallbackUnlock
    <3> HIDE DEF ok
    <3>2. QED
      BY <2>2, <3>1
  <2>6. QED
    BY <2>1, <2>3, <2>4, <2>5, WaitSteps DEF AnswerBeforeFlag
<1>2. QED
  BY <1>1, Invariance, PTL DEF Spec, ReturnsOwnAnswer
=============================================================================
