------------------------------ MODULE IPCProofs ------------------------------
(***************************************************************************)
(* Safety of the processes and their mail slots for any finite number of   *)
(* controllers and any number of faults: who owns which slot, whose answer *)
(* a controller prints, where a command can be lost, and which daemon can  *)
(* take another one's cache away.                                          *)
(***************************************************************************)
EXTENDS IPC, QueueTheorems, FiniteSetTheorems

CSteps == {"ready", "probe", "probing", "listen", "spawn", "await", "open", "send",
           "recv", "end"}
DSteps == {"boot", "create", "signal", "listen", "run", "answer", "closing", "exited",
           "crashed", "failed"}
Results == {"none", "own", "other", "nodaemon", "aborted", "noprocess", "killed"}
Messages == [kind : Commands \cup {"ok", "output", "return"}, to : Controllers \cup {Nil}]

CtlType == [Controllers -> [cmd : Commands \cup {"none", "revive"}, step : CSteps,
                            result : Results]]
DaeType == [step : DSteps, client : Controllers \cup {Nil}, mounts : BOOLEAN]

Types ==
  /\ owner \in [Slots -> Controllers \cup Daemons \cup {Nil}]
  /\ box \in [Slots -> Seq(Messages)]
  /\ ctl \in CtlType /\ dae \in Seq(DaeType)
  /\ unsynced \subseteq Daemons /\ stale \subseteq Controllers \cup Daemons
  /\ left \in 0 .. MaxFaults

\* What a controller does with its command: only restart looks for a daemon twice.
Errands ==
  \A c \in Controllers :
    /\ ctl[c].cmd = "none" <=> ctl[c].step = "ready"
    /\ ctl[c].step \in {"listen", "spawn", "await"} => ctl[c].cmd \notin {"terminate", "restart"}
    /\ ctl[c].step \in {"open", "send", "recv"} => ctl[c].cmd # "revive"
    /\ ctl[c].step # "end" => ctl[c].result \in {"none", "other"}

HasDaemonSlot(d) == Running(d) \/ dae[d].step = "closing"

\* Who owns a slot can be told from what he is doing.
OwnsSlots(c) ==
  /\ owner["mtpmountdaemon"] = c <=> ctl[c].step = "probing"
  /\ owner["mtpmountstartup"] = c <=> ctl[c].step \in {"spawn", "await"}
  /\ owner["mtpmountcontroller"] = c
       <=> \/ ctl[c].step \in {"send", "recv"}
           \/ ctl[c].cmd = "revive" /\ ctl[c].step # "end"
Ownership ==
  /\ \A s \in Slots : owner[s] = Nil => box[s] = <<>>
  /\ \A c \in Controllers : OwnsSlots(c)
  /\ \A d \in Daemons :
       /\ owner["mtpmountdaemon"] = d <=> HasDaemonSlot(d)
       /\ owner["mtpmountstartup"] # d /\ owner["mtpmountcontroller"] # d

\* A controller that may have started a daemon starts none any more.
Spent == {c \in Controllers :
            \/ ctl[c].step \in {"await", "open", "send", "recv"} /\ ctl[c].cmd # "restart"
            \/ ctl[c].step = "end"}
FewDaemons == Len(dae) <= Cardinality(Spent)

\* One command at a time is under way, and it is the one of the controller that owns
\* the slot for the answer and has not been answered.
Busy(d) == dae[d].step \in {"run", "answer"}
UnderWay == box["mtpmountdaemon"] # <<>> \/ \E d \in Daemons : Busy(d)
OneCommand ==
  LET me == owner["mtpmountcontroller"] IN
  /\ \A c \in Controllers : ctl[c].result # "other"
  /\ \A m \in Waiting(box["mtpmountcontroller"]) : m.to = me
  /\ \A m \in Waiting(box["mtpmountdaemon"]) : m.to = me
  /\ \A d \in Daemons : Busy(d) => dae[d].client = me /\ box["mtpmountdaemon"] = <<>>
  /\ Len(box["mtpmountdaemon"]) <= 1
  /\ UnderWay => /\ me \in Controllers /\ ctl[me].step = "recv"
                 /\ \A m \in Waiting(box["mtpmountcontroller"]) : m.kind # "return"
  /\ me \in Controllers /\ ctl[me].step = "send" => box["mtpmountcontroller"] = <<>>

\* Who has found a daemon, or has heard of one, is right, or has been misled, or the
\* daemon is gone.
Found ==
  \/ \E c \in Controllers : ctl[c].step \in {"open", "send"}
  \/ box["mtpmountdaemon"] # <<>> \/ box["mtpmountstartup"] # <<>>
Gone(d) == dae[d].step \in {"closing", "exited", "crashed"}
FoundOne == \/ "misled" \in trouble
            \/ \E d \in Daemons : Running(d) \/ Gone(d)

\* While a daemon has its slot, who is about to start or claim one goes by an old probe.
LateIsStale ==
  (\E d \in Daemons : HasDaemonSlot(d))
  => /\ \A c \in Controllers : ctl[c].step \in {"probing", "listen", "spawn"} => c \in stale
     /\ \A e \in Daemons : dae[e].step \in {"boot", "create"} => e \in stale

Inv ==
  /\ Types
  /\ Errands
  /\ Ownership
  /\ FewDaemons
  /\ "killed" \notin trouble => OneCommand
  /\ Found => FoundOne
  /\ DroppedOnlyByExit
  /\ LateIsStale

-----------------------------------------------------------------------------
(* What the operators do.                                                  *)

LEMMA SlotsAre ==
  /\ "mtpmountdaemon" \in Slots /\ "mtpmountstartup" \in Slots /\ "mtpmountcontroller" \in Slots
  /\ \A s \in Slots : s \in {"mtpmountdaemon", "mtpmountstartup", "mtpmountcontroller"}
BY DEF Slots

\* Processes are told apart.
LEMMA ProcessesDiffer ==
  ASSUME dae \in Seq(DaeType)
  PROVE  /\ Nil \notin Controllers /\ Nil \notin Daemons
         /\ Len(dae) \in Nat /\ \A d \in Daemons : d \in Nat /\ d \notin Controllers
BY ProcessesAssumption DEF Daemons

\* A mail slot is created where there is none, and is empty.
LEMMA CreateMailslotDoes ==
  ASSUME Types, NEW p, NEW s \in Slots, CreateMailslot(p, s)
  PROVE  /\ owner[s] = Nil /\ owner'[s] = p /\ box'[s] = <<>>
         /\ \A t \in Slots \ {s} : owner'[t] = owner[t] /\ box'[t] = box[t]
         /\ box' \in [Slots -> Seq(Messages)] /\ DOMAIN owner' = Slots
         /\ owner' = [owner EXCEPT ![s] = p]
<1>1. <<>> \in Seq(Messages)
  BY EmptyWaiting
<1>2. QED
  BY <1>1 DEF Types, CreateMailslot

\* Exactly the slots in S that p owns are closed.
LEMMA CloseHandlesDoes ==
  ASSUME Types, NEW p, NEW S, CloseHandles(p, S)
  PROVE  /\ \A s \in Slots : s \in S /\ owner[s] = p => owner'[s] = Nil /\ box'[s] = <<>>
         /\ \A s \in Slots : ~(s \in S /\ owner[s] = p) => owner'[s] = owner[s] /\ box'[s] = box[s]
         /\ box' \in [Slots -> Seq(Messages)]
         /\ owner' \in [Slots -> Controllers \cup Daemons \cup {Nil}]
<1>1. <<>> \in Seq(Messages)
  BY EmptyWaiting
<1>2. QED
  BY <1>1 DEF Types, CloseHandles

\* A message is put at the back of a slot that somebody owns, and is lost otherwise.
LEMMA SendStringDoes ==
  ASSUME Types, NEW m \in Messages, NEW s \in Slots, SendString(m, s)
  PROVE  /\ box' \in [Slots -> Seq(Messages)]
         /\ \A t \in Slots \ {s} : box'[t] = box[t]
         /\ owner[s] = Nil => box' = box
         /\ owner[s] # Nil => /\ Waiting(box'[s]) = Waiting(box[s]) \cup {m}
                              /\ box'[s] # <<>> /\ Len(box'[s]) = Len(box[s]) + 1
<1>1. box[s] \in Seq(Messages) /\ box \in [Slots -> Seq(Messages)]
  BY DEF Types
<1>2. /\ Append(box[s], m) \in Seq(Messages) /\ Append(box[s], m) # <<>>
      /\ Waiting(Append(box[s], m)) = Waiting(box[s]) \cup {m}
      /\ Len(Append(box[s], m)) = Len(box[s]) + 1
  BY <1>1, AppendWaiting
<1>3. box' = IF owner[s] = Nil THEN box ELSE [box EXCEPT ![s] = Append(box[s], m)]
  BY DEF SendString
<1>4. QED
  BY <1>1, <1>2, <1>3

\* The message at the front of a slot is taken out of it.
LEMMA TakeMessage ==
  ASSUME Types, NEW s \in Slots, box[s] # <<>>, box' = [box EXCEPT ![s] = Tail(@)]
  PROVE  /\ box' \in [Slots -> Seq(Messages)]
         /\ \A t \in Slots \ {s} : box'[t] = box[t]
         /\ Waiting(box'[s]) \subseteq Waiting(box[s])
         /\ Head(box[s]) \in Waiting(box[s]) /\ Head(box[s]) \in Messages
         /\ Len(box'[s]) = Len(box[s]) - 1
<1>1. box[s] \in Seq(Messages) /\ box \in [Slots -> Seq(Messages)]
  BY DEF Types
<1>2. /\ Tail(box[s]) \in Seq(Messages)
      /\ Waiting(box[s]) = Waiting(Tail(box[s])) \cup {Head(box[s])}
      /\ Head(box[s]) \in Waiting(box[s]) /\ Head(box[s]) \in Messages
      /\ Len(Tail(box[s])) = Len(box[s]) - 1
  BY <1>1, TailWaiting
<1>3. box' = [box EXCEPT ![s] = Tail(box[s])]
  OBVIOUS
<1>4. QED
  BY <1>1, <1>2, <1>3

\* Controller c is the only one to move; it now has command m, is at step s and has
\* result r.
Moved(c, m, s, r) ==
  /\ ctl' \in CtlType
  /\ ctl'[c].cmd = m /\ ctl'[c].step = s /\ ctl'[c].result = r
  /\ \A b \in Controllers \ {c} : ctl'[b] = ctl[b]

LEMMA GoMoves ==
  ASSUME Types, NEW c \in Controllers, NEW s \in CSteps, Go(c, s)
  PROVE  Moved(c, ctl[c].cmd, s, ctl[c].result)
BY DEF Types, CtlType, Go, Moved

LEMMA EndedMoves ==
  ASSUME Types, NEW c \in Controllers, NEW r \in Results, Ended(c, r)
  PROVE  Moved(c, ctl[c].cmd, "end", r)
BY DEF Types, CtlType, CSteps, Ended, Moved

LEMMA DoneMoves ==
  ASSUME Types, NEW c \in Controllers, NEW b, Done(c, b)
  PROVE  \E r \in {"own", "other"} :
           /\ Moved(c, ctl[c].cmd, "end", r)
           /\ b = c /\ ctl[c].result = "none" => r = "own"
<1> DEFINE r == IF b = c /\ ctl[c].result = "none" THEN "own" ELSE "other"
<1>1. Ended(c, r) /\ r \in {"own", "other"} /\ r \in Results
  BY DEF Done, Results
<1>2. b = c /\ ctl[c].result = "none" => r = "own"
  OBVIOUS
<1> HIDE DEF r
<1>3. QED
  BY <1>1, <1>2, EndedMoves

\* Daemon d is the only one to move; it is now at step s.
Turned(d, s) ==
  /\ dae' \in Seq(DaeType) /\ Len(dae') = Len(dae) /\ Daemons' = Daemons
  /\ dae'[d].step = s
  /\ \A e \in Daemons \ {d} : dae'[e] = dae[e]

LEMMA TurnTurns ==
  ASSUME dae \in Seq(DaeType), NEW d \in Daemons, NEW s \in DSteps,
         NEW x \in Controllers \cup {Nil}, NEW b \in BOOLEAN,
         \/ Turn(d, s) /\ x = dae[d].client
         \/ dae' = [dae EXCEPT ![d].step = s, ![d].client = x]
         \/ dae' = [dae EXCEPT ![d].step = s, ![d].mounts = b] /\ x = dae[d].client
  PROVE  Turned(d, s) /\ dae'[d].client = x
<1>1. d \in 1 .. Len(dae) /\ dae \in [1 .. Len(dae) -> DaeType] /\ Len(dae) \in Nat
  BY DEF Daemons
<1>2. dae' \in [1 .. Len(dae) -> DaeType]
  BY <1>1 DEF Turn, DaeType
<1>3. dae' \in Seq(DaeType) /\ Len(dae') = Len(dae)
  BY <1>1, <1>2
<1>4. dae'[d].step = s /\ dae'[d].client = x
  BY <1>1 DEF Turn, DaeType
<1>5. \A e \in Daemons \ {d} : dae'[e] = dae[e]
  BY <1>1 DEF Turn, Daemons
<1>6. QED
  BY <1>3, <1>4, <1>5 DEF Turned, Daemons

LEMMA TurnOnly ==
  ASSUME Types, NEW d \in Daemons, NEW s \in DSteps, Turn(d, s)
  PROVE  Turned(d, s)
<1>1. dae \in Seq(DaeType) /\ dae[d] \in DaeType
  BY DEF Types, Daemons
<1>2. dae[d].client \in Controllers \cup {Nil}
  BY <1>1 DEF DaeType
<1>3. QED
  BY <1>1, <1>2, TurnTurns

\* A daemon that has read a command runs it for the one who sent it, or ends.
LEMMA ListenTurns ==
  ASSUME Types, NEW d \in Daemons, Listen(d)
  PROVE  LET msg == Head(box["mtpmountdaemon"])
         IN \/ Turned(d, "closing") /\ msg.kind \in {"terminate", "restart"}
            \/ Turned(d, "run") /\ dae'[d].client = msg.to
<1> DEFINE msg == Head(box["mtpmountdaemon"])
<1>1. dae \in Seq(DaeType) /\ dae[d] \in DaeType
  BY DEF Types, Daemons
<1>2. msg.to \in Controllers \cup {Nil}
  <2>1. box["mtpmountdaemon"] \in Seq(Messages) /\ box["mtpmountdaemon"] # <<>>
    BY SlotsAre DEF Listen, Types
  <2>2. msg \in Messages
    BY <2>1, TailWaiting
  <2>3. QED
    BY <2>2 DEF Messages
<1>3. CASE Turn(d, "closing") /\ msg.kind \in {"terminate", "restart"}
  <2>1. dae[d].client \in Controllers \cup {Nil}
    BY <1>1 DEF DaeType
  <2>2. Turned(d, "closing")
    BY <1>1, <1>3, <2>1, TurnTurns DEF DSteps
  <2>3. QED
    BY <1>3, <2>2
<1>4. CASE dae' = [dae EXCEPT ![d].step = "run", ![d].client = msg.to]
  <2>1. Turned(d, "run") /\ dae'[d].client = msg.to
    BY <1>1, <1>2, <1>4, TurnTurns, ZenonT(60) DEF DSteps
  <2>2. QED
    BY <2>1
<1>5. QED
  BY <1>3, <1>4 DEF Listen

LEMMA SendReturnTurns ==
  ASSUME Types, NEW d \in Daemons, SendReturn(d)
  PROVE  Turned(d, "listen")
<1>1. dae \in Seq(DaeType) /\ dae[d] \in DaeType
  BY DEF Types, Daemons
<1>2. dae[d].client \in Controllers \cup {Nil}
  BY <1>1 DEF DaeType
<1>3. QED
  BY <1>1, <1>2, TurnTurns DEF SendReturn, DSteps

-----------------------------------------------------------------------------
(* Types and errands.                                                      *)

\* The part of Types that speaks of the daemons, when no daemon is started.
LEMMA TypesKept ==
  ASSUME Types, ctl' \in CtlType, dae' \in Seq(DaeType), Daemons' = Daemons,
         owner' \in [Slots -> Controllers \cup Daemons \cup {Nil}],
         box' \in [Slots -> Seq(Messages)],
         unsynced' \subseteq Daemons, stale' \subseteq Controllers \cup Daemons,
         left' = left \/ (left > 0 /\ left' = left - 1)
  PROVE  Types'
BY FaultsAssumption DEF Types

LEMMA ControllerTypes ==
  ASSUME Types, Errands, NEW c \in Controllers, Start(c) \/ Controller(c) \/ Kill(c)
  PROVE  Types' /\ \A b \in Controllers \ {c} : ctl'[b] = ctl[b]
<1> USE DEF slots
<1>0. /\ owner \in [Slots -> Controllers \cup Daemons \cup {Nil}]
      /\ box \in [Slots -> Seq(Messages)] /\ ctl \in CtlType /\ dae \in Seq(DaeType)
      /\ unsynced \subseteq Daemons /\ stale \subseteq Controllers \cup Daemons
  BY DEF Types
<1>a. ASSUME UNCHANGED <<dae, unsynced>>,
             ctl' \in CtlType, \A b \in Controllers \ {c} : ctl'[b] = ctl[b],
             UNCHANGED slots \/ (/\ owner' \in [Slots -> Controllers \cup Daemons \cup {Nil}]
                                /\ box' \in [Slots -> Seq(Messages)]),
             stale' \subseteq stale,
             left' = left \/ (left > 0 /\ left' = left - 1)
      PROVE  Types' /\ \A b \in Controllers \ {c} : ctl'[b] = ctl[b]
  <2>1. Daemons' = Daemons
    BY <1>a DEF Daemons
  <2>2. QED
    BY <1>0, <1>a, <2>1, TypesKept
\* Steps that end the controller.
<1>b. ASSUME CloseHandles(c, Slots), UNCHANGED <<dae, unsynced>>, stale' \subseteq stale,
             left' = left \/ (left > 0 /\ left' = left - 1),
             (\E r \in Results : Ended(c, r)) \/ \E b \in Controllers \cup {Nil} : Done(c, b)
      PROVE  Types' /\ \A b \in Controllers \ {c} : ctl'[b] = ctl[b]
  <2>1. ctl' \in CtlType /\ \A b \in Controllers \ {c} : ctl'[b] = ctl[b]
    BY <1>b, EndedMoves, DoneMoves DEF Moved
  <2>2. QED
    BY <1>a, <1>b, <2>1, CloseHandlesDoes
\* Steps that take it elsewhere.
<1>c. ASSUME NEW s \in CSteps, Go(c, s), UNCHANGED <<dae, unsynced>>, stale' \subseteq stale,
             left' = left \/ (left > 0 /\ left' = left - 1),
             \/ UNCHANGED slots
             \/ \E t \in Slots : CreateMailslot(c, t) \/ CloseHandles(c, {t})
             \/ owner' = owner /\ \E m \in Messages, t \in Slots : SendString(m, t)
      PROVE  Types' /\ \A b \in Controllers \ {c} : ctl'[b] = ctl[b]
  <2>1. ctl' \in CtlType /\ \A b \in Controllers \ {c} : ctl'[b] = ctl[b]
    BY <1>c, GoMoves DEF Moved
  <2>2. \A t \in Slots : CreateMailslot(c, t)
          => /\ owner' \in [Slots -> Controllers \cup Daemons \cup {Nil}]
             /\ box' \in [Slots -> Seq(Messages)]
    BY <1>0, CreateMailslotDoes
  <2>3. QED
    BY <1>0, <1>a, <1>c, <2>1, <2>2, CloseHandlesDoes, SendStringDoes
<1>1. CASE Start(c)
  <2>1. PICK cmd \in Commands : ctl' = [ctl EXCEPT ![c] = [cmd |-> cmd, step |-> "probe", result |-> "none"]]
    BY <1>1 DEF Start
  <2>2. ctl' \in CtlType /\ \A b \in Controllers \ {c} : ctl'[b] = ctl[b]
    BY <1>0, <2>1 DEF CtlType, CSteps, Results
  <2>3. QED
    BY <1>1, <1>a, <2>2 DEF Start
<1>2. CASE DoesEndpointExist(c)
  BY <1>2, <1>b, <1>c, SlotsAre DEF DoesEndpointExist, CSteps
<1>3. CASE ProbeClosed(c)
  <2>1. CASE Go(c, "listen")
    BY <1>3, <1>c, <2>1, SlotsAre DEF ProbeClosed, CSteps
  <2>2. CASE Ended(c, "nodaemon")
    <3>1. ctl' \in CtlType /\ \A b \in Controllers \ {c} : ctl'[b] = ctl[b]
      BY <2>2, EndedMoves DEF Moved, Results
    <3>2. QED
      BY <1>3, <1>a, <3>1, CloseHandlesDoes DEF ProbeClosed
  <2>3. QED
    BY <1>3, <2>1, <2>2 DEF ProbeClosed
<1>4. CASE ListenForStartup(c)
  BY <1>4, <1>b, <1>c, SlotsAre DEF ListenForStartup, CSteps, Results
<1>5. CASE CreateDaemon(c)
  <2>1. CASE Fault("noprocess") /\ Ended(c, "noprocess") /\ CloseHandles(c, Slots)
              /\ UNCHANGED <<dae, stale>>
    BY <1>5, <2>1, <1>b DEF CreateDaemon, Fault, Results
  <2>2. CASE left' = left /\ Go(c, "await")
    <3>1. /\ dae' = Append(dae, [step |-> "boot", client |-> Nil, mounts |-> FALSE])
          /\ stale' = (IF c \in stale THEN stale \cup {Len(dae) + 1} ELSE stale)
          /\ Go(c, "await") /\ UNCHANGED <<slots, unsynced>>
      <4>1. ~Fault("noprocess")
        BY <2>2, FaultsAssumption DEF Fault, Types
      <4>2. QED
        BY <1>5, <4>1 DEF CreateDaemon
    <3>2. ctl' \in CtlType /\ \A b \in Controllers \ {c} : ctl'[b] = ctl[b]
      BY <3>1, GoMoves DEF Moved, CSteps
    <3>3. [step |-> "boot", client |-> Nil, mounts |-> FALSE] \in DaeType
      BY DEF DaeType, DSteps
    <3>4. dae' \in Seq(DaeType) /\ Len(dae') = Len(dae) + 1 /\ Len(dae) \in Nat
      BY <1>0, <3>1, <3>3, AppendWaiting
    <3>5. Daemons \subseteq Daemons' /\ Len(dae) + 1 \in Daemons'
      BY <3>4 DEF Daemons
    <3>6. stale' \subseteq Controllers \cup Daemons'
      BY <1>0, <3>1, <3>5
    <3>7. QED
      BY <1>0, <2>2, <3>1, <3>2, <3>4, <3>5, <3>6 DEF Types
  <2>3. QED
    BY <1>5, <2>1, <2>2 DEF CreateDaemon
<1>6. CASE AwaitStartup(c)
  BY <1>6, <1>b, <1>c, SlotsAre DEF AwaitStartup, CSteps
<1>7. CASE OpenController(c)
  BY <1>7, <1>b, <1>c, SlotsAre DEF OpenController, CSteps, Results
<1>8. CASE SendCommand(c)
  <2>1. [kind |-> ctl[c].cmd, to |-> c] \in Messages
    <3>1. ctl[c].cmd \in Commands
      BY <1>0, <1>8 DEF SendCommand, At, Errands, CtlType
    <3>2. QED
      BY <3>1 DEF Messages
  <2>2. QED
    BY <1>8, <1>c, <2>1, SlotsAre DEF SendCommand, Fault, CSteps
<1>9. CASE PrintOutput(c)
  <2>1. ctl' = [ctl EXCEPT ![c].result = ctl[c].result] \/ ctl' = [ctl EXCEPT ![c].result = "other"]
    BY <1>9 DEF PrintOutput
  <2>2. ctl' \in CtlType /\ \A b \in Controllers \ {c} : ctl'[b] = ctl[b]
    BY <1>0, <2>1, ZenonT(60) DEF CtlType, Results
  <2>3. box' \in [Slots -> Seq(Messages)]
    BY <1>9, TakeMessage, SlotsAre DEF PrintOutput, RecvString
  <2>4. QED
    BY <1>0, <1>9, <1>a, <2>2, <2>3 DEF PrintOutput
<1>10. CASE Return(c)
  <2>0. Head(box["mtpmountcontroller"]) \in Messages
    <3>1. box["mtpmountcontroller"] \in Seq(Messages) /\ box["mtpmountcontroller"] # <<>>
      BY <1>0, <1>10, SlotsAre DEF Return
    <3>2. QED
      BY <3>1, TailWaiting
  <2>1. CASE ctl[c].cmd = "restart"
    <3>1. PICK r \in {ctl[c].result, "other"} :
            ctl' = [ctl EXCEPT ![c].cmd = "revive", ![c].step = "probe", ![c].result = r]
      BY <1>10, <2>1 DEF Return
    <3>2. ctl' \in CtlType /\ \A b \in Controllers \ {c} : ctl'[b] = ctl[b]
      <4> DEFINE R == [cmd : Commands \cup {"none", "revive"}, step : CSteps, result : Results]
      <4>1. r \in Results /\ "probe" \in CSteps
        BY <1>0 DEF CtlType, Results, CSteps
      <4>2. ctl \in [Controllers -> R]
        BY <1>0 DEF CtlType
      <4>3. ctl[c] \in R
        BY <4>2
      <4>4. [ctl[c] EXCEPT !.cmd = "revive", !.step = "probe", !.result = r] \in R
        BY <4>1, <4>3
      <4> HIDE DEF R
      <4>5. ctl' = [ctl EXCEPT ![c] = [ctl[c] EXCEPT !.cmd = "revive", !.step = "probe",
                                                     !.result = r]]
        BY <3>1
      <4>6. ctl' \in [Controllers -> R] /\ \A b \in Controllers \ {c} : ctl'[b] = ctl[b]
        BY <4>2, <4>4, <4>5
      <4>7. QED
        BY <4>6 DEF CtlType, R
    <3>3. box' \in [Slots -> Seq(Messages)]
      BY <1>10, <2>1, TakeMessage, SlotsAre DEF Return, RecvString
    <3>4. QED
      BY <1>0, <1>10, <1>a, <2>1, <3>2, <3>3 DEF Return
  <2>2. CASE ctl[c].cmd # "restart"
    <3>1. Head(box["mtpmountcontroller"]).to \in Controllers \cup {Nil}
      BY <2>0 DEF Messages
    <3>2. QED
      BY <1>10, <1>b, <2>2, <3>1 DEF Return
  <2>3. QED
    BY <2>1, <2>2
<1>11. CASE Kill(c)
  BY <1>11, <1>b DEF Kill, Results
<1>12. QED
  BY <1>1, <1>2, <1>3, <1>4, <1>5, <1>6, <1>7, <1>8, <1>9, <1>10, <1>11 DEF Controller

LEMMA DaemonTypes ==
  ASSUME Types, NEW d \in Daemons, Daemon(d) \/ Use(d)
  PROVE  Types' /\ ctl' = ctl /\ Daemons' = Daemons
<1> USE DEF slots
<1>0. /\ owner \in [Slots -> Controllers \cup Daemons \cup {Nil}]
      /\ box \in [Slots -> Seq(Messages)] /\ ctl \in CtlType /\ dae \in Seq(DaeType)
      /\ unsynced \subseteq Daemons /\ stale \subseteq Controllers \cup Daemons
      /\ dae[d].client \in Controllers \cup {Nil}
  <2>1. dae \in Seq(DaeType) /\ d \in 1 .. Len(dae)
    BY DEF Types, Daemons
  <2>2. dae[d] \in DaeType
    BY <2>1
  <2>3. QED
    BY <2>2 DEF Types, DaeType
<1>a. ASSUME NEW s \in DSteps, Turned(d, s), ctl' = ctl,
             owner' \in [Slots -> Controllers \cup Daemons \cup {Nil}],
             box' \in [Slots -> Seq(Messages)],
             unsynced' \subseteq Daemons, stale' \subseteq Controllers \cup Daemons,
             left' = left \/ (left > 0 /\ left' = left - 1)
      PROVE  Types' /\ ctl' = ctl /\ Daemons' = Daemons
  BY <1>0, <1>a, TypesKept DEF Turned
<1>b. ASSUME NEW s \in DSteps, Turn(d, s) PROVE Turned(d, s)
  BY <1>0, <1>b, TurnTurns
<1>1. CASE ClaimCache(d)
  BY <1>0, <1>1, <1>a, <1>b DEF ClaimCache, Fault, DSteps
<1>2. CASE CreateSlot(d)
  <2>1. CASE CreateMailslot(d, "mtpmountdaemon") /\ Turn(d, "signal")
    <3>1. /\ owner' \in [Slots -> Controllers \cup Daemons \cup {Nil}]
          /\ box' \in [Slots -> Seq(Messages)]
      <4>1. /\ box' \in [Slots -> Seq(Messages)]
            /\ owner' = [owner EXCEPT !["mtpmountdaemon"] = d]
        BY <2>1, CreateMailslotDoes, SlotsAre
      <4>2. QED
        BY <1>0, <4>1
    <3>2. stale' \subseteq Controllers \cup Daemons
      BY <1>0, <1>2 DEF CreateSlot
    <3>3. QED
      BY <1>0, <1>2, <1>a, <1>b, <2>1, <3>1, <3>2 DEF CreateSlot, DSteps
  <2>2. CASE Turn(d, "failed") /\ UNCHANGED <<slots, stale>>
    BY <1>0, <1>2, <1>a, <1>b, <2>2 DEF CreateSlot, DSteps
  <2>3. QED
    BY <1>2, <2>1, <2>2 DEF CreateSlot
<1>3. CASE SignalStartup(d)
  <2>1. [kind |-> "ok", to |-> Nil] \in Messages
    BY DEF Messages
  <2>2. box' \in [Slots -> Seq(Messages)]
    BY <1>3, <2>1, SendStringDoes, SlotsAre DEF SignalStartup
  <2>3. QED
    BY <1>0, <1>3, <1>a, <1>b, <2>2 DEF SignalStartup, DSteps
<1>4. CASE Listen(d)
  <2> DEFINE msg == Head(box["mtpmountdaemon"])
             rest == [box EXCEPT !["mtpmountdaemon"] = Tail(@)]
  <2>1. /\ msg \in Messages /\ rest \in [Slots -> Seq(Messages)]
        /\ DOMAIN rest = Slots
    <3>1. box["mtpmountdaemon"] \in Seq(Messages) /\ box["mtpmountdaemon"] # <<>>
      BY <1>0, <1>4, SlotsAre DEF Listen
    <3>2. msg \in Messages /\ Tail(box["mtpmountdaemon"]) \in Seq(Messages)
      BY <3>1, TailWaiting
    <3>3. QED
      BY <1>0, <3>2
  <2>2. msg.to \in Controllers \cup {Nil}
    BY <2>1 DEF Messages
  <2>3. CASE msg.kind \in {"terminate", "restart"}
    <3>1. /\ Turn(d, "closing")
          /\ box' = IF owner["mtpmountcontroller"] = Nil THEN rest
                    ELSE [rest EXCEPT !["mtpmountcontroller"] =
                            Append(@, [kind |-> "return", to |-> msg.to])]
      BY <1>4, <2>3 DEF Listen
    <3>2. [kind |-> "return", to |-> msg.to] \in Messages
      BY <2>2 DEF Messages
    <3>3. Append(rest["mtpmountcontroller"], [kind |-> "return", to |-> msg.to]) \in Seq(Messages)
      BY <2>1, <3>2, AppendWaiting, SlotsAre
    <3>4. box' \in [Slots -> Seq(Messages)]
      BY <2>1, <3>1, <3>3
    <3>5. QED
      BY <1>0, <1>4, <1>a, <1>b, <3>1, <3>4 DEF Listen, DSteps
  <2>4. CASE msg.kind \notin {"terminate", "restart"}
    <3>1. /\ dae' = [dae EXCEPT ![d].step = "run", ![d].client = msg.to]
          /\ box' = rest
      BY <1>4, <2>4 DEF Listen
    <3>2. Turned(d, "run")
      BY <1>0, <2>2, <3>1, TurnTurns, ZenonT(60) DEF DSteps
    <3>3. QED
      BY <1>0, <1>4, <1>a, <2>1, <3>1, <3>2 DEF Listen, DSteps
  <2>5. QED
    BY <2>3, <2>4
<1>5. CASE RunCommand(d)
  <2>1. [kind |-> "output", to |-> dae[d].client] \in Messages
    BY <1>0 DEF Messages
  <2>2. /\ owner' \in [Slots -> Controllers \cup Daemons \cup {Nil}]
        /\ box' \in [Slots -> Seq(Messages)]
    BY <1>0, <1>5, <2>1, SendStringDoes, CloseHandlesDoes, SlotsAre DEF RunCommand
  <2>3. QED
    BY <1>0, <1>5, <1>a, <1>b, <2>2 DEF RunCommand, Fault, DSteps
<1>6. CASE SendReturn(d)
  <2>1. [kind |-> "return", to |-> dae[d].client] \in Messages
    BY <1>0 DEF Messages
  <2>2. box' \in [Slots -> Seq(Messages)]
    BY <1>6, <2>1, SendStringDoes, SlotsAre DEF SendReturn
  <2>3. Turned(d, "listen")
    BY <1>0, <1>6, TurnTurns DEF SendReturn, DSteps
  <2>4. QED
    BY <1>0, <1>6, <1>a, <2>2, <2>3 DEF SendReturn, DSteps
<1>7. CASE Exit(d)
  BY <1>0, <1>7, <1>a, <1>b, CloseHandlesDoes DEF Exit, DSteps
<1>8. CASE Use(d)
  <2>1. unsynced' \subseteq Daemons /\ UNCHANGED <<slots, ctl, dae, stale, left>> /\ Daemons' = Daemons
    BY <1>0, <1>8 DEF Use, Write, Sync, Daemons
  <2>2. QED
    BY <1>0, <2>1, TypesKept
<1>9. QED
  BY <1>1, <1>2, <1>3, <1>4, <1>5, <1>6, <1>7, <1>8 DEF Daemon

LEMMA ControllerErrands ==
  ASSUME Types, Errands, NEW c \in Controllers, Start(c) \/ Controller(c) \/ Kill(c)
  PROVE  Errands'
<1> DEFINE Keeps(m, s, r) ==
             /\ m = "none" <=> s = "ready"
             /\ s \in {"listen", "spawn", "await"} => m \notin {"terminate", "restart"}
             /\ s \in {"open", "send", "recv"} => m # "revive"
             /\ s # "end" => r \in {"none", "other"}
<1>0. Keeps(ctl[c].cmd, ctl[c].step, ctl[c].result)
  BY DEF Errands
<1>a. ASSUME Keeps(ctl'[c].cmd, ctl'[c].step, ctl'[c].result) PROVE Errands'
  BY <1>a, ControllerTypes DEF Errands
<1>b. ASSUME NEW m, NEW s, NEW r, Moved(c, m, s, r), Keeps(m, s, r) PROVE Errands'
  BY <1>a, <1>b DEF Moved
<1>c. ASSUME (\E r \in Results : Ended(c, r)) \/ (\E b : Done(c, b)), ctl[c].step # "ready"
      PROVE  Errands'
  BY <1>0, <1>b, <1>c, EndedMoves, DoneMoves
<1>1. CASE Start(c)
  <2>1. PICK cmd \in Commands : ctl' = [ctl EXCEPT ![c] = [cmd |-> cmd, step |-> "probe", result |-> "none"]]
    BY <1>1 DEF Start
  <2>2. ctl'[c] = [cmd |-> cmd, step |-> "probe", result |-> "none"]
    BY <2>1 DEF Types, CtlType
  <2>3. cmd # "none"
    BY CommandsAssumption
  <2>4. QED
    BY <1>a, <2>2, <2>3
<1>2. CASE DoesEndpointExist(c)
  <2>1. CASE ctl[c].cmd = "revive" /\ Done(c, c)
    BY <1>2, <1>c, <2>1 DEF DoesEndpointExist, At
  <2>2. CASE ctl[c].cmd # "revive" /\ Go(c, "open")
    BY <1>0, <1>2, <1>b, <2>2, GoMoves DEF DoesEndpointExist, At, CSteps
  <2>3. CASE Go(c, "probing")
    BY <1>0, <1>2, <1>b, <2>3, GoMoves DEF DoesEndpointExist, At, CSteps
  <2>4. QED
    BY <1>2, <2>1, <2>2, <2>3 DEF DoesEndpointExist
<1>3. CASE ProbeClosed(c)
  <2>1. CASE Ended(c, "nodaemon")
    BY <1>3, <1>c, <2>1 DEF ProbeClosed, At, Results
  <2>2. CASE ctl[c].cmd \notin {"terminate", "restart"} /\ Go(c, "listen")
    BY <1>0, <1>3, <1>b, <2>2, GoMoves DEF ProbeClosed, At, CSteps
  <2>3. QED
    BY <1>3, <2>1, <2>2 DEF ProbeClosed
<1>4. CASE ListenForStartup(c)
  <2>1. CASE Ended(c, "aborted")
    BY <1>4, <1>c, <2>1 DEF ListenForStartup, At, Results
  <2>2. CASE Go(c, "spawn")
    BY <1>0, <1>4, <1>b, <2>2, GoMoves DEF ListenForStartup, At, CSteps
  <2>3. QED
    BY <1>4, <2>1, <2>2 DEF ListenForStartup
<1>5. CASE CreateDaemon(c)
  <2>1. CASE Ended(c, "noprocess")
    BY <1>5, <1>c, <2>1 DEF CreateDaemon, At, Results
  <2>2. CASE Go(c, "await")
    BY <1>0, <1>5, <1>b, <2>2, GoMoves DEF CreateDaemon, At, CSteps
  <2>3. QED
    BY <1>5, <2>1, <2>2 DEF CreateDaemon
<1>6. CASE AwaitStartup(c)
  <2>1. CASE Done(c, c)
    BY <1>6, <1>c, <2>1 DEF AwaitStartup, At
  <2>2. CASE ctl[c].cmd # "revive" /\ Go(c, "open")
    BY <1>0, <1>6, <1>b, <2>2, GoMoves DEF AwaitStartup, At, CSteps
  <2>3. QED
    BY <1>6, <2>1, <2>2 DEF AwaitStartup
<1>7. CASE OpenController(c)
  <2>1. CASE Ended(c, "aborted")
    BY <1>7, <1>c, <2>1 DEF OpenController, At, Results
  <2>2. CASE Go(c, "send")
    BY <1>0, <1>7, <1>b, <2>2, GoMoves DEF OpenController, At, CSteps
  <2>3. QED
    BY <1>7, <2>1, <2>2 DEF OpenController
<1>8. CASE SendCommand(c)
  BY <1>0, <1>8, <1>b, GoMoves DEF SendCommand, At, CSteps
<1>9. CASE PrintOutput(c)
  <2>1. PICK r \in {ctl[c].result, "other"} : ctl' = [ctl EXCEPT ![c].result = r]
    BY <1>9 DEF PrintOutput
  <2>2. /\ ctl'[c].cmd = ctl[c].cmd /\ ctl'[c].step = ctl[c].step
        /\ ctl'[c].result = r
    BY <2>1 DEF Types, CtlType
  <2>3. QED
    BY <1>0, <1>a, <2>2
<1>10. CASE Return(c)
  <2>1. CASE ctl[c].cmd = "restart"
    <3>1. PICK r \in {ctl[c].result, "other"} :
            ctl' = [ctl EXCEPT ![c].cmd = "revive", ![c].step = "probe", ![c].result = r]
      BY <1>10, <2>1 DEF Return
    <3>2. ctl'[c].cmd = "revive" /\ ctl'[c].step = "probe" /\ ctl'[c].result = r
      BY <3>1 DEF Types, CtlType
    <3>3. r \in {"none", "other"}
      BY <1>0, <1>10 DEF Return, At
    <3>4. QED
      BY <1>a, <3>2, <3>3
  <2>2. CASE ctl[c].cmd # "restart"
    BY <1>10, <1>c, <2>2 DEF Return, At
  <2>3. QED
    BY <2>1, <2>2
<1>11. CASE Kill(c)
  BY <1>11, <1>c DEF Kill, Results
<1>12. QED
  BY <1>1, <1>2, <1>3, <1>4, <1>5, <1>6, <1>7, <1>8, <1>9, <1>10, <1>11 DEF Controller

-----------------------------------------------------------------------------
(* Who owns the slots.                                                     *)

LEMMA ControllerOwnership ==
  ASSUME Types, Errands, Ownership, NEW c \in Controllers,
         Start(c) \/ Controller(c) \/ Kill(c)
  PROVE  Ownership'
<1> USE DEF slots
<1>0. /\ owner \in [Slots -> Controllers \cup Daemons \cup {Nil}]
      /\ dae \in Seq(DaeType) /\ OwnsSlots(c) /\ Errands' /\ Types'
      /\ \A s \in Slots : owner[s] = Nil => box[s] = <<>>
      /\ \A b \in Controllers \ {c} : ctl'[b] = ctl[b]
  BY ControllerTypes, ControllerErrands DEF Types, Ownership
\* A controller opens and closes slots of its own only.
<1>a. ASSUME UNCHANGED dae, OwnsSlots(c)',
             \A u \in Slots : \/ owner'[u] = owner[u]
                              \/ owner[u] = Nil /\ owner'[u] = c
                              \/ owner[u] = c /\ owner'[u] = Nil,
             \A u \in Slots : owner'[u] = Nil => box'[u] = <<>>
      PROVE  Ownership'
  <2>1. ASSUME NEW b \in Controllers PROVE OwnsSlots(b)'
    <3>1. CASE b = c
      BY <1>a, <3>1
    <3>2. CASE b # c
      <4>1. ctl'[b] = ctl[b] /\ OwnsSlots(b)
        BY <1>0, <3>2 DEF Ownership
      <4>2. \A s \in Slots : owner'[s] = b <=> owner[s] = b
        BY <1>0, <1>a, <3>2, ProcessesDiffer
      <4>3. QED
        BY <4>1, <4>2, SlotsAre DEF OwnsSlots
    <3>3. QED
      BY <3>1, <3>2
  <2>2. ASSUME NEW d \in Daemons'
        PROVE  /\ owner'["mtpmountdaemon"] = d <=> HasDaemonSlot(d)'
               /\ owner'["mtpmountstartup"] # d /\ owner'["mtpmountcontroller"] # d
    <3>1. d \in Daemons /\ d # c /\ d # Nil /\ HasDaemonSlot(d)' = HasDaemonSlot(d)
      BY <1>0, <1>a, <2>2, ProcessesDiffer DEF Daemons, HasDaemonSlot, Running
    <3>2. \A s \in Slots : owner'[s] = d <=> owner[s] = d
      BY <1>a, <3>1
    <3>3. QED
      BY <3>1, <3>2, SlotsAre DEF Ownership
  <2>3. QED
    BY <1>a, <2>1, <2>2 DEF Ownership
\* Steps that leave the owners alone.
<1>b. ASSUME UNCHANGED <<dae, owner>>, NEW m, NEW s, NEW r, Moved(c, m, s, r),
             s \notin {"spawn", "await", "probing"},
             ctl[c].step \notin {"spawn", "await", "probing"},
             (s \in {"send", "recv"} \/ (m = "revive" /\ s # "end"))
               <=> (ctl[c].step \in {"send", "recv"} \/ (ctl[c].cmd = "revive" /\ ctl[c].step # "end")),
             \A t \in Slots : owner[t] = Nil => box'[t] = <<>>
      PROVE  Ownership'
  <2>1. OwnsSlots(c)'
    BY <1>0, <1>b DEF OwnsSlots, Moved
  <2>2. \A u \in Slots : \/ owner'[u] = owner[u]
                         \/ owner[u] = Nil /\ owner'[u] = c
                         \/ owner[u] = c /\ owner'[u] = Nil
    BY <1>b
  <2>3. \A u \in Slots : owner'[u] = Nil => box'[u] = <<>>
    BY <1>b
  <2>4. QED
    BY <1>a, <1>b, <2>1, <2>2, <2>3
\* Steps that create a slot.
<1>c. ASSUME UNCHANGED dae, NEW t \in Slots, CreateMailslot(c, t), NEW s \in CSteps, Go(c, s),
             \/ t = "mtpmountdaemon" /\ ctl[c].step = "probe" /\ s = "probing"
             \/ t = "mtpmountstartup" /\ ctl[c].step = "listen" /\ s = "spawn"
             \/ /\ t = "mtpmountcontroller" /\ ctl[c].step = "open" /\ s = "send"
                /\ ctl[c].cmd # "revive"
      PROVE  Ownership'
  <2>1. /\ owner[t] = Nil /\ owner'[t] = c /\ box'[t] = <<>>
        /\ \A u \in Slots \ {t} : owner'[u] = owner[u] /\ box'[u] = box[u]
    BY <1>c, CreateMailslotDoes
  <2>2. Moved(c, ctl[c].cmd, s, ctl[c].result)
    BY <1>c, GoMoves
  <2>3. OwnsSlots(c)'
    BY <1>0, <1>c, <2>1, <2>2, SlotsAre DEF OwnsSlots, Moved
  <2>4. \A u \in Slots : \/ owner'[u] = owner[u]
                         \/ owner[u] = Nil /\ owner'[u] = c
                         \/ owner[u] = c /\ owner'[u] = Nil
    BY <2>1
  <2>5. \A u \in Slots : owner'[u] = Nil => box'[u] = <<>>
    BY <1>0, <2>1
  <2>6. QED
    BY <1>a, <1>c, <2>3, <2>4, <2>5
\* Steps that close slots.
<1>d. ASSUME UNCHANGED dae, NEW S, CloseHandles(c, S), NEW s, NEW r,
             Moved(c, ctl[c].cmd, s, r),
             \/ s = "end" /\ S = Slots
             \/ s = "end" /\ S = {"mtpmountdaemon"} /\ ctl[c].step = "probing" /\ ctl[c].cmd # "revive"
             \/ s = "listen" /\ S = {"mtpmountdaemon"} /\ ctl[c].step = "probing"
             \/ /\ s = "open" /\ S = {"mtpmountstartup"} /\ ctl[c].step = "await"
                /\ ctl[c].cmd # "revive"
      PROVE  Ownership'
  <2>1. /\ \A t \in Slots : t \in S /\ owner[t] = c => owner'[t] = Nil /\ box'[t] = <<>>
        /\ \A t \in Slots : ~(t \in S /\ owner[t] = c) => owner'[t] = owner[t] /\ box'[t] = box[t]
    BY <1>d, CloseHandlesDoes
  <2>2. c # Nil
    BY ProcessesAssumption
  <2>3. OwnsSlots(c)'
    BY <1>0, <1>d, <2>1, <2>2, SlotsAre DEF OwnsSlots, Moved
  <2>4. \A u \in Slots : \/ owner'[u] = owner[u]
                         \/ owner[u] = Nil /\ owner'[u] = c
                         \/ owner[u] = c /\ owner'[u] = Nil
    BY <2>1
  <2>5. \A u \in Slots : owner'[u] = Nil => box'[u] = <<>>
    BY <1>0, <2>1
  <2>6. QED
    BY <1>a, <1>d, <2>3, <2>4, <2>5
<1>e. ASSUME UNCHANGED dae, CloseHandles(c, Slots),
             (\E r \in Results : Ended(c, r)) \/ (\E b : Done(c, b))
      PROVE  Ownership'
  BY <1>d, <1>e, EndedMoves, DoneMoves
<1>1. CASE Start(c)
  <2>1. PICK cmd \in Commands : ctl' = [ctl EXCEPT ![c] = [cmd |-> cmd, step |-> "probe", result |-> "none"]]
    BY <1>1 DEF Start
  <2>2. ctl'[c] = [cmd |-> cmd, step |-> "probe", result |-> "none"] /\ cmd # "revive"
    BY <2>1, CommandsAssumption DEF Types, CtlType
  <2>3. Moved(c, cmd, "probe", "none")
    BY <1>0, <2>2 DEF Moved, Types
  <2>4. ctl[c].cmd # "revive" /\ ctl[c].step = "ready"
    BY <1>1 DEF Start, At, Errands
  <2>5. QED
    BY <1>0, <1>1, <1>b, <2>2, <2>3, <2>4 DEF Start
<1>2. CASE DoesEndpointExist(c)
  <2>1. CASE ctl[c].cmd = "revive" /\ Done(c, c) /\ CloseHandles(c, Slots)
    BY <1>2, <1>e, <2>1 DEF DoesEndpointExist
  <2>2. CASE ctl[c].cmd # "revive" /\ Go(c, "open") /\ UNCHANGED slots
    <3>1. Moved(c, ctl[c].cmd, "open", ctl[c].result)
      BY <2>2, GoMoves DEF CSteps
    <3>2. QED
      BY <1>0, <1>2, <1>b, <2>2, <3>1 DEF DoesEndpointExist, At
  <2>3. CASE CreateMailslot(c, "mtpmountdaemon") /\ Go(c, "probing")
    BY <1>2, <1>c, <2>3, SlotsAre DEF DoesEndpointExist, At, CSteps
  <2>4. QED
    BY <1>2, <2>1, <2>2, <2>3 DEF DoesEndpointExist
<1>3. CASE ProbeClosed(c)
  <2>1. CASE ctl[c].cmd \in {"terminate", "restart"} /\ Ended(c, "nodaemon")
    BY <1>3, <1>d, <2>1, EndedMoves DEF ProbeClosed, At, Results
  <2>2. CASE Go(c, "listen")
    BY <1>3, <1>d, <2>2, GoMoves DEF ProbeClosed, At, CSteps
  <2>3. QED
    BY <1>3, <2>1, <2>2 DEF ProbeClosed
<1>4. CASE ListenForStartup(c)
  <2>1. CASE Ended(c, "aborted") /\ CloseHandles(c, Slots)
    BY <1>4, <1>e, <2>1 DEF ListenForStartup, Results
  <2>2. CASE CreateMailslot(c, "mtpmountstartup") /\ Go(c, "spawn")
    BY <1>4, <1>c, <2>2, SlotsAre DEF ListenForStartup, At, CSteps
  <2>3. QED
    BY <1>4, <2>1, <2>2 DEF ListenForStartup
<1>5. CASE CreateDaemon(c)
  <2>1. CASE Ended(c, "noprocess") /\ CloseHandles(c, Slots) /\ UNCHANGED dae
    BY <1>5, <1>e, <2>1 DEF CreateDaemon, Results
  <2>2. CASE /\ dae' = Append(dae, [step |-> "boot", client |-> Nil, mounts |-> FALSE])
             /\ Go(c, "await") /\ UNCHANGED slots
    <3>1. Moved(c, ctl[c].cmd, "await", ctl[c].result)
      BY <2>2, GoMoves DEF CSteps
    <3>2. ASSUME NEW b \in Controllers PROVE OwnsSlots(b)'
      <4>1. CASE b = c
        BY <1>0, <1>5, <2>2, <3>1, <4>1 DEF OwnsSlots, Moved, CreateDaemon, At
      <4>2. CASE b # c
        BY <1>0, <2>2, <4>2 DEF OwnsSlots, Ownership
      <4>3. QED
        BY <4>1, <4>2
    <3>3. ASSUME NEW d \in Daemons'
          PROVE  /\ owner'["mtpmountdaemon"] = d <=> HasDaemonSlot(d)'
                 /\ owner'["mtpmountstartup"] # d /\ owner'["mtpmountcontroller"] # d
      <4>1. /\ Len(dae) \in Nat /\ Len(dae') = Len(dae) + 1
            /\ dae'[Len(dae) + 1].step = "boot"
            /\ \A e \in 1 .. Len(dae) : dae'[e] = dae[e]
        BY <1>0, <2>2, AppendProperties
      <4>2. CASE d \in Daemons
        BY <2>2, <4>1, <4>2 DEF Ownership, HasDaemonSlot, Running, Daemons
      <4>3. CASE d = Len(dae) + 1
        <5>1. \A s \in Slots : owner[s] # d
          BY <1>0, <4>1, <4>3, ProcessesAssumption DEF Daemons
        <5>2. ~HasDaemonSlot(d)'
          BY <4>1, <4>3 DEF HasDaemonSlot, Running
        <5>3. QED
          BY <2>2, <5>1, <5>2, SlotsAre
      <4>4. QED
        BY <3>3, <4>1, <4>2, <4>3 DEF Daemons
    <3>4. QED
      BY <1>0, <2>2, <3>2, <3>3 DEF Ownership
  <2>3. QED
    BY <1>5, <2>1, <2>2 DEF CreateDaemon
<1>6. CASE AwaitStartup(c)
  <2>1. CASE Done(c, c) /\ CloseHandles(c, Slots)
    BY <1>6, <1>e, <2>1 DEF AwaitStartup
  <2>2. CASE ctl[c].cmd # "revive" /\ Go(c, "open") /\ CloseHandles(c, {"mtpmountstartup"})
    BY <1>6, <1>d, <2>2, GoMoves DEF AwaitStartup, At, CSteps
  <2>3. QED
    BY <1>6, <2>1, <2>2 DEF AwaitStartup
<1>7. CASE OpenController(c)
  <2>1. CASE Ended(c, "aborted") /\ CloseHandles(c, Slots)
    BY <1>7, <1>e, <2>1 DEF OpenController, Results
  <2>2. CASE CreateMailslot(c, "mtpmountcontroller") /\ Go(c, "send")
    BY <1>7, <1>c, <2>2, SlotsAre DEF OpenController, At, CSteps, Errands
  <2>3. QED
    BY <1>7, <2>1, <2>2 DEF OpenController
<1>8. CASE SendCommand(c)
  <2>1. Moved(c, ctl[c].cmd, "recv", ctl[c].result) /\ ctl[c].step = "send"
    BY <1>8, GoMoves DEF SendCommand, At, CSteps
  <2>2. \A t \in Slots : owner[t] = Nil => box'[t] = box[t]
    BY <1>0, <1>8 DEF SendCommand, SendString, Types
  <2>3. QED
    BY <1>0, <1>8, <1>b, <2>1, <2>2 DEF SendCommand
<1>9. CASE PrintOutput(c)
  <2>1. PICK r \in {ctl[c].result, "other"} : ctl' = [ctl EXCEPT ![c].result = r]
    BY <1>9 DEF PrintOutput
  <2>2. Moved(c, ctl[c].cmd, ctl[c].step, r)
    BY <1>0, <2>1 DEF Types, CtlType, Moved
  <2>3. /\ owner["mtpmountcontroller"] # Nil
        /\ \A t \in Slots \ {"mtpmountcontroller"} : box'[t] = box[t]
    BY <1>0, <1>9, ProcessesAssumption DEF PrintOutput, RecvString, Types
  <2>4. QED
    BY <1>0, <1>9, <1>b, <2>2, <2>3 DEF PrintOutput, At
<1>10. CASE Return(c)
  <2>1. CASE ctl[c].cmd = "restart"
    <3>1. PICK r \in {ctl[c].result, "other"} :
            ctl' = [ctl EXCEPT ![c].cmd = "revive", ![c].step = "probe", ![c].result = r]
      BY <1>10, <2>1 DEF Return
    <3>2. Moved(c, "revive", "probe", r)
      BY <1>0, <3>1 DEF Types, CtlType, Moved
    <3>3. /\ owner' = owner /\ owner["mtpmountcontroller"] # Nil
          /\ \A t \in Slots \ {"mtpmountcontroller"} : box'[t] = box[t]
      BY <1>0, <1>10, <2>1, ProcessesAssumption DEF Return, RecvString, Types
    <3>4. QED
      BY <1>0, <1>10, <1>b, <3>2, <3>3 DEF Return, At
  <2>2. CASE ctl[c].cmd # "restart"
    BY <1>10, <1>e, <2>2 DEF Return
  <2>3. QED
    BY <2>1, <2>2
<1>11. CASE Kill(c)
  BY <1>11, <1>e DEF Kill, Results
<1>12. QED
  BY <1>1, <1>2, <1>3, <1>4, <1>5, <1>6, <1>7, <1>8, <1>9, <1>10, <1>11 DEF Controller

LEMMA DaemonOwnership ==
  ASSUME Types, Ownership, NEW d \in Daemons, Daemon(d) \/ Use(d)
  PROVE  Ownership'
<1> USE DEF slots
<1>0. /\ owner \in [Slots -> Controllers \cup Daemons \cup {Nil}]
      /\ dae \in Seq(DaeType) /\ Types' /\ ctl' = ctl /\ Daemons' = Daemons
      /\ dae[d].client \in Controllers \cup {Nil}
      /\ \A s \in Slots : owner[s] = Nil => box[s] = <<>>
      /\ owner["mtpmountdaemon"] = d <=> HasDaemonSlot(d)
      /\ d # Nil /\ d \notin Controllers
  <2>1. dae \in Seq(DaeType) /\ d \in 1 .. Len(dae)
    BY DEF Types, Daemons
  <2>2. dae[d] \in DaeType
    BY <2>1
  <2>3. QED
    BY <2>1, <2>2, DaemonTypes, ProcessesDiffer DEF Types, DaeType, Ownership
<1>a. ASSUME NEW s \in DSteps, Turned(d, s),
             owner'["mtpmountdaemon"] = d
               <=> s \in {"signal", "listen", "run", "answer", "closing"},
             \A u \in Slots : \/ owner'[u] = owner[u]
                              \/ u = "mtpmountdaemon" /\ owner[u] = Nil /\ owner'[u] = d
                              \/ owner[u] = d /\ owner'[u] = Nil,
             \A u \in Slots : owner'[u] = Nil => box'[u] = <<>>
      PROVE  Ownership'
  <2>1. ASSUME NEW b \in Controllers PROVE OwnsSlots(b)'
    <3>1. \A u \in Slots : owner'[u] = b <=> owner[u] = b
      BY <1>0, <1>a, ProcessesDiffer
    <3>2. QED
      BY <1>0, <3>1, SlotsAre DEF OwnsSlots, Ownership
  <2>2. ASSUME NEW e \in Daemons'
        PROVE  /\ owner'["mtpmountdaemon"] = e <=> HasDaemonSlot(e)'
               /\ owner'["mtpmountstartup"] # e /\ owner'["mtpmountcontroller"] # e
    <3>1. CASE e = d
      <4>1. HasDaemonSlot(d)' <=> s \in {"signal", "listen", "run", "answer", "closing"}
        BY <1>a DEF Turned, HasDaemonSlot, Running
      <4>2. QED
        BY <1>0, <1>a, <3>1, <4>1, SlotsAre DEF Ownership
    <3>2. CASE e # d
      <4>1. e \in Daemons /\ e # Nil /\ dae'[e] = dae[e]
        BY <1>0, <1>a, <3>2, ProcessesDiffer DEF Turned
      <4>2. HasDaemonSlot(e)' = HasDaemonSlot(e)
        BY <4>1 DEF HasDaemonSlot, Running
      <4>3. \A u \in Slots : owner'[u] = e <=> owner[u] = e
        BY <1>a, <3>2, <4>1
      <4>4. QED
        BY <4>1, <4>2, <4>3, SlotsAre DEF Ownership
    <3>3. QED
      BY <3>1, <3>2
  <2>3. QED
    BY <1>a, <2>1, <2>2 DEF Ownership
\* Steps that leave the owners alone.
<1>b. ASSUME NEW s \in DSteps, Turned(d, s), owner' = owner,
             HasDaemonSlot(d) <=> s \in {"signal", "listen", "run", "answer", "closing"},
             \A u \in Slots : owner[u] = Nil => box'[u] = <<>>
      PROVE  Ownership'
  <2>1. \A u \in Slots : \/ owner'[u] = owner[u]
                         \/ u = "mtpmountdaemon" /\ owner[u] = Nil /\ owner'[u] = d
                         \/ owner[u] = d /\ owner'[u] = Nil
    BY <1>b
  <2>2. \A u \in Slots : owner'[u] = Nil => box'[u] = <<>>
    BY <1>b
  <2>3. owner'["mtpmountdaemon"] = d
          <=> s \in {"signal", "listen", "run", "answer", "closing"}
    BY <1>0, <1>b
  <2>4. QED
    BY <1>a, <1>b, <2>1, <2>2, <2>3
\* Steps that end the daemon.
<1>c. ASSUME NEW s \in {"crashed", "exited"}, Turn(d, s), CloseHandles(d, Slots)
      PROVE  Ownership'
  <2>1. /\ \A u \in Slots : owner[u] = d => owner'[u] = Nil /\ box'[u] = <<>>
        /\ \A u \in Slots : owner[u] # d => owner'[u] = owner[u] /\ box'[u] = box[u]
    BY <1>c, CloseHandlesDoes
  <2>2. \A u \in Slots : \/ owner'[u] = owner[u]
                         \/ u = "mtpmountdaemon" /\ owner[u] = Nil /\ owner'[u] = d
                         \/ owner[u] = d /\ owner'[u] = Nil
    BY <2>1
  <2>3. \A u \in Slots : owner'[u] = Nil => box'[u] = <<>>
    BY <1>0, <2>1
  <2>4. Turned(d, s) /\ s \in DSteps
    <3>1. s \in DSteps
      BY DEF DSteps
    <3>2. QED
      BY <1>0, <1>c, <3>1, TurnTurns
  <2>5. owner'["mtpmountdaemon"] # d
    BY <1>0, <2>1, SlotsAre
  <2>6. owner'["mtpmountdaemon"] = d
          <=> s \in {"signal", "listen", "run", "answer", "closing"}
    BY <2>5
  <2>7. QED
    BY <1>a, <2>2, <2>3, <2>4, <2>6
<1>d. ASSUME NEW s \in DSteps, Turn(d, s) PROVE Turned(d, s)
  BY <1>0, <1>d, TurnTurns
<1>1. CASE ClaimCache(d)
  <2>1. \E s \in {"create", "failed"} : Turn(d, s)
    BY <1>1 DEF ClaimCache
  <2>2. UNCHANGED slots /\ ~HasDaemonSlot(d)
    BY <1>1 DEF ClaimCache, Does, HasDaemonSlot, Running
  <2>3. QED
    BY <1>0, <1>b, <1>d, <2>1, <2>2 DEF DSteps
<1>2. CASE CreateSlot(d)
  <2>1. CASE CreateMailslot(d, "mtpmountdaemon") /\ Turn(d, "signal")
    <3>1. /\ owner["mtpmountdaemon"] = Nil /\ owner'["mtpmountdaemon"] = d
          /\ box'["mtpmountdaemon"] = <<>>
          /\ \A t \in Slots \ {"mtpmountdaemon"} : owner'[t] = owner[t] /\ box'[t] = box[t]
      BY <2>1, CreateMailslotDoes, SlotsAre
    <3>2. \A u \in Slots : \/ owner'[u] = owner[u]
                           \/ u = "mtpmountdaemon" /\ owner[u] = Nil /\ owner'[u] = d
                           \/ owner[u] = d /\ owner'[u] = Nil
      BY <3>1
    <3>3. \A u \in Slots : owner'[u] = Nil => box'[u] = <<>>
      BY <1>0, <3>1
    <3>4. Turned(d, "signal") /\ "signal" \in DSteps
      BY <1>d, <2>1 DEF DSteps
    <3>5. QED
      BY <1>a, <3>1, <3>2, <3>3, <3>4
  <2>2. CASE Turn(d, "failed") /\ UNCHANGED slots
    BY <1>0, <1>2, <1>b, <1>d, <2>2 DEF CreateSlot, Does, HasDaemonSlot, Running, DSteps
  <2>3. QED
    BY <1>2, <2>1, <2>2 DEF CreateSlot
<1>3. CASE SignalStartup(d)
  <2>1. \A u \in Slots : owner[u] = Nil => box'[u] = <<>>
    BY <1>0, <1>3 DEF SignalStartup, SendString, Types
  <2>2. HasDaemonSlot(d) /\ owner' = owner /\ Turn(d, "listen")
    BY <1>3 DEF SignalStartup, Does, HasDaemonSlot, Running
  <2>3. QED
    BY <1>b, <1>d, <2>1, <2>2 DEF DSteps
<1>4. CASE Listen(d)
  <2> DEFINE msg == Head(box["mtpmountdaemon"])
  <2>1. \A u \in Slots : owner[u] = Nil => box'[u] = <<>>
    BY <1>0, <1>4 DEF Listen, Types
  <2>2. HasDaemonSlot(d) /\ owner' = owner
    BY <1>4 DEF Listen, Does, HasDaemonSlot, Running
  <2>3. Turned(d, "closing") \/ Turned(d, "run")
    <3>1. CASE Turn(d, "closing")
      BY <1>d, <3>1 DEF DSteps
    <3>2. CASE dae' = [dae EXCEPT ![d].step = "run", ![d].client = msg.to]
      <4>1. msg \in Messages
        <5>1. box["mtpmountdaemon"] \in Seq(Messages) /\ box["mtpmountdaemon"] # <<>>
          BY <1>0, <1>4, SlotsAre DEF Listen, Types
        <5>2. QED
          BY <5>1, TailWaiting
      <4>2. msg.to \in Controllers \cup {Nil}
        BY <4>1 DEF Messages
      <4>3. QED
        BY <1>0, <3>2, <4>2, TurnTurns, ZenonT(60) DEF DSteps
    <3>3. QED
      BY <1>4, <3>1, <3>2 DEF Listen
  <2>4. QED
    BY <1>b, <2>1, <2>2, <2>3 DEF DSteps
<1>5. CASE RunCommand(d)
  <2>1. CASE Turn(d, "crashed") /\ CloseHandles(d, Slots)
    BY <1>c, <2>1
  <2>2. CASE /\ Turn(d, "answer") /\ owner' = owner
             /\ SendString([kind |-> "output", to |-> dae[d].client], "mtpmountcontroller")
    <3>1. \A u \in Slots : owner[u] = Nil => box'[u] = <<>>
      BY <1>0, <2>2 DEF SendString, Types
    <3>2. HasDaemonSlot(d)
      BY <1>5 DEF RunCommand, Does, HasDaemonSlot, Running
    <3>3. QED
      BY <1>b, <1>d, <2>2, <3>1, <3>2 DEF DSteps
  <2>3. QED
    BY <1>5, <2>1, <2>2 DEF RunCommand
<1>6. CASE SendReturn(d)
  <2>1. \A u \in Slots : owner[u] = Nil => box'[u] = <<>>
    BY <1>0, <1>6 DEF SendReturn, SendString, Types
  <2>2. HasDaemonSlot(d) /\ owner' = owner
    BY <1>6 DEF SendReturn, Does, HasDaemonSlot, Running
  <2>3. Turned(d, "listen")
    BY <1>0, <1>6, TurnTurns DEF SendReturn, DSteps
  <2>4. QED
    BY <1>b, <2>1, <2>2, <2>3 DEF DSteps
<1>7. CASE Exit(d)
  BY <1>7, <1>c DEF Exit
<1>8. CASE Use(d)
  <2>1. UNCHANGED <<owner, box, ctl, dae>>
    BY <1>8 DEF Use
  <2>2. QED
    BY <2>1 DEF Ownership, OwnsSlots, HasDaemonSlot, Running, Daemons
<1>9. QED
  BY <1>1, <1>2, <1>3, <1>4, <1>5, <1>6, <1>7, <1>8 DEF Daemon

-----------------------------------------------------------------------------
(* How many daemons there are.                                             *)

LEMMA FewDaemonsStep ==
  ASSUME Types, Errands, FewDaemons, Next
  PROVE  FewDaemons'
<1>0. /\ ctl \in CtlType /\ dae \in Seq(DaeType) /\ Types'
      /\ IsFiniteSet(Controllers) /\ Spent \subseteq Controllers /\ Spent' \subseteq Controllers
  BY ProcessesAssumption, ControllerTypes, DaemonTypes DEF Types, Next, Spent
<1>1. IsFiniteSet(Spent) /\ IsFiniteSet(Spent') /\ Cardinality(Spent) \in Nat
  BY <1>0, FS_Subset, FS_CardinalityType
<1>2. ASSUME NEW c \in Controllers, Start(c) \/ Controller(c) \/ Kill(c)
      PROVE  FewDaemons'
  <2>0. \A b \in Controllers \ {c} : ctl'[b] = ctl[b]
    BY <1>2, ControllerTypes
  <2>1. c \in Spent => c \in Spent'
    <3> SUFFICES ASSUME c \in Spent PROVE c \in Spent'
      OBVIOUS
    <3>1. \/ ctl[c].step \in {"await", "open", "send", "recv"} /\ ctl[c].cmd # "restart"
          \/ ctl[c].step = "end"
      BY DEF Spent
    <3>a. ASSUME NEW m, NEW s, NEW r, Moved(c, m, s, r),
                 s = "end" \/ (s \in {"await", "open", "send", "recv"} /\ m # "restart")
          PROVE  c \in Spent'
      BY <3>a DEF Moved, Spent
    <3>b. ASSUME (\E r \in Results : Ended(c, r)) \/ (\E b : Done(c, b)) PROVE c \in Spent'
      BY <3>a, <3>b, EndedMoves, DoneMoves
    <3>2. CASE AwaitStartup(c)
      <4>1. CASE Done(c, c)
        BY <3>b, <4>1
      <4>2. CASE Go(c, "open")
        BY <3>1, <3>2, <3>a, <4>2, GoMoves DEF AwaitStartup, At, CSteps
      <4>3. QED
        BY <3>2, <4>1, <4>2 DEF AwaitStartup
    <3>3. CASE OpenController(c)
      <4>1. CASE Ended(c, "aborted")
        BY <3>b, <4>1 DEF Results
      <4>2. CASE Go(c, "send")
        BY <3>1, <3>3, <3>a, <4>2, GoMoves DEF OpenController, At, CSteps
      <4>3. QED
        BY <3>3, <4>1, <4>2 DEF OpenController
    <3>4. CASE SendCommand(c)
      BY <3>1, <3>4, <3>a, GoMoves DEF SendCommand, At, CSteps
    <3>5. CASE PrintOutput(c)
      <4>1. PICK r \in {ctl[c].result, "other"} : ctl' = [ctl EXCEPT ![c].result = r]
        BY <3>5 DEF PrintOutput
      <4>2. ctl'[c].cmd = ctl[c].cmd /\ ctl'[c].step = ctl[c].step
        BY <1>0, <4>1 DEF CtlType
      <4>3. QED
        BY <3>1, <4>2 DEF Spent
    <3>6. CASE Return(c)
      <4>1. Done(c, Head(box["mtpmountcontroller"]).to)
        BY <3>1, <3>6 DEF Return, At
      <4>2. QED
        BY <3>b, <4>1
    <3>7. CASE Kill(c)
      BY <3>7, <3>b DEF Kill, Results
    <3>8. QED
      BY <1>2, <3>1, <3>2, <3>3, <3>4, <3>5, <3>6, <3>7
      DEF Controller, Start, DoesEndpointExist, ProbeClosed, ListenForStartup, CreateDaemon, At
  <2>2. Spent \subseteq Spent'
    BY <2>0, <2>1 DEF Spent
  <2>3. Cardinality(Spent) <= Cardinality(Spent')
    BY <1>1, <2>2, FS_Subset
  <2>4. Cardinality(Spent') \in Nat /\ Len(dae) \in Nat
    BY <1>0, <1>1, FS_CardinalityType
  <2>5. CASE Len(dae') = Len(dae)
    BY <1>1, <2>3, <2>4, <2>5 DEF FewDaemons
  <2>6. CASE /\ CreateDaemon(c)
             /\ dae' = Append(dae, [step |-> "boot", client |-> Nil, mounts |-> FALSE])
             /\ Go(c, "await")
    <3>1. c \notin Spent
      BY <2>6 DEF Spent, CreateDaemon, At
    <3>2. c \in Spent'
      <4>1. Moved(c, ctl[c].cmd, "await", ctl[c].result)
        BY <2>6, GoMoves DEF CSteps
      <4>2. ctl[c].cmd # "restart"
        BY <2>6 DEF CreateDaemon, At, Errands
      <4>3. QED
        BY <4>1, <4>2 DEF Moved, Spent
    <3>3. Cardinality(Spent \cup {c}) = Cardinality(Spent) + 1
      BY <1>1, <3>1, FS_AddElement
    <3>4. Cardinality(Spent \cup {c}) <= Cardinality(Spent')
      BY <1>1, <2>2, <3>2, FS_Subset
    <3>5. Len(dae') = Len(dae) + 1
      BY <1>0, <2>6, AppendProperties DEF Types
    <3>6. QED
      BY <1>1, <2>4, <3>3, <3>4, <3>5 DEF FewDaemons
  <2>7. QED
    BY <1>2, <2>5, <2>6
    DEF Controller, Start, DoesEndpointExist, ProbeClosed, ListenForStartup, CreateDaemon,
        AwaitStartup, OpenController, SendCommand, PrintOutput, Return, Kill
<1>3. ASSUME NEW d \in Daemons, Daemon(d) \/ Use(d) PROVE FewDaemons'
  <2>1. ctl' = ctl /\ Daemons' = Daemons /\ dae' \in Seq(DaeType)
    BY <1>3, DaemonTypes DEF Types
  <2>2. Len(dae') = Len(dae)
    <3>1. Len(dae) \in Nat /\ Len(dae') \in Nat /\ 1 .. Len(dae') = 1 .. Len(dae)
      BY <1>0, <2>1 DEF Daemons
    <3>2. Len(dae) \in 1 .. Len(dae) /\ (Len(dae') = 0 \/ Len(dae') \in 1 .. Len(dae'))
      BY <1>3, <3>1 DEF Daemons
    <3>3. QED
      BY <3>1, <3>2
  <2>3. Spent' = Spent
    BY <2>1 DEF Spent
  <2>4. QED
    BY <2>2, <2>3 DEF FewDaemons
<1>4. QED
  BY <1>2, <1>3 DEF Next

-----------------------------------------------------------------------------
(* Late starters.                                                          *)

LEMMA ControllerLate ==
  ASSUME Types, Errands, Ownership, LateIsStale, NEW c \in Controllers,
         Start(c) \/ Controller(c) \/ Kill(c)
  PROVE  LateIsStale'
<1> USE DEF slots
<1>0. /\ dae \in Seq(DaeType) /\ Len(dae) \in Nat
      /\ \A b \in Controllers \ {c} : ctl'[b] = ctl[b]
      /\ \A d \in Daemons : d # c /\ d # Nil
  BY ControllerTypes, ProcessesDiffer DEF Types
<1>1. stale \ {c} \subseteq stale'
  BY DEF Controller, Start, DoesEndpointExist, ProbeClosed, ListenForStartup, CreateDaemon,
     AwaitStartup, OpenController, SendCommand, PrintOutput, Return, Kill
<1>2. \/ dae' = dae
      \/ /\ CreateDaemon(c) /\ Go(c, "await")
         /\ dae' = Append(dae, [step |-> "boot", client |-> Nil, mounts |-> FALSE])
         /\ stale' = IF c \in stale THEN stale \cup {Len(dae) + 1} ELSE stale
  BY DEF Controller, Start, DoesEndpointExist, ProbeClosed, ListenForStartup, CreateDaemon,
     AwaitStartup, OpenController, SendCommand, PrintOutput, Return, Kill
<1>3. \A d \in Daemons' : \/ d \in Daemons /\ dae'[d] = dae[d]
                         \/ /\ d = Len(dae) + 1 /\ dae'[d].step = "boot"
                            /\ CreateDaemon(c) /\ Go(c, "await")
                            /\ stale' = IF c \in stale THEN stale \cup {d} ELSE stale
  <2>1. CASE dae' = dae
    BY <2>1 DEF Daemons
  <2>2. CASE /\ CreateDaemon(c) /\ Go(c, "await")
             /\ dae' = Append(dae, [step |-> "boot", client |-> Nil, mounts |-> FALSE])
             /\ stale' = IF c \in stale THEN stale \cup {Len(dae) + 1} ELSE stale
    <3>1. /\ Len(dae') = Len(dae) + 1 /\ dae'[Len(dae) + 1].step = "boot"
          /\ \A e \in 1 .. Len(dae) : dae'[e] = dae[e]
      BY <1>0, <2>2, AppendProperties
    <3>2. \A e \in Daemons' : (e \in Daemons /\ dae'[e] = dae[e]) \/ e = Len(dae) + 1
      BY <1>0, <3>1 DEF Daemons
    <3>3. QED
      BY <2>2, <3>1, <3>2
  <2>3. QED
    BY <1>2, <2>1, <2>2
<1> SUFFICES ASSUME \E d \in Daemons' : HasDaemonSlot(d)'
             PROVE  /\ \A b \in Controllers : ctl'[b].step \in {"probing", "listen", "spawn"} => b \in stale'
                    /\ \A e \in Daemons' : dae'[e].step \in {"boot", "create"} => e \in stale'
  BY DEF LateIsStale
<1>4. PICK d \in Daemons : HasDaemonSlot(d)
  BY <1>3 DEF HasDaemonSlot, Running
<1>5. /\ owner["mtpmountdaemon"] = d /\ d # Nil
      /\ \A b \in Controllers : ctl[b].step \in {"probing", "listen", "spawn"} => b \in stale
      /\ \A e \in Daemons : dae[e].step \in {"boot", "create"} => e \in stale
  BY <1>0, <1>4 DEF LateIsStale, Ownership
<1>6. ctl'[c].step \in {"probing", "listen", "spawn"} => c \in stale'
  <2>a. ASSUME NEW m, NEW s, NEW r, Moved(c, m, s, r), s \notin {"probing", "listen", "spawn"}
        PROVE  ctl'[c].step \notin {"probing", "listen", "spawn"}
    BY <2>a DEF Moved
  <2>b. ASSUME (\E r \in Results : Ended(c, r)) \/ (\E b : Done(c, b))
        PROVE  ctl'[c].step \notin {"probing", "listen", "spawn"}
    BY <2>a, <2>b, EndedMoves, DoneMoves
  <2>c. ASSUME NEW s \in {"open", "send", "recv", "await"}, Go(c, s)
        PROVE  ctl'[c].step \notin {"probing", "listen", "spawn"}
    <3>1. s \in CSteps /\ s \notin {"probing", "listen", "spawn"}
      BY DEF CSteps
    <3>2. QED
      BY <2>a, <2>c, <3>1, GoMoves
  <2>1. CASE Start(c)
    BY <2>1 DEF Start, Types, CtlType
  <2>2. CASE DoesEndpointExist(c)
    BY <1>5, <2>2, <2>b, <2>c DEF DoesEndpointExist, CreateMailslot
  <2>3. CASE ProbeClosed(c) \/ ListenForStartup(c)
    <3>1. ctl[c].step \in {"probing", "listen", "spawn"} /\ stale' = stale
      BY <2>3 DEF ProbeClosed, ListenForStartup, At
    <3>2. QED
      BY <1>5, <3>1
  <2>4. CASE CreateDaemon(c) \/ AwaitStartup(c) \/ OpenController(c) \/ SendCommand(c)
    BY <2>4, <2>b, <2>c DEF CreateDaemon, AwaitStartup, OpenController, SendCommand, Results
  <2>5. CASE PrintOutput(c)
    <3>1. PICK r \in {ctl[c].result, "other"} : ctl' = [ctl EXCEPT ![c].result = r]
      BY <2>5 DEF PrintOutput
    <3>2. ctl'[c].step = "recv"
      BY <2>5, <3>1 DEF PrintOutput, At, Types, CtlType
    <3>3. QED
      BY <3>2
  <2>6. CASE Return(c)
    <3>1. CASE ctl[c].cmd = "restart"
      <4>1. PICK r \in {ctl[c].result, "other"} :
              ctl' = [ctl EXCEPT ![c].cmd = "revive", ![c].step = "probe", ![c].result = r]
        BY <2>6, <3>1 DEF Return
      <4>2. ctl'[c].step = "probe"
        BY <4>1 DEF Types, CtlType
      <4>3. QED
        BY <4>2
    <3>2. CASE ctl[c].cmd # "restart"
      BY <2>6, <2>b, <3>2 DEF Return
    <3>3. QED
      BY <3>1, <3>2
  <2>7. CASE Kill(c)
    BY <2>7, <2>b DEF Kill, Results
  <2>8. QED
    BY <2>1, <2>2, <2>3, <2>4, <2>5, <2>6, <2>7 DEF Controller
<1>7. ASSUME NEW e \in Daemons', dae'[e].step \in {"boot", "create"} PROVE e \in stale'
  <2>1. CASE e \in Daemons /\ dae'[e] = dae[e]
    BY <1>0, <1>1, <1>5, <1>7, <2>1
  <2>2. CASE /\ CreateDaemon(c)
             /\ stale' = IF c \in stale THEN stale \cup {e} ELSE stale
    BY <1>5, <2>2 DEF CreateDaemon, At
  <2>3. QED
    BY <1>3, <2>1, <2>2
<1>8. QED
  BY <1>0, <1>1, <1>5, <1>6, <1>7

LEMMA DaemonLate ==
  ASSUME Types, Ownership, LateIsStale, NEW d \in Daemons, Daemon(d) \/ Use(d)
  PROVE  LateIsStale'
<1>0. dae \in Seq(DaeType) /\ ctl' = ctl /\ Daemons' = Daemons
  BY DaemonTypes DEF Types
<1>a. ASSUME stale' = stale, dae' = dae PROVE LateIsStale'
  BY <1>0, <1>a DEF LateIsStale, HasDaemonSlot, Running
<1>b. ASSUME NEW s \in DSteps, Turned(d, s), stale' = stale,
             s \in {"signal", "listen", "run", "answer", "closing"} => HasDaemonSlot(d),
             s \in {"boot", "create"} => dae[d].step \in {"boot", "create"}
      PROVE  LateIsStale'
  <2>1. HasDaemonSlot(d)' => HasDaemonSlot(d)
    BY <1>b DEF Turned, HasDaemonSlot, Running
  <2>2. \A e \in Daemons \ {d} : dae'[e] = dae[e] /\ HasDaemonSlot(e)' = HasDaemonSlot(e)
    BY <1>b DEF Turned, HasDaemonSlot, Running
  <2>3. \A e \in Daemons : dae'[e].step \in {"boot", "create"} => dae[e].step \in {"boot", "create"}
    BY <1>b, <2>2 DEF Turned
  <2>4. (\E e \in Daemons : HasDaemonSlot(e)') => \E e \in Daemons : HasDaemonSlot(e)
    BY <2>1, <2>2
  <2> SUFFICES ASSUME \E e \in Daemons' : HasDaemonSlot(e)'
               PROVE  /\ \A c \in Controllers : ctl'[c].step \in {"probing", "listen", "spawn"} => c \in stale'
                      /\ \A e \in Daemons' : dae'[e].step \in {"boot", "create"} => e \in stale'
    BY DEF LateIsStale
  <2>5. \E e \in Daemons : HasDaemonSlot(e)
    BY <1>0, <2>4
  <2>6. /\ \A c \in Controllers : ctl[c].step \in {"probing", "listen", "spawn"} => c \in stale
        /\ \A e \in Daemons : dae[e].step \in {"boot", "create"} => e \in stale
    BY <2>5 DEF LateIsStale
  <2>7. QED
    BY <1>0, <1>b, <2>3, <2>6
<1>c. ASSUME NEW s \in DSteps, Turn(d, s) PROVE Turned(d, s)
  BY <1>c, TurnOnly
<1>1. CASE ClaimCache(d)
  BY <1>1, <1>b, <1>c DEF ClaimCache, Does, DSteps
<1>2. CASE CreateSlot(d)
  <2>1. CASE /\ Turn(d, "signal")
             /\ stale' = stale \cup {c \in Controllers : ctl[c].step \in {"probing", "listen", "spawn"}}
                              \cup {e \in Daemons \ {d} : dae[e].step \in {"boot", "create"}}
    <3>1. Turned(d, "signal")
      BY <1>c, <2>1 DEF DSteps
    <3>2. \A e \in Daemons : dae'[e].step \in {"boot", "create"} => e \in stale'
      BY <2>1, <3>1 DEF Turned
    <3>3. QED
      BY <1>0, <2>1, <3>2 DEF LateIsStale
  <2>2. CASE Turn(d, "failed") /\ stale' = stale
    BY <1>b, <1>c, <2>2 DEF DSteps
  <2>3. QED
    BY <1>2, <2>1, <2>2 DEF CreateSlot
<1>3. CASE SignalStartup(d)
  BY <1>3, <1>b, <1>c DEF SignalStartup, Does, DSteps, HasDaemonSlot, Running
<1>4. CASE Listen(d)
  <2> DEFINE msg == Head(box["mtpmountdaemon"])
  <2>1. HasDaemonSlot(d) /\ stale' = stale
    BY <1>4 DEF Listen, Does, HasDaemonSlot, Running
  <2>2. Turned(d, "closing") \/ Turned(d, "run")
    BY <1>4, ListenTurns
  <2>3. QED
    BY <1>b, <2>1, <2>2 DEF DSteps
<1>5. CASE RunCommand(d)
  BY <1>5, <1>b, <1>c DEF RunCommand, Does, DSteps, HasDaemonSlot, Running
<1>6. CASE SendReturn(d)
  <2>1. Turned(d, "listen")
    BY <1>6, SendReturnTurns
  <2>2. QED
    BY <1>6, <1>b, <2>1 DEF SendReturn, Does, DSteps, HasDaemonSlot, Running
<1>7. CASE Exit(d)
  BY <1>7, <1>b, <1>c DEF Exit, Does, DSteps
<1>8. CASE Use(d)
  BY <1>8, <1>a DEF Use
<1>9. QED
  BY <1>1, <1>2, <1>3, <1>4, <1>5, <1>6, <1>7, <1>8 DEF Daemon

-----------------------------------------------------------------------------
(* Where commands are dropped.                                             *)

\* Nothing that went wrong is forgotten.
LEMMA TroubleStays == ASSUME Next PROVE trouble \subseteq trouble'
<1>1. ASSUME NEW c \in Controllers, Start(c) \/ Controller(c) \/ Kill(c)
      PROVE  trouble \subseteq trouble'
  BY <1>1 DEF Controller, Start, DoesEndpointExist, ProbeClosed, ListenForStartup, CreateDaemon,
     AwaitStartup, OpenController, SendCommand, PrintOutput, Return, Kill, Note, Fault
<1>2. ASSUME NEW d \in Daemons, Daemon(d) \/ Use(d) PROVE trouble \subseteq trouble'
  BY <1>2 DEF Daemon, Use, ClaimCache, CreateSlot, SignalStartup, Listen, RunCommand,
     SendReturn, Exit, Note, Fault
<1>3. QED
  BY <1>1, <1>2 DEF Next

\* A daemon that ran or is gone is running or gone ever after.
LEMMA DaemonsStay ==
  ASSUME Types, Next
  PROVE  FoundOne => FoundOne'
<1> SUFFICES ASSUME FoundOne, "misled" \notin trouble PROVE FoundOne'
  BY TroubleStays DEF FoundOne
<1>0. dae \in Seq(DaeType) /\ Len(dae) \in Nat
  BY DEF Types
<1>1. PICK d \in Daemons : Running(d) \/ Gone(d)
  BY DEF FoundOne
<1>2. d \in Daemons' /\ (Running(d)' \/ Gone(d)')
  <2>1. ASSUME NEW c \in Controllers, Start(c) \/ Controller(c) \/ Kill(c)
        PROVE  d \in Daemons' /\ (Running(d)' \/ Gone(d)')
    <3>1. dae' = dae \/ dae' = Append(dae, [step |-> "boot", client |-> Nil, mounts |-> FALSE])
      BY <2>1 DEF Controller, Start, DoesEndpointExist, ProbeClosed, ListenForStartup,
         CreateDaemon, AwaitStartup, OpenController, SendCommand, PrintOutput, Return, Kill, slots
    <3>2. dae'[d] = dae[d] /\ d \in Daemons'
      <4>1. CASE dae' = dae
        BY <4>1 DEF Daemons
      <4>2. CASE dae' = Append(dae, [step |-> "boot", client |-> Nil, mounts |-> FALSE])
        BY <1>0, <4>2, AppendProperties DEF Daemons
      <4>3. QED
        BY <3>1, <4>1, <4>2
    <3>3. QED
      BY <1>1, <3>2 DEF Running, Gone
  <2>2. ASSUME NEW e \in Daemons, Daemon(e) \/ Use(e)
        PROVE  d \in Daemons' /\ (Running(d)' \/ Gone(d)')
    <3> SUFFICES Running(d)' \/ Gone(d)'
      BY <2>2, DaemonTypes
    <3>a. ASSUME NEW s \in DSteps, Turned(e, s),
                 \/ s \in {"listen", "run", "answer", "closing", "exited", "crashed"}
                 \/ dae[e].step \in {"boot", "create"}
          PROVE  Running(d)' \/ Gone(d)'
      <4>1. CASE d = e
        BY <1>1, <3>a, <4>1 DEF Turned, Running, Gone
      <4>2. CASE d # e
        BY <1>1, <3>a, <4>2 DEF Turned, Running, Gone
      <4>3. QED
        BY <4>1, <4>2
    <3>b. ASSUME NEW s \in DSteps, Turn(e, s) PROVE Turned(e, s)
      BY <3>b, TurnOnly
    <3>1. CASE ClaimCache(e) \/ CreateSlot(e)
      <4>1. PICK s \in {"create", "failed", "signal"} : Turn(e, s)
        BY <3>1 DEF ClaimCache, CreateSlot
      <4>2. s \in DSteps /\ dae[e].step \in {"boot", "create"}
        BY <3>1 DEF ClaimCache, CreateSlot, Does, DSteps
      <4>3. QED
        BY <3>a, <3>b, <4>1, <4>2
    <3>2. CASE SignalStartup(e) \/ RunCommand(e) \/ Exit(e)
      BY <3>2, <3>a, <3>b DEF SignalStartup, RunCommand, Exit, DSteps
    <3>3. CASE Listen(e) \/ SendReturn(e)
      <4>1. Turned(e, "closing") \/ Turned(e, "run") \/ Turned(e, "listen")
        BY <3>3, ListenTurns, SendReturnTurns
      <4>2. QED
        BY <3>a, <4>1 DEF DSteps
    <3>4. CASE Use(e)
      BY <1>1, <3>4 DEF Use, Running, Gone
    <3>5. QED
      BY <2>2, <3>1, <3>2, <3>3, <3>4 DEF Daemon
  <2>3. QED
    BY <2>1, <2>2 DEF Next
<1>3. QED
  BY <1>2 DEF FoundOne

LEMMA FoundStep ==
  ASSUME Types, Errands, Ownership, Found => FoundOne, Next
  PROVE  Found' => FoundOne'
<1> USE DEF slots
<1> SUFFICES ASSUME ~Found PROVE ~Found' \/ FoundOne'
  BY DaemonsStay
<1>0. /\ dae \in Seq(DaeType) /\ ctl \in CtlType
      /\ box["mtpmountdaemon"] = <<>> /\ box["mtpmountstartup"] = <<>>
      /\ \A c \in Controllers : ctl[c].step \notin {"open", "send"}
      /\ owner \in [Slots -> Controllers \cup Daemons \cup {Nil}]
  BY DEF Types, Found
<1>1. ASSUME NEW c \in Controllers, Start(c) \/ Controller(c) \/ Kill(c)
      PROVE  ~Found' \/ FoundOne'
  <2>0. \A b \in Controllers \ {c} : ctl'[b] = ctl[b]
    BY <1>1, ControllerTypes
  <2>a. ASSUME ctl'[c].step \notin {"open", "send"},
               \A s \in {"mtpmountdaemon", "mtpmountstartup"} : box'[s] = box[s] \/ box'[s] = <<>>
        PROVE  ~Found'
    BY <1>0, <2>0, <2>a DEF Found
  <2>b. ASSUME (\E r \in Results : Ended(c, r)) \/ (\E b : Done(c, b))
               \/ \E s \in {"probing", "listen", "spawn", "await"} : Go(c, s)
        PROVE  ctl'[c].step \notin {"open", "send"}
    <3>1. \A s \in {"probing", "listen", "spawn", "await"} : s \in CSteps /\ s \notin {"open", "send"}
      BY DEF CSteps
    <3>2. QED
      BY <2>b, <3>1, GoMoves, EndedMoves, DoneMoves DEF Moved
  <2>c. ASSUME NEW S, CloseHandles(c, S)
        PROVE  \A s \in {"mtpmountdaemon", "mtpmountstartup"} : box'[s] = box[s] \/ box'[s] = <<>>
    BY <2>c, CloseHandlesDoes, SlotsAre
  <2>1. CASE Start(c)
    <3>1. ctl'[c].step = "probe" /\ box' = box
      BY <1>0, <2>1 DEF Start, CtlType
    <3>2. QED
      BY <2>a, <3>1
  <2>2. CASE DoesEndpointExist(c)
    <3>1. CASE owner["mtpmountdaemon"] # Nil
      <4>1. CASE owner["mtpmountdaemon"] \in Controllers
        BY <2>2, <4>1 DEF DoesEndpointExist, Note, FoundOne
      <4>2. CASE owner["mtpmountdaemon"] \in Daemons
        <5>1. PICK d \in Daemons : owner["mtpmountdaemon"] = d
          BY <4>2
        <5>2. Running(d) \/ Gone(d)
          BY <5>1 DEF Ownership, HasDaemonSlot, Gone
        <5>3. QED
          BY <1>1, <5>2, DaemonsStay DEF FoundOne, Next
      <4>3. QED
        BY <1>0, <3>1, <4>1, <4>2, SlotsAre
    <3>2. CASE CreateMailslot(c, "mtpmountdaemon") /\ Go(c, "probing")
      <4>1. box'["mtpmountdaemon"] = <<>> /\ box'["mtpmountstartup"] = box["mtpmountstartup"]
        BY <3>2, CreateMailslotDoes, SlotsAre
      <4>2. QED
        BY <2>a, <2>b, <3>2, <4>1
    <3>3. QED
      BY <2>2, <3>1, <3>2 DEF DoesEndpointExist
  <2>3. CASE ProbeClosed(c)
    BY <2>3, <2>a, <2>b, <2>c DEF ProbeClosed, Results
  <2>4. CASE ListenForStartup(c)
    <3>1. CASE CreateMailslot(c, "mtpmountstartup") /\ Go(c, "spawn")
      <4>1. box'["mtpmountdaemon"] = box["mtpmountdaemon"] /\ box'["mtpmountstartup"] = <<>>
        BY <3>1, CreateMailslotDoes, SlotsAre
      <4>2. QED
        BY <2>a, <2>b, <3>1, <4>1
    <3>2. CASE Ended(c, "aborted") /\ CloseHandles(c, Slots)
      BY <2>a, <2>b, <2>c, <3>2 DEF Results
    <3>3. QED
      BY <2>4, <3>1, <3>2 DEF ListenForStartup
  <2>5. CASE CreateDaemon(c)
    BY <2>5, <2>a, <2>b, <2>c DEF CreateDaemon, Results
  <2>6. CASE AwaitStartup(c) \/ OpenController(c) \/ SendCommand(c)
    BY <1>0, <2>6 DEF AwaitStartup, OpenController, SendCommand, At
  <2>7. CASE PrintOutput(c)
    <3>1. PICK r \in {ctl[c].result, "other"} : ctl' = [ctl EXCEPT ![c].result = r]
      BY <2>7 DEF PrintOutput
    <3>2. ctl'[c].step = "recv"
      BY <1>0, <2>7, <3>1 DEF PrintOutput, At, CtlType
    <3>3. \A s \in {"mtpmountdaemon", "mtpmountstartup"} : box'[s] = box[s]
      BY <2>7, SlotsAre DEF PrintOutput, RecvString, Types
    <3>4. QED
      BY <2>a, <3>2, <3>3
  <2>8. CASE Return(c)
    <3>1. CASE ctl[c].cmd = "restart"
      <4>1. PICK r \in {ctl[c].result, "other"} :
              ctl' = [ctl EXCEPT ![c].cmd = "revive", ![c].step = "probe", ![c].result = r]
        BY <2>8, <3>1 DEF Return
      <4>2. ctl'[c].step = "probe"
        BY <1>0, <4>1 DEF CtlType
      <4>3. \A s \in {"mtpmountdaemon", "mtpmountstartup"} : box'[s] = box[s]
        BY <2>8, <3>1, SlotsAre DEF Return, RecvString, Types
      <4>4. QED
        BY <2>a, <4>2, <4>3
    <3>2. CASE ctl[c].cmd # "restart"
      BY <2>8, <2>a, <2>b, <2>c, <3>2 DEF Return
    <3>3. QED
      BY <3>1, <3>2
  <2>9. CASE Kill(c)
    BY <2>9, <2>a, <2>b, <2>c DEF Kill, Results
  <2>10. QED
    BY <1>1, <2>1, <2>2, <2>3, <2>4, <2>5, <2>6, <2>7, <2>8, <2>9 DEF Controller
<1>2. ASSUME NEW d \in Daemons, Daemon(d) \/ Use(d) PROVE ~Found' \/ FoundOne'
  <2>0. ctl' = ctl
    BY <1>2, DaemonTypes
  <2>1. CASE Running(d)
    <3>1. FoundOne
      BY <2>1 DEF FoundOne
    <3>2. QED
      BY <1>2, <3>1, DaemonsStay DEF Next
  <2>2. CASE ~Running(d)
    <3>1. \A s \in {"mtpmountdaemon", "mtpmountstartup"} : box'[s] = box[s] \/ box'[s] = <<>>
      <4>1. CASE ClaimCache(d) \/ Use(d)
        BY <4>1 DEF ClaimCache, Use
      <4>2. CASE CreateSlot(d)
        BY <4>2, CreateMailslotDoes, SlotsAre, ZenonT(60) DEF CreateSlot
      <4>3. CASE Exit(d)
        BY <4>3, CloseHandlesDoes, SlotsAre DEF Exit
      <4>4. QED
        BY <1>2, <2>2, <4>1, <4>2, <4>3
        DEF Daemon, SignalStartup, Listen, RunCommand, SendReturn, Does, Running
    <3>2. QED
      BY <1>0, <2>0, <3>1 DEF Found
  <2>3. QED
    BY <2>1, <2>2
<1>3. QED
  BY <1>1, <1>2 DEF Next

LEMMA DroppedStep ==
  ASSUME Types, Errands, Ownership, Found => FoundOne, DroppedOnlyByExit, Next
  PROVE  DroppedOnlyByExit'
<1> USE DEF slots
<1> SUFFICES ASSUME "dropped" \in trouble', "misled" \notin trouble'
             PROVE  \E d \in Daemons' : Gone(d)'
  BY DEF DroppedOnlyByExit, Gone
<1>0. /\ dae \in Seq(DaeType) /\ ctl \in CtlType /\ "misled" \notin trouble
      /\ owner \in [Slots -> Controllers \cup Daemons \cup {Nil}]
      /\ \A d \in Daemons : d \notin Controllers /\ d # Nil
  BY TroubleStays, ProcessesDiffer DEF Types
\* A daemon that is gone stays so.
<1>a. ASSUME NEW d \in Daemons, Gone(d) PROVE \E e \in Daemons' : Gone(e)'
  <2>1. ASSUME NEW c \in Controllers, Start(c) \/ Controller(c) \/ Kill(c)
        PROVE  dae'[d] = dae[d] /\ d \in Daemons'
    <3>1. dae' = dae \/ dae' = Append(dae, [step |-> "boot", client |-> Nil, mounts |-> FALSE])
      BY <2>1 DEF Controller, Start, DoesEndpointExist, ProbeClosed, ListenForStartup,
         CreateDaemon, AwaitStartup, OpenController, SendCommand, PrintOutput, Return, Kill
    <3>2. CASE dae' = dae
      BY <3>2 DEF Daemons
    <3>3. CASE dae' = Append(dae, [step |-> "boot", client |-> Nil, mounts |-> FALSE])
      BY <1>0, <3>3, AppendProperties DEF Daemons
    <3>4. QED
      BY <3>1, <3>2, <3>3
  <2>2. ASSUME NEW e \in Daemons, Daemon(e) \/ Use(e)
        PROVE  d \in Daemons' /\ dae'[d].step \in {"closing", "exited", "crashed"}
    <3>1. CASE e # d
      <4>1. dae' = dae \/ \E s : Turned(e, s)
        BY <2>2, TurnOnly, ListenTurns, SendReturnTurns
        DEF Daemon, ClaimCache, CreateSlot, SignalStartup, RunCommand, Exit, Use, DSteps
      <4>2. QED
        BY <1>a, <3>1, <4>1 DEF Turned, Gone, Daemons
    <3>2. CASE e = d
      <4>1. CASE Exit(d)
        BY <4>1, TurnOnly DEF Exit, Turned, DSteps
      <4>2. CASE Use(d)
        BY <1>a, <4>2 DEF Use, Gone, Daemons
      <4>3. QED
        BY <1>a, <2>2, <3>2, <4>1, <4>2
        DEF Daemon, Gone, ClaimCache, CreateSlot, SignalStartup, Listen, RunCommand, SendReturn, Does
    <3>3. QED
      BY <3>1, <3>2
  <2>3. QED
    BY <1>a, <2>1, <2>2 DEF Next, Gone
<1>1. CASE "dropped" \in trouble
  <2>1. PICK d \in Daemons : Gone(d)
    BY <1>0, <1>1 DEF DroppedOnlyByExit, Gone
  <2>2. QED
    BY <1>a, <2>1
<1>2. CASE "dropped" \notin trouble
  <2>1. ASSUME NEW c \in Controllers, Start(c) \/ Controller(c) \/ Kill(c)
        PROVE  \E d \in Daemons' : Gone(d)'
    <3>1. /\ Found
          /\ owner["mtpmountdaemon"] = c \/ owner["mtpmountdaemon"] = Nil
      <4>1. CASE Unread(c)
        BY <4>1 DEF Unread, Found
      <4>2. CASE SendCommand(c) /\ owner["mtpmountdaemon"] = Nil
        BY <4>2 DEF SendCommand, At, Found
      <4>3. QED
        BY <1>2, <2>1, <4>1, <4>2
        DEF Controller, Start, DoesEndpointExist, ProbeClosed, ListenForStartup, CreateDaemon,
            AwaitStartup, OpenController, SendCommand, PrintOutput, Return, Kill, Note, Fault
    <3>2. PICK d \in Daemons : Running(d) \/ Gone(d)
      BY <1>0, <3>1 DEF FoundOne
    <3>3. ~Running(d)
      BY <1>0, <3>1, <3>2 DEF Ownership, HasDaemonSlot
    <3>4. QED
      BY <1>a, <3>2, <3>3
  <2>2. ASSUME NEW d \in Daemons, Daemon(d) \/ Use(d) PROVE \E e \in Daemons' : Gone(e)'
    <3>1. Exit(d)
      BY <1>2, <2>2 DEF Daemon, Use, ClaimCache, CreateSlot, SignalStartup, Listen, RunCommand,
         SendReturn, Note, Fault
    <3>2. Gone(d)
      BY <3>1 DEF Exit, Does, Gone
    <3>3. QED
      BY <1>a, <3>2
  <2>3. QED
    BY <2>1, <2>2 DEF Next
<1>3. QED
  BY <1>1, <1>2

-----------------------------------------------------------------------------
(* Whose answers are read.                                                 *)

\* A step that does nothing to the command under way, other than drop it.
LEMMA OneCommandKept ==
  ASSUME OneCommand,
         \A c \in Controllers : ctl'[c].result # "other",
         owner'["mtpmountcontroller"] = owner["mtpmountcontroller"],
         box'["mtpmountcontroller"] = box["mtpmountcontroller"],
         box'["mtpmountdaemon"] = box["mtpmountdaemon"] \/ box'["mtpmountdaemon"] = <<>>,
         \A d \in Daemons' : dae'[d].step \in {"run", "answer"}
           => d \in Daemons /\ Busy(d) /\ dae'[d].client = dae[d].client,
         \A c \in Controllers : owner["mtpmountcontroller"] = c
           => /\ ctl[c].step = "recv" => ctl'[c].step = "recv"
              /\ ctl'[c].step = "send" => ctl[c].step = "send"
  PROVE  OneCommand'
<1>1. Waiting(<<>>) = {} /\ Len(<<>>) = 0
  BY EmptyWaiting
<1>2. UnderWay' => UnderWay
  BY DEF UnderWay, Busy
<1>3. /\ \A m \in Waiting(box'["mtpmountdaemon"]) : m.to = owner'["mtpmountcontroller"]
      /\ Len(box'["mtpmountdaemon"]) <= 1
  BY <1>1 DEF OneCommand
<1>4. \A d \in Daemons' : dae'[d].step \in {"run", "answer"}
        => dae'[d].client = owner'["mtpmountcontroller"] /\ box'["mtpmountdaemon"] = <<>>
  BY DEF OneCommand
<1>5. UnderWay' => /\ owner'["mtpmountcontroller"] \in Controllers
                  /\ ctl'[owner'["mtpmountcontroller"]].step = "recv"
                  /\ \A m \in Waiting(box'["mtpmountcontroller"]) : m.kind # "return"
  BY <1>2 DEF OneCommand
<1>6. QED
  BY <1>3, <1>4, <1>5 DEF OneCommand, Busy

\* A step after which no command is under way.
LEMMA OneCommandIdle ==
  ASSUME \A c \in Controllers : ctl'[c].result # "other",
         box'["mtpmountdaemon"] = <<>>,
         \A d \in Daemons' : dae'[d].step \notin {"run", "answer"},
         \A m \in Waiting(box'["mtpmountcontroller"]) : m.to = owner'["mtpmountcontroller"],
         \A c \in Controllers : owner'["mtpmountcontroller"] = c /\ ctl'[c].step = "send"
           => box'["mtpmountcontroller"] = <<>>
  PROVE  OneCommand'
<1>1. Waiting(<<>>) = {} /\ Len(<<>>) = 0
  BY EmptyWaiting
<1>2. ~UnderWay'
  BY DEF UnderWay, Busy
<1>3. QED
  BY <1>1, <1>2 DEF OneCommand, Busy

LEMMA ControllerOneCommand ==
  ASSUME Types, Errands, Ownership, OneCommand, NEW c \in Controllers,
         Start(c) \/ Controller(c)
  PROVE  OneCommand'
<1> USE DEF slots
<1> DEFINE me == owner["mtpmountcontroller"]
           toMe == box["mtpmountcontroller"]
           toDaemon == box["mtpmountdaemon"]
<1>0. /\ dae \in Seq(DaeType) /\ Len(dae) \in Nat /\ owner \in [Slots -> Controllers \cup Daemons \cup {Nil}]
      /\ c # Nil /\ ctl \in CtlType /\ OwnsSlots(c)
      /\ \A b \in Controllers \ {c} : ctl'[b] = ctl[b]
      /\ \A b \in Controllers : ctl[b].result # "other"
      /\ \A s \in Slots : owner[s] = Nil => box[s] = <<>>
      /\ \A m \in Waiting(toMe) : m.to = me
      /\ UnderWay => /\ me \in Controllers /\ ctl[me].step = "recv"
                     /\ \A m \in Waiting(toMe) : m.kind # "return"
      /\ ctl[c].step # "end" => ctl[c].result = "none"
  BY ControllerTypes, ProcessesDiffer DEF Types, OneCommand, Ownership, Errands
<1>1. \A d \in Daemons' : dae'[d].step \in {"run", "answer"} => d \in Daemons /\ dae'[d] = dae[d]
  <2>1. CASE dae' = dae
    BY <2>1 DEF Daemons
  <2>2. CASE dae' = Append(dae, [step |-> "boot", client |-> Nil, mounts |-> FALSE])
    <3>1. /\ Len(dae') = Len(dae) + 1 /\ dae'[Len(dae) + 1].step = "boot"
          /\ \A e \in 1 .. Len(dae) : dae'[e] = dae[e]
      BY <1>0, <2>2, AppendProperties
    <3>2. \A e \in Daemons' : (e \in Daemons /\ dae'[e] = dae[e]) \/ e = Len(dae) + 1
      BY <1>0, <3>1 DEF Daemons
    <3>3. QED
      BY <3>1, <3>2
  <2>3. QED
    BY <2>1, <2>2
    DEF Controller, Start, DoesEndpointExist, ProbeClosed, ListenForStartup, CreateDaemon,
        AwaitStartup, OpenController, SendCommand, PrintOutput, Return
\* While the command of another one is under way, or before it has sent its own.
<1>a. ASSUME NEW m, NEW s, NEW r, Moved(c, m, s, r), r # "other", s # "send",
             me = c => ctl[c].step # "recv",
             owner'["mtpmountcontroller"] = me, box'["mtpmountcontroller"] = toMe,
             box'["mtpmountdaemon"] = toDaemon \/ box'["mtpmountdaemon"] = <<>>
      PROVE  OneCommand'
  <2>1. \A b \in Controllers : ctl'[b].result # "other"
    BY <1>0, <1>a DEF Moved
  <2>2. \A d \in Daemons' : dae'[d].step \in {"run", "answer"}
          => d \in Daemons /\ Busy(d) /\ dae'[d].client = dae[d].client
    BY <1>1 DEF Busy
  <2>3. \A b \in Controllers : owner["mtpmountcontroller"] = b
          => /\ ctl[b].step = "recv" => ctl'[b].step = "recv"
             /\ ctl'[b].step = "send" => ctl[b].step = "send"
    BY <1>0, <1>a DEF Moved
  <2>4. QED
    BY <1>a, <2>1, <2>2, <2>3, OneCommandKept
\* When none is under way, and none is sent.
<1>b. ASSUME NEW m, NEW s, NEW r, Moved(c, m, s, r), r # "other", ~UnderWay,
             box'["mtpmountdaemon"] = <<>>,
             \A n \in Waiting(box'["mtpmountcontroller"]) : n.to = owner'["mtpmountcontroller"],
             \A b \in Controllers : owner'["mtpmountcontroller"] = b /\ ctl'[b].step = "send"
               => box'["mtpmountcontroller"] = <<>>
      PROVE  OneCommand'
  <2>1. \A b \in Controllers : ctl'[b].result # "other"
    BY <1>0, <1>b DEF Moved
  <2>2. \A d \in Daemons' : dae'[d].step \notin {"run", "answer"}
    BY <1>1, <1>b DEF UnderWay, Busy
  <2>3. QED
    BY <1>b, <2>1, <2>2, OneCommandIdle
\* It ends, with all its slots closed.
<1>c. ASSUME CloseHandles(c, Slots), ctl[c].step # "end",
             (\E r \in Results \ {"other"} : Ended(c, r)) \/ Done(c, c),
             me = c => ~UnderWay
      PROVE  OneCommand'
  <2>1. PICK r : r # "other" /\ Moved(c, ctl[c].cmd, "end", r)
    BY <1>0, <1>c, EndedMoves, DoneMoves
  <2>2. CASE me # c
    <3>1. /\ owner'["mtpmountcontroller"] = me /\ box'["mtpmountcontroller"] = toMe
          /\ box'["mtpmountdaemon"] = toDaemon \/ box'["mtpmountdaemon"] = <<>>
      BY <1>c, <2>2, CloseHandlesDoes, SlotsAre
    <3>2. QED
      BY <1>a, <2>1, <2>2, <3>1
  <2>3. CASE me = c
    <3>1. /\ owner'["mtpmountcontroller"] = Nil /\ box'["mtpmountcontroller"] = <<>>
          /\ box'["mtpmountdaemon"] = toDaemon \/ box'["mtpmountdaemon"] = <<>>
      BY <1>c, <2>3, CloseHandlesDoes, SlotsAre
    <3>2. ~UnderWay /\ toDaemon = <<>>
      BY <1>c, <2>3 DEF UnderWay
    <3>3. \A n \in Waiting(box'["mtpmountcontroller"]) : n.to = owner'["mtpmountcontroller"]
      BY <3>1, EmptyWaiting
    <3>4. \A b \in Controllers : owner'["mtpmountcontroller"] = b /\ ctl'[b].step = "send"
            => box'["mtpmountcontroller"] = <<>>
      BY <3>1
    <3>5. box'["mtpmountdaemon"] = <<>>
      BY <3>1, <3>2
    <3>6. QED
      BY <1>b, <2>1, <3>2, <3>3, <3>4, <3>5
  <2>4. QED
    BY <2>2, <2>3
\* It goes on, with its slot for the answer as it was.
<1>d. ASSUME NEW s \in CSteps, Go(c, s), s # "send", ctl[c].step \notin {"recv", "end"},
             \/ UNCHANGED slots
             \/ CreateMailslot(c, "mtpmountdaemon") \/ CreateMailslot(c, "mtpmountstartup")
             \/ CloseHandles(c, {"mtpmountdaemon"}) \/ CloseHandles(c, {"mtpmountstartup"})
      PROVE  OneCommand'
  <2>1. Moved(c, ctl[c].cmd, s, ctl[c].result) /\ ctl[c].result # "other"
    BY <1>0, <1>d, GoMoves
  <2>2. /\ owner'["mtpmountcontroller"] = me /\ box'["mtpmountcontroller"] = toMe
        /\ box'["mtpmountdaemon"] = toDaemon \/ box'["mtpmountdaemon"] = <<>>
    BY <1>d, CreateMailslotDoes, CloseHandlesDoes, SlotsAre
  <2>3. QED
    BY <1>a, <1>d, <2>1, <2>2
<1>2. CASE Start(c)
  <2>1. PICK cmd \in Commands : ctl' = [ctl EXCEPT ![c] = [cmd |-> cmd, step |-> "probe", result |-> "none"]]
    BY <1>2 DEF Start
  <2>2. ctl'[c] = [cmd |-> cmd, step |-> "probe", result |-> "none"] /\ ctl' \in CtlType
    BY <1>0, <2>1, ControllerTypes DEF Types, CtlType
  <2>3. Moved(c, cmd, "probe", "none")
    BY <1>0, <2>2 DEF Moved
  <2>4. QED
    BY <1>2, <1>a, <2>3 DEF Start, At
<1>3. CASE DoesEndpointExist(c)
  BY <1>0, <1>3, <1>c, <1>d DEF DoesEndpointExist, At, CSteps
<1>4. CASE ProbeClosed(c)
  <2>1. CASE Go(c, "listen")
    BY <1>4, <1>d, <2>1 DEF ProbeClosed, At, CSteps
  <2>2. CASE Ended(c, "nodaemon")
    <3>1. Moved(c, ctl[c].cmd, "end", "nodaemon")
      BY <2>2, EndedMoves DEF Results
    <3>2. /\ owner'["mtpmountcontroller"] = me /\ box'["mtpmountcontroller"] = toMe
          /\ box'["mtpmountdaemon"] = toDaemon \/ box'["mtpmountdaemon"] = <<>>
      BY <1>4, CloseHandlesDoes, SlotsAre DEF ProbeClosed
    <3>3. QED
      BY <1>4, <1>a, <3>1, <3>2 DEF ProbeClosed, At
  <2>3. QED
    BY <1>4, <2>1, <2>2 DEF ProbeClosed
<1>5. CASE ListenForStartup(c)
  BY <1>0, <1>5, <1>c, <1>d DEF ListenForStartup, At, CSteps, Results
<1>6. CASE CreateDaemon(c)
  BY <1>0, <1>6, <1>c, <1>d DEF CreateDaemon, At, CSteps, Results
<1>7. CASE AwaitStartup(c)
  BY <1>0, <1>7, <1>c, <1>d DEF AwaitStartup, At, CSteps
<1>8. CASE OpenController(c)
  <2>1. CASE Ended(c, "aborted") /\ CloseHandles(c, Slots)
    BY <1>0, <1>8, <1>c, <2>1 DEF OpenController, At, Results
  <2>2. CASE CreateMailslot(c, "mtpmountcontroller") /\ Go(c, "send")
    <3>1. Moved(c, ctl[c].cmd, "send", ctl[c].result) /\ ctl[c].result # "other"
      BY <1>0, <1>8, <2>2, GoMoves DEF OpenController, At, CSteps
    <3>2. ~UnderWay /\ toDaemon = <<>>
      <4>1. me = Nil
        BY <2>2 DEF CreateMailslot
      <4>2. QED
        BY <1>0, <4>1, ProcessesAssumption DEF UnderWay
    <3>3. box'["mtpmountcontroller"] = <<>> /\ box'["mtpmountdaemon"] = <<>>
      BY <2>2, <3>2, CreateMailslotDoes, SlotsAre
    <3>4. \A n \in Waiting(box'["mtpmountcontroller"]) : n.to = owner'["mtpmountcontroller"]
      BY <3>3, EmptyWaiting
    <3>5. QED
      BY <1>b, <3>1, <3>2, <3>3, <3>4
  <2>3. QED
    BY <1>8, <2>1, <2>2 DEF OpenController
<1>9. CASE SendCommand(c)
  <2>1. Moved(c, ctl[c].cmd, "recv", ctl[c].result) /\ ctl[c].result # "other"
    BY <1>0, <1>9, GoMoves DEF SendCommand, At, CSteps
  <2>2. me = c /\ ~UnderWay /\ toDaemon = <<>> /\ toMe = <<>> /\ owner' = owner
    BY <1>0, <1>9 DEF SendCommand, At, OwnsSlots, UnderWay, OneCommand
  <2> DEFINE m == [kind |-> ctl[c].cmd, to |-> c]
  <2>3. m \in Messages
    <3>1. ctl[c].cmd \in Commands
      BY <1>0, <1>9 DEF SendCommand, At, Errands, CtlType
    <3>2. QED
      BY <3>1 DEF Messages
  <2>4. Waiting(<<>>) = {} /\ Len(<<>>) = 0
    BY EmptyWaiting
  <2>5. /\ box'["mtpmountcontroller"] = <<>> /\ Len(box'["mtpmountdaemon"]) <= 1
        /\ \A n \in Waiting(box'["mtpmountdaemon"]) : n.to = c
    <3>1. CASE SendString(m, "mtpmountdaemon")
      <4>1. box'["mtpmountcontroller"] = <<>>
        BY <2>2, <2>3, <3>1, SendStringDoes, SlotsAre
      <4>2. CASE owner["mtpmountdaemon"] = Nil
        <5>1. box' = box
          BY <2>3, <3>1, <4>2, SendStringDoes, SlotsAre
        <5>2. QED
          BY <2>2, <2>4, <5>1
      <4>3. CASE owner["mtpmountdaemon"] # Nil
        <5>1. /\ Waiting(box'["mtpmountdaemon"]) = Waiting(toDaemon) \cup {m}
              /\ Len(box'["mtpmountdaemon"]) = Len(toDaemon) + 1
          BY <2>3, <3>1, <4>3, SendStringDoes, SlotsAre
        <5>2. QED
          BY <2>2, <2>4, <4>1, <5>1
      <4>4. QED
        BY <4>2, <4>3
    <3>2. CASE box' = box
      BY <2>2, <2>4, <3>2
    <3>3. QED
      BY <1>9, <3>1, <3>2 DEF SendCommand
  <2>6. \A b \in Controllers : ctl'[b].result # "other"
    BY <1>0, <2>1 DEF Moved
  <2>7. \A d \in Daemons' : dae'[d].step \notin {"run", "answer"}
    BY <1>1, <2>2 DEF UnderWay, Busy
  <2>8. ctl'[c].step = "recv" /\ owner'["mtpmountcontroller"] = c
    BY <2>1, <2>2 DEF Moved
  <2>9. QED
    BY <2>4, <2>5, <2>6, <2>7, <2>8 DEF OneCommand, Busy
<1>10. CASE PrintOutput(c)
  <2>1. /\ me = c /\ owner' = owner /\ toMe # <<>> /\ ctl[c].step = "recv"
        /\ box' = [box EXCEPT !["mtpmountcontroller"] = Tail(@)]
    BY <1>10 DEF PrintOutput, RecvString, At
  <2>2. /\ \A t \in Slots \ {"mtpmountcontroller"} : box'[t] = box[t]
        /\ Waiting(box'["mtpmountcontroller"]) \subseteq Waiting(toMe)
        /\ Head(toMe) \in Waiting(toMe)
    BY <2>1, TakeMessage, SlotsAre
  <2>3. box'["mtpmountdaemon"] = toDaemon
    BY <2>2, SlotsAre
  <2>4. ctl' = [ctl EXCEPT ![c].result = ctl[c].result]
    BY <1>0, <1>10, <2>1, <2>2 DEF PrintOutput
  <2>5. ctl'[c].step = "recv" /\ ctl'[c].result = ctl[c].result
    BY <1>0, <2>1, <2>4 DEF CtlType
  <2>6. \A b \in Controllers : ctl'[b].result # "other"
    BY <1>0, <2>5
  <2>7. dae' = dae /\ Daemons' = Daemons
    BY <1>10 DEF PrintOutput, Daemons
  <2>8. UnderWay' = UnderWay /\ owner'["mtpmountcontroller"] = c
    BY <2>1, <2>3, <2>7 DEF UnderWay, Busy
  <2>9. QED
    BY <1>0, <2>1, <2>2, <2>3, <2>5, <2>6, <2>7, <2>8 DEF OneCommand, Busy
<1>11. CASE Return(c)
  <2> DEFINE msg == Head(toMe)
  <2>1. /\ me = c /\ toMe # <<>> /\ ctl[c].step = "recv" /\ msg.kind = "return"
        /\ ctl[c].result = "none"
    BY <1>0, <1>11 DEF Return, At, OwnsSlots
  <2>2. msg \in Waiting(toMe) /\ toMe \in Seq(Messages)
    <3>1. toMe \in Seq(Messages)
      BY SlotsAre DEF Types
    <3>2. QED
      BY <2>1, <3>1, TailWaiting
  <2>3. ~UnderWay /\ toDaemon = <<>> /\ msg.to = c
    BY <1>0, <2>1, <2>2 DEF UnderWay
  <2>4. CASE ctl[c].cmd = "restart"
    <3>1. /\ ctl' = [ctl EXCEPT ![c].cmd = "revive", ![c].step = "probe",
                                ![c].result = ctl[c].result]
          /\ box' = [box EXCEPT !["mtpmountcontroller"] = Tail(@)] /\ owner' = owner
      BY <1>11, <2>3, <2>4 DEF Return, RecvString
    <3>2. ctl'[c].cmd = "revive" /\ ctl'[c].step = "probe" /\ ctl'[c].result = "none"
      BY <1>0, <2>1, <3>1 DEF CtlType
    <3>3. Moved(c, "revive", "probe", "none")
      BY <1>0, <1>11, <3>2, ControllerTypes DEF Controller, Moved, Types
    <3>4. /\ box'["mtpmountdaemon"] = <<>>
          /\ Waiting(box'["mtpmountcontroller"]) \subseteq Waiting(toMe)
      BY <2>1, <2>3, <3>1, TakeMessage, SlotsAre
    <3>5. \A n \in Waiting(box'["mtpmountcontroller"]) : n.to = owner'["mtpmountcontroller"]
      BY <1>0, <3>1, <3>4
    <3>6. \A b \in Controllers : owner'["mtpmountcontroller"] = b /\ ctl'[b].step = "send"
            => box'["mtpmountcontroller"] = <<>>
      BY <2>1, <3>1, <3>2
    <3>7. QED
      BY <1>b, <2>3, <3>3, <3>4, <3>5, <3>6
  <2>5. CASE ctl[c].cmd # "restart"
    BY <1>11, <1>c, <2>1, <2>3, <2>5 DEF Return
  <2>6. QED
    BY <2>4, <2>5
<1>12. QED
  BY <1>2, <1>3, <1>4, <1>5, <1>6, <1>7, <1>8, <1>9, <1>10, <1>11 DEF Controller

LEMMA DaemonOneCommand ==
  ASSUME Types, Ownership, OneCommand, NEW d \in Daemons, Daemon(d) \/ Use(d)
  PROVE  OneCommand'
<1> USE DEF slots
<1> DEFINE me == owner["mtpmountcontroller"]
           toMe == box["mtpmountcontroller"]
           toDaemon == box["mtpmountdaemon"]
<1>0. /\ dae \in Seq(DaeType) /\ ctl' = ctl /\ Daemons' = Daemons /\ d # Nil
      /\ dae[d].client \in Controllers \cup {Nil}
      /\ \A c \in Controllers : ctl'[c].result # "other"
      /\ \A m \in Waiting(toMe) : m.to = me
      /\ UnderWay => /\ me \in Controllers /\ ctl[me].step = "recv" /\ me # Nil
                     /\ \A m \in Waiting(toMe) : m.kind # "return"
      /\ me # d
      /\ \A e \in Daemons : HasDaemonSlot(e) => owner["mtpmountdaemon"] = e
  <2>1. dae \in Seq(DaeType) /\ d \in 1 .. Len(dae)
    BY DEF Types, Daemons
  <2>2. dae[d] \in DaeType
    BY <2>1
  <2>3. QED
    BY <2>2, DaemonTypes, ProcessesDiffer, ProcessesAssumption
    DEF Types, DaeType, OneCommand, Ownership
\* What does not touch the command under way.
<1>a. ASSUME NEW s \in DSteps, Turned(d, s), s \notin {"run", "answer"},
             owner'["mtpmountcontroller"] = me, box'["mtpmountcontroller"] = toMe,
             box'["mtpmountdaemon"] = toDaemon \/ box'["mtpmountdaemon"] = <<>>
      PROVE  OneCommand'
  <2>1. \A e \in Daemons' : dae'[e].step \in {"run", "answer"}
          => e \in Daemons /\ Busy(e) /\ dae'[e].client = dae[e].client
    BY <1>0, <1>a DEF Turned, Busy
  <2>2. \A c \in Controllers : owner["mtpmountcontroller"] = c
          => /\ ctl[c].step = "recv" => ctl'[c].step = "recv"
             /\ ctl'[c].step = "send" => ctl[c].step = "send"
    BY <1>0
  <2>3. \A c \in Controllers : ctl'[c].result # "other"
    BY <1>0
  <2>4. QED
    BY <1>a, <2>1, <2>2, <2>3, OneCommandKept
<1>1. CASE ClaimCache(d)
  BY <1>1, <1>a, TurnOnly DEF ClaimCache, DSteps
<1>2. CASE CreateSlot(d)
  <2>1. /\ owner'["mtpmountcontroller"] = me /\ box'["mtpmountcontroller"] = toMe
        /\ box'["mtpmountdaemon"] = toDaemon \/ box'["mtpmountdaemon"] = <<>>
    <3>1. CASE CreateMailslot(d, "mtpmountdaemon")
      BY <3>1, CreateMailslotDoes, SlotsAre
    <3>2. CASE UNCHANGED slots
      BY <3>2
    <3>3. QED
      BY <1>2, <3>1, <3>2 DEF CreateSlot
  <2>2. Turned(d, "signal") \/ Turned(d, "failed")
    BY <1>2, TurnOnly DEF CreateSlot, DSteps
  <2>3. QED
    BY <1>a, <2>1, <2>2 DEF DSteps
<1>3. CASE SignalStartup(d)
  <2>1. [kind |-> "ok", to |-> Nil] \in Messages
    BY DEF Messages
  <2>2. box'["mtpmountcontroller"] = toMe /\ box'["mtpmountdaemon"] = toDaemon
    BY <1>3, <2>1, SendStringDoes, SlotsAre DEF SignalStartup
  <2>3. QED
    BY <1>3, <1>a, <2>2, TurnOnly DEF SignalStartup, DSteps
<1>4. CASE Listen(d)
  <2> DEFINE msg == Head(toDaemon)
  <2>1. /\ toDaemon # <<>> /\ toDaemon \in Seq(Messages) /\ owner' = owner
        /\ box \in [Slots -> Seq(Messages)]
    BY <1>4, SlotsAre DEF Listen, Types
  <2>2. /\ msg \in Waiting(toDaemon) /\ msg \in Messages
        /\ Tail(toDaemon) \in Seq(Messages) /\ Len(Tail(toDaemon)) = Len(toDaemon) - 1
        /\ Len(toDaemon) \in Nat /\ Len(Tail(toDaemon)) \in Nat
    BY <2>1, TailWaiting
  <2>3. Tail(toDaemon) = <<>>
    <3>1. Len(toDaemon) <= 1
      BY DEF OneCommand
    <3> HIDE DEF toDaemon
    <3>2. Len(Tail(toDaemon)) = 0
      BY <2>2, <3>1
    <3>3. QED
      BY <2>2, <3>2, EmptySeq
  <2>4. /\ me \in Controllers /\ me # Nil /\ ctl[me].step = "recv" /\ msg.to = me
        /\ \A m \in Waiting(toMe) : m.kind # "return"
        /\ \A e \in Daemons : ~Busy(e)
    BY <1>0, <2>1, <2>2 DEF OneCommand, UnderWay
  <2>5. CASE msg.kind \in {"terminate", "restart"}
    <3> DEFINE rest == [box EXCEPT !["mtpmountdaemon"] = Tail(@)]
               answer == [kind |-> "return", to |-> msg.to]
    <3>1. /\ Turn(d, "closing")
          /\ box' = [rest EXCEPT !["mtpmountcontroller"] = Append(@, answer)]
      BY <1>4, <2>4, <2>5 DEF Listen
    <3>2. box'["mtpmountdaemon"] = <<>> /\ box'["mtpmountcontroller"] = Append(toMe, answer)
      BY <2>1, <2>3, <3>1, SlotsAre
    <3>3. answer \in Messages /\ toMe \in Seq(Messages)
      BY <2>1, <2>4, SlotsAre DEF Messages
    <3>4. Waiting(box'["mtpmountcontroller"]) = Waiting(toMe) \cup {answer}
      BY <3>2, <3>3, AppendWaiting
    <3>5. \A m \in Waiting(box'["mtpmountcontroller"]) : m.to = owner'["mtpmountcontroller"]
      BY <1>0, <2>1, <2>4, <3>4
    <3>6. \A e \in Daemons' : dae'[e].step \notin {"run", "answer"}
      <4>1. Turned(d, "closing")
        BY <3>1, TurnOnly DEF DSteps
      <4>2. QED
        BY <1>0, <2>4, <4>1 DEF Turned, Busy
    <3>7. \A c \in Controllers : owner'["mtpmountcontroller"] = c /\ ctl'[c].step = "send"
            => box'["mtpmountcontroller"] = <<>>
      BY <1>0, <2>1, <2>4
    <3>8. \A c \in Controllers : ctl'[c].result # "other"
      BY <1>0
    <3>9. QED
      BY <3>2, <3>5, <3>6, <3>7, <3>8, OneCommandIdle
  <2>6. CASE msg.kind \notin {"terminate", "restart"}
    <3>1. Turned(d, "run") /\ dae'[d].client = me
      BY <1>4, <2>4, <2>6, ListenTurns
    <3>2. box' = [box EXCEPT !["mtpmountdaemon"] = Tail(@)]
      BY <1>4, <2>6 DEF Listen
    <3>3. box'["mtpmountdaemon"] = <<>> /\ box'["mtpmountcontroller"] = toMe
      BY <2>1, <2>3, <3>2, SlotsAre
    <3>4. \A e \in Daemons' : dae'[e].step \in {"run", "answer"} => dae'[e].client = me
      BY <1>0, <2>4, <3>1 DEF Turned, Busy
    <3>5. Waiting(<<>>) = {} /\ Len(<<>>) = 0
      BY EmptyWaiting
    <3>6. QED
      BY <1>0, <2>1, <2>4, <3>3, <3>4, <3>5 DEF OneCommand, Busy
  <2>7. QED
    BY <2>5, <2>6
<1>5. CASE RunCommand(d)
  <2>1. CASE Turn(d, "crashed") /\ CloseHandles(d, Slots)
    <3>1. /\ owner'["mtpmountcontroller"] = me /\ box'["mtpmountcontroller"] = toMe
          /\ box'["mtpmountdaemon"] = toDaemon \/ box'["mtpmountdaemon"] = <<>>
      BY <1>0, <2>1, CloseHandlesDoes, SlotsAre
    <3>2. QED
      BY <1>a, <2>1, <3>1, TurnOnly DEF DSteps
  <2>2. CASE /\ Turn(d, "answer") /\ owner' = owner
             /\ SendString([kind |-> "output", to |-> dae[d].client], "mtpmountcontroller")
    <3> DEFINE out == [kind |-> "output", to |-> dae[d].client]
    <3>1. Busy(d)
      BY <1>5 DEF RunCommand, Does, Busy
    <3>2. /\ dae[d].client = me /\ me \in Controllers /\ me # Nil /\ ctl[me].step = "recv"
          /\ toDaemon = <<>> /\ \A m \in Waiting(toMe) : m.kind # "return"
      BY <1>0, <3>1 DEF OneCommand, UnderWay
    <3>3. out \in Messages
      BY <1>0 DEF Messages
    <3>4. /\ Waiting(box'["mtpmountcontroller"]) = Waiting(toMe) \cup {out}
          /\ box'["mtpmountdaemon"] = toDaemon
      BY <2>2, <3>2, <3>3, SendStringDoes, SlotsAre
    <3>5. Turned(d, "answer") /\ dae'[d].client = me
      <4>1. Turned(d, "answer")
        BY <2>2, TurnOnly DEF DSteps
      <4>2. dae'[d].client = dae[d].client
        BY <1>0, <2>2 DEF Turn, Daemons, DaeType
      <4>3. QED
        BY <3>2, <4>1, <4>2
    <3>6. \A e \in Daemons' : dae'[e].step \in {"run", "answer"} => dae'[e].client = me
      BY <1>0, <3>5 DEF Turned, Busy, OneCommand
    <3>7. Waiting(<<>>) = {} /\ Len(<<>>) = 0
      BY EmptyWaiting
    <3>8. \A m \in Waiting(box'["mtpmountcontroller"]) : m.to = me /\ m.kind # "return"
      BY <1>0, <3>2, <3>4
    <3>9. QED
      BY <1>0, <2>2, <3>2, <3>4, <3>6, <3>7, <3>8 DEF OneCommand, Busy
  <2>3. QED
    BY <1>5, <2>1, <2>2 DEF RunCommand
<1>6. CASE SendReturn(d)
  <2> DEFINE answer == [kind |-> "return", to |-> dae[d].client]
  <2>1. Busy(d) /\ HasDaemonSlot(d) /\ owner' = owner
    BY <1>6 DEF SendReturn, Does, Busy, HasDaemonSlot, Running
  <2>2. /\ dae[d].client = me /\ me \in Controllers /\ me # Nil /\ ctl[me].step = "recv"
        /\ toDaemon = <<>>
    BY <1>0, <2>1 DEF OneCommand, UnderWay
  <2>3. answer \in Messages
    BY <1>0 DEF Messages
  <2>4. /\ Waiting(box'["mtpmountcontroller"]) = Waiting(toMe) \cup {answer}
        /\ box'["mtpmountdaemon"] = <<>>
    BY <1>6, <2>2, <2>3, SendStringDoes, SlotsAre, ZenonT(60) DEF SendReturn
  <2>5. \A e \in Daemons' : dae'[e].step \notin {"run", "answer"}
    <3>1. \A e \in Daemons : Busy(e) => e = d
      BY <1>0, <2>1 DEF Busy, HasDaemonSlot, Running
    <3>2. Turned(d, "listen")
      BY <1>6, SendReturnTurns
    <3>3. QED
      BY <1>0, <3>1, <3>2 DEF Turned, Busy
  <2>6. \A m \in Waiting(box'["mtpmountcontroller"]) : m.to = owner'["mtpmountcontroller"]
    BY <1>0, <2>1, <2>2, <2>4
  <2>7. \A c \in Controllers : owner'["mtpmountcontroller"] = c /\ ctl'[c].step = "send"
          => box'["mtpmountcontroller"] = <<>>
    BY <1>0, <2>1, <2>2
  <2>8. \A c \in Controllers : ctl'[c].result # "other"
    BY <1>0
  <2>9. QED
    BY <2>4, <2>5, <2>6, <2>7, <2>8, OneCommandIdle
<1>7. CASE Exit(d)
  <2>1. /\ owner'["mtpmountcontroller"] = me /\ box'["mtpmountcontroller"] = toMe
        /\ box'["mtpmountdaemon"] = toDaemon \/ box'["mtpmountdaemon"] = <<>>
    BY <1>0, <1>7, CloseHandlesDoes, SlotsAre DEF Exit
  <2>2. QED
    BY <1>7, <1>a, <2>1, TurnOnly DEF Exit, DSteps
<1>8. CASE Use(d)
  BY <1>0, <1>8 DEF Use, OneCommand, UnderWay, Busy
<1>9. QED
  BY <1>1, <1>2, <1>3, <1>4, <1>5, <1>6, <1>7, <1>8 DEF Daemon

-----------------------------------------------------------------------------
(* The invariant.                                                          *)

LEMMA InvInit == Init => Inv
<1> SUFFICES ASSUME Init PROVE Inv
  OBVIOUS
<1>1. Daemons = {} /\ Len(dae) = 0 /\ dae \in Seq(DaeType) /\ <<>> \in Seq(Messages)
  BY EmptyWaiting DEF Init, Daemons
<1>2. Types
  BY <1>1, FaultsAssumption DEF Init, Types, CtlType, CSteps, Results
<1>3. Errands /\ Ownership
  BY <1>1, SlotsAre, ProcessesAssumption DEF Init, Errands, Ownership, OwnsSlots
<1>4. FewDaemons
  <2>1. Spent = {}
    BY DEF Init, Spent
  <2>2. QED
    BY <1>1, <2>1, FS_EmptySet DEF FewDaemons
<1>5. OneCommand
  <2>1. Waiting(<<>>) = {} /\ Len(<<>>) = 0
    BY EmptyWaiting
  <2>2. \A s \in Slots : owner[s] = Nil /\ box[s] = <<>>
    BY DEF Init
  <2>3. QED
    BY <1>1, <2>1, <2>2, SlotsAre, ProcessesAssumption DEF Init, OneCommand, UnderWay
<1>6. ~Found
  BY SlotsAre DEF Init, Found
<1>7. DroppedOnlyByExit /\ LateIsStale
  BY <1>1 DEF Init, DroppedOnlyByExit, LateIsStale
<1>8. QED
  BY <1>2, <1>3, <1>4, <1>5, <1>6, <1>7 DEF Inv

LEMMA InvNext == Inv /\ [Next]_vars => Inv'
<1>1. ASSUME Inv, Next PROVE Inv'
  <2>0. /\ Types /\ Errands /\ Ownership /\ FewDaemons /\ LateIsStale /\ DroppedOnlyByExit
        /\ "killed" \notin trouble => OneCommand
        /\ Found => FoundOne
    BY <1>1 DEF Inv
  <2>1. Types'
    BY <1>1, <2>0, ControllerTypes, DaemonTypes DEF Next
  <2>2. Errands'
    <3>1. ASSUME NEW d \in Daemons, Daemon(d) \/ Use(d) PROVE Errands'
      BY <2>0, <3>1, DaemonTypes DEF Errands
    <3>2. QED
      BY <1>1, <2>0, <3>1, ControllerErrands DEF Next
  <2>3. Ownership'
    BY <1>1, <2>0, ControllerOwnership, DaemonOwnership DEF Next
  <2>4. FewDaemons'
    BY <1>1, <2>0, FewDaemonsStep
  <2>5. ASSUME "killed" \notin trouble' PROVE OneCommand'
    <3>1. OneCommand
      BY <1>1, <2>0, <2>5, TroubleStays
    <3>2. ASSUME NEW c \in Controllers PROVE ~Kill(c)
      BY <2>5 DEF Kill
    <3>3. QED
      BY <1>1, <2>0, <3>1, <3>2, ControllerOneCommand, DaemonOneCommand DEF Next
  <2>6. Found' => FoundOne'
    BY <1>1, <2>0, FoundStep
  <2>7. DroppedOnlyByExit'
    BY <1>1, <2>0, DroppedStep
  <2>8. LateIsStale'
    BY <1>1, <2>0, ControllerLate, DaemonLate DEF Next
  <2>9. QED
    BY <2>1, <2>2, <2>3, <2>4, <2>5, <2>6, <2>7, <2>8 DEF Inv
<1>2. ASSUME Inv, UNCHANGED vars PROVE Inv'
  <2>1. Types' /\ Errands' /\ Ownership' /\ FewDaemons'
    BY <1>2 DEF Inv, vars, Types, Errands, Ownership, OwnsSlots, HasDaemonSlot, Running,
       FewDaemons, Spent, Daemons
  <2>2. "killed" \notin trouble' => OneCommand'
    BY <1>2 DEF Inv, vars, OneCommand, UnderWay, Busy, Daemons
  <2>3. (Found' => FoundOne') /\ DroppedOnlyByExit'
    BY <1>2 DEF Inv, vars, Found, FoundOne, DroppedOnlyByExit, Running, Gone, Daemons
  <2>4. LateIsStale'
    BY <1>2 DEF Inv, vars, LateIsStale, HasDaemonSlot, Running, Daemons
  <2>5. QED
    BY <2>1, <2>2, <2>3, <2>4 DEF Inv
<1>3. QED
  BY <1>1, <1>2

\* Inv holds in every state of the program.
THEOREM Invariance == Spec => []Inv
BY InvInit, InvNext, PTL DEF Spec

-----------------------------------------------------------------------------
(* What follows from it.                                                   *)

\* The variables have their types, a slot that nobody owns is empty, and there are never
\* more daemons than controllers: none starts two.
THEOREM TypeCorrect == Spec => []TypeOK
<1>1. Inv => TypeOK
  <2> SUFFICES ASSUME Inv PROVE TypeOK
    OBVIOUS
  <2>1. Types /\ Ownership /\ FewDaemons
    BY DEF Inv
  <2>2. Daemons \subseteq 1 .. Cardinality(Controllers)
    <3>1. IsFiniteSet(Controllers) /\ Spent \subseteq Controllers
      BY ProcessesAssumption DEF Spent
    <3>2. /\ Cardinality(Spent) <= Cardinality(Controllers)
          /\ Cardinality(Spent) \in Nat /\ Cardinality(Controllers) \in Nat
      BY <3>1, FS_Subset, FS_CardinalityType
    <3>3. Len(dae) \in Nat /\ Len(dae) <= Cardinality(Spent)
      BY <2>1 DEF Types, FewDaemons
    <3>4. QED
      BY <3>2, <3>3 DEF Daemons
  <2>3. \A s \in Slots : \A i \in DOMAIN box[s] : box[s][i] \in Messages
    BY <2>1 DEF Types
  <2>4. QED
    BY <2>1, <2>2, <2>3 DEF TypeOK, Types, Ownership, Procs, Messages, CtlType
<1>2. QED
  BY <1>1, Invariance, PTL

\* The slot for the answers is shared by all controllers, one after the other, and an
\* answer does not say whose it is; yet as long as none of them is killed, each prints
\* the answer to its own command.
THEOREM AnswerOwn == Spec => []AnswerIsOwn
<1>1. Inv => AnswerIsOwn
  BY DEF Inv, OneCommand, AnswerIsOwn
<1>2. QED
  BY <1>1, Invariance, PTL

\* A command is lost only where a daemon ends, or where a controller was misled by the
\* probe of another one.
THEOREM DroppedAtExit == Spec => []DroppedOnlyByExit
<1>1. Inv => DroppedOnlyByExit
  BY DEF Inv
<1>2. QED
  BY <1>1, Invariance, PTL

\* Only a daemon that was started on a probe older than the slot of the running one takes
\* its unsynced files away, and only such a daemon finds the slot taken by another one.
THEOREM LateStarters == Spec => OnlyLateStartersHarm
<1> DEFINE Harms(e) ==
             /\ Does(e, "boot") /\ dae'[e].step = "create" /\ (\E d \in unsynced : Running(d))
                  => e \in stale
             /\ Does(e, "create") /\ dae'[e].step = "failed"
                  => e \in stale \/ owner["mtpmountdaemon"] \in Controllers
<1>1. Inv /\ [Next]_vars => [\A e \in Daemons : Harms(e)]_vars
  <2> SUFFICES ASSUME Inv, Next, NEW e \in Daemons PROVE Harms(e)
    OBVIOUS
  <2>0. Types /\ Ownership /\ LateIsStale
    BY DEF Inv
  <2>1. (\E d \in Daemons : HasDaemonSlot(d)) /\ dae[e].step \in {"boot", "create"} => e \in stale
    BY <2>0 DEF LateIsStale
  <2>2. ASSUME Does(e, "boot"), NEW d \in unsynced, Running(d) PROVE e \in stale
    BY <2>0, <2>1, <2>2 DEF Types, Does, HasDaemonSlot
  <2>3. ASSUME Does(e, "create"), dae'[e].step = "failed"
        PROVE  e \in stale \/ owner["mtpmountdaemon"] \in Controllers
    <3>1. owner["mtpmountdaemon"] # Nil
      <4>1. ASSUME NEW c \in Controllers, Start(c) \/ Controller(c) \/ Kill(c) PROVE FALSE
        <5>1. dae' = dae \/ dae' = Append(dae, [step |-> "boot", client |-> Nil, mounts |-> FALSE])
          BY <4>1 DEF Controller, Start, DoesEndpointExist, ProbeClosed, ListenForStartup,
             CreateDaemon, AwaitStartup, OpenController, SendCommand, PrintOutput, Return, Kill, slots
        <5>2. dae'[e] = dae[e]
          BY <2>0, <5>1, AppendProperties DEF Types, Daemons
        <5>3. QED
          BY <2>3, <5>2 DEF Does
      <4>2. ASSUME NEW d \in Daemons, d # e, Daemon(d) \/ Use(d) PROVE FALSE
        <5>1. dae' = dae \/ \E s : Turned(d, s)
          BY <2>0, <4>2, TurnOnly, ListenTurns, SendReturnTurns
          DEF Daemon, ClaimCache, CreateSlot, SignalStartup, RunCommand, Exit, Use, DSteps
        <5>2. QED
          BY <2>3, <4>2, <5>1 DEF Turned, Does
      <4>3. Daemon(e) \/ Use(e)
        BY <4>1, <4>2 DEF Next
      <4>4. CreateSlot(e)
        BY <2>3, <4>3 DEF Daemon, Use, Does, ClaimCache, SignalStartup, Listen, RunCommand,
           SendReturn, Exit
      <4>5. ~Turn(e, "signal")
        BY <2>0, <2>3, TurnOnly DEF Turned, DSteps
      <4>6. QED
        BY <4>4, <4>5 DEF CreateSlot
    <3>2. CASE owner["mtpmountdaemon"] \in Daemons
      BY <2>0, <2>1, <2>3, <3>2 DEF Ownership, Does
    <3>3. QED
      BY <2>0, <3>1, <3>2, SlotsAre DEF Types
  <2>4. QED
    BY <2>2, <2>3
<1>2. QED
  BY <1>1, Invariance, PTL DEF Spec, OnlyLateStartersHarm
=============================================================================
