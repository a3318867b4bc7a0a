---------------------------------- MODULE IPC ----------------------------------
(***************************************************************************)
(* The program as processes: controllers, each of which carries one        *)
(* command to the daemon and prints its answer, and the daemons they       *)
(* start.  They talk through three mail slots.  A slot belongs to the      *)
(* process that creates it and is gone, with what it holds, when that      *)
(* process closes it or ends; a message to a slot that nobody owns is      *)
(* lost, and so is one that is too long.  Nothing but the slot tells       *)
(* whether a daemon runs, and all daemons use one cache directory.         *)
(***************************************************************************)
EXTENDS Integers, Sequences, FiniteSets

CONSTANTS Controllers, \* processes started by the user, one command each
          Commands,    \* what they carry: command, terminate, restart
          MaxFaults,   \* bound: processes that fail, crash or are killed, commands too long
          Nil          \* no process

ASSUME ProcessesAssumption ==
  IsFiniteSet(Controllers) /\ Controllers \cap Nat = {} /\ Nil \notin Controllers \cup Nat
ASSUME CommandsAssumption == Commands \subseteq {"command", "terminate", "restart"}
ASSUME FaultsAssumption == MaxFaults \in Nat

VARIABLES owner,   \* slot -> the process that has created it
          box,     \* slot -> the messages in it
          ctl,     \* what each controller is doing
          dae,     \* the daemons in the order of their start, and what each is doing
          unsynced,\* daemons with files in the cache that the device has not got
          stale,   \* processes that go by a probe older than the slot of a daemon
          trouble, \* what went wrong
          left     \* faults to come

vars == <<owner, box, ctl, dae, unsynced, stale, trouble, left>>
slots == <<owner, box>>

Slots == {"mtpmountdaemon", "mtpmountstartup", "mtpmountcontroller"}
Daemons == 1 .. Len(dae)
Running(d) == dae[d].step \in {"signal", "listen", "run", "answer"}

-----------------------------------------------------------------------------
(* Mail slots.                                                             *)

\* CreateMailslot fails when the slot exists.
CreateMailslot(p, s) ==
  /\ owner[s] = Nil
  /\ owner' = [owner EXCEPT ![s] = p] /\ box' = [box EXCEPT ![s] = <<>>]

\* (What was in the slot stays there for the next owner.)
CloseHandles_Kept(p, S) ==
  LET closed == {s \in S : owner[s] = p}
  IN owner' = [s \in Slots |-> IF s \in closed THEN Nil ELSE owner[s]] /\ UNCHANGED box

\* A slot is closed by its owner, and each of them when the process ends.
CloseHandles(p, S) ==
  LET closed == {s \in S : owner[s] = p}
  IN /\ owner' = [s \in Slots |-> IF s \in closed THEN Nil ELSE owner[s]]
     /\ box' = [s \in Slots |-> IF s \in closed THEN <<>> ELSE box[s]]
Unread(p) == owner["mtpmountdaemon"] = p /\ box["mtpmountdaemon"] # <<>>

\* Nobody looks at what sendString returns.
SendString(msg, s) ==
  box' = IF owner[s] = Nil THEN box ELSE [box EXCEPT ![s] = Append(@, msg)]

\* recvString waits for ever: a time-out only makes it read again.
RecvString(p, s) ==
  owner[s] = p /\ box[s] # <<>> /\ box' = [box EXCEPT ![s] = Tail(@)]

Fault(kind) == left > 0 /\ left' = left - 1 /\ trouble' = trouble \cup {kind}
Note(cond, kind) == trouble' = IF cond THEN trouble \cup {kind} ELSE trouble

-----------------------------------------------------------------------------
(* The controller.                                                         *)

At(c, step) == ctl[c].step = step
Go(c, step) == ctl' = [ctl EXCEPT ![c].step = step]
Ended(c, result) == ctl' = [ctl EXCEPT ![c].step = "end", ![c].result = result]
Done(c, whose) == Ended(c, IF whose = c /\ ctl[c].result = "none" THEN "own" ELSE "other")

Start(c) ==
  /\ At(c, "ready")
  /\ \E cmd \in Commands : ctl' = [ctl EXCEPT ![c] = [cmd |-> cmd, step |-> "probe", result |-> "none"]]
  /\ UNCHANGED <<slots, dae, unsynced, stale, trouble, left>>

\* (A slot that cannot be created is taken for one that does not exist.)
DoesEndpointExist_Never(c) ==
  /\ At(c, "probe") /\ Go(c, "probing") /\ stale' = stale \ {c}
  /\ UNCHANGED <<slots, dae, unsynced, trouble, left>>

\* doesEndpointExist: the daemon runs when its slot cannot be created, be it that
\* another controller is just trying the same.
DoesEndpointExist(c) ==
  /\ At(c, "probe") /\ stale' = stale \ {c}
  /\ \/ /\ owner["mtpmountdaemon"] # Nil
        /\ IF ctl[c].cmd = "revive" THEN Done(c, c) /\ CloseHandles(c, Slots)
           ELSE Go(c, "open") /\ UNCHANGED slots
     \/ CreateMailslot(c, "mtpmountdaemon") /\ Go(c, "probing")
  /\ Note(owner["mtpmountdaemon"] \in Controllers, "misled")
  /\ UNCHANGED <<dae, unsynced, left>>

\* It closes the slot again; what somebody has sent there meanwhile is lost.
ProbeClosed(c) ==
  /\ At(c, "probing") /\ Note(Unread(c), "dropped")
  /\ CloseHandles(c, {"mtpmountdaemon"})
  /\ IF ctl[c].cmd \in {"terminate", "restart"} THEN Ended(c, "nodaemon") ELSE Go(c, "listen")
  /\ UNCHANGED <<dae, unsynced, stale, left>>

\* ensureDaemonIsRunning: only one controller at a time can wait for a daemon to start.
ListenForStartup(c) ==
  /\ At(c, "listen")
  /\ \/ CreateMailslot(c, "mtpmountstartup") /\ Go(c, "spawn")
     \/ owner["mtpmountstartup"] # Nil /\ Ended(c, "aborted") /\ CloseHandles(c, Slots)
  /\ UNCHANGED <<dae, unsynced, stale, trouble, left>>

CreateDaemon(c) ==
  /\ At(c, "spawn")
  /\ \/ /\ dae' = Append(dae, [step |-> "boot", client |-> Nil, mounts |-> FALSE])
        /\ stale' = IF c \in stale THEN stale \cup {Len(dae) + 1} ELSE stale
        /\ Go(c, "await") /\ UNCHANGED <<slots, trouble, left>>
     \/ /\ Fault("noprocess") /\ Ended(c, "noprocess") /\ CloseHandles(c, Slots)
        /\ UNCHANGED <<dae, stale>>
  /\ UNCHANGED unsynced

\* (The wait ends when its second is over.)
AwaitStartup_TimesOut(c) ==
  /\ At(c, "await")
  /\ IF ctl[c].cmd = "revive" THEN Done(c, c) /\ CloseHandles(c, Slots)
     ELSE Go(c, "open") /\ CloseHandles(c, {"mtpmountstartup"})
  /\ UNCHANGED <<dae, unsynced, stale, trouble, left>>

\* The daemon is there: the startup listener is closed, and the command goes on.
AwaitStartup(c) ==
  /\ At(c, "await") /\ box["mtpmountstartup"] # <<>>
  /\ IF ctl[c].cmd = "revive" THEN Done(c, c) /\ CloseHandles(c, Slots)
     ELSE Go(c, "open") /\ CloseHandles(c, {"mtpmountstartup"})
  /\ UNCHANGED <<dae, unsynced, stale, trouble, left>>

\* (The answers of another controller are read as well.)
OpenController_Shared(c) ==
  /\ At(c, "open") /\ Go(c, "send")
  /\ owner' = [owner EXCEPT !["mtpmountcontroller"] = c]
  /\ UNCHANGED <<box, dae, unsynced, stale, trouble, left>>

OpenController(c) ==
  /\ At(c, "open")
  /\ \/ CreateMailslot(c, "mtpmountcontroller") /\ Go(c, "send")
     \/ owner["mtpmountcontroller"] # Nil /\ Ended(c, "aborted") /\ CloseHandles(c, Slots)
  /\ UNCHANGED <<dae, unsynced, stale, trouble, left>>

\* A command that is too long is not sent.
SendCommand(c) ==
  /\ At(c, "send") /\ Go(c, "recv")
  /\ \/ /\ SendString([kind |-> ctl[c].cmd, to |-> c], "mtpmountdaemon")
        /\ Note(owner["mtpmountdaemon"] = Nil, "dropped") /\ UNCHANGED left
     \/ Fault("toolong") /\ UNCHANGED box
  /\ UNCHANGED <<owner, dae, unsynced, stale>>

\* Output is printed until the return code comes.
PrintOutput(c) ==
  /\ At(c, "recv") /\ RecvString(c, "mtpmountcontroller")
  /\ Head(box["mtpmountcontroller"]).kind = "output"
  /\ ctl' = [ctl EXCEPT ![c].result =
       IF Head(box["mtpmountcontroller"]).to = c THEN @ ELSE "other"]
  /\ UNCHANGED <<owner, dae, unsynced, stale, trouble, left>>

\* restart keeps its slot open and looks for the daemon again.
Return(c) ==
  /\ At(c, "recv") /\ box["mtpmountcontroller"] # <<>>
  /\ LET msg == Head(box["mtpmountcontroller"]) IN
     /\ msg.kind = "return"
     /\ IF ctl[c].cmd = "restart"
        THEN /\ ctl' = [ctl EXCEPT ![c].cmd = "revive", ![c].step = "probe",
                                ![c].result = IF msg.to = c THEN @ ELSE "other"]
             /\ RecvString(c, "mtpmountcontroller") /\ UNCHANGED owner
        ELSE /\ Done(c, msg.to) /\ CloseHandles(c, Slots)
  /\ UNCHANGED <<dae, unsynced, stale, trouble, left>>

\* The user stops waiting.
Kill(c) ==
  /\ ctl[c].step \notin {"ready", "end"}
  /\ left > 0 /\ left' = left - 1
  /\ trouble' = trouble \cup {"killed"} \cup IF Unread(c) THEN {"dropped"} ELSE {}
  /\ Ended(c, "killed") /\ CloseHandles(c, Slots)
  /\ UNCHANGED <<dae, unsynced, stale>>

Controller(c) ==
  \/ DoesEndpointExist(c) \/ ProbeClosed(c) \/ ListenForStartup(c) \/ CreateDaemon(c)
  \/ AwaitStartup(c) \/ OpenController(c) \/ SendCommand(c)
  \/ PrintOutput(c) \/ Return(c)

-----------------------------------------------------------------------------
(* The daemon.                                                             *)

Does(d, step) == dae[d].step = step
Turn(d, step) == dae' = [dae EXCEPT ![d].step = step]

\* The cache directory is emptied, whoever uses it, before the slot is created.
ClaimCache(d) ==
  /\ Does(d, "boot")
  /\ \/ Turn(d, "create") /\ unsynced' = {} /\ UNCHANGED <<trouble, left>>
     \/ Turn(d, "failed") /\ Fault("boot") /\ UNCHANGED unsynced
  /\ UNCHANGED <<slots, ctl, stale>>

CreateSlot(d) ==
  /\ Does(d, "create")
  /\ \/ /\ CreateMailslot(d, "mtpmountdaemon") /\ Turn(d, "signal")
        /\ stale' = stale \cup {c \in Controllers : ctl[c].step \in {"probing", "listen", "spawn"}}
                          \cup {e \in Daemons \ {d} : dae[e].step \in {"boot", "create"}}
        /\ UNCHANGED trouble
     \/ /\ owner["mtpmountdaemon"] # Nil /\ Turn(d, "failed")
        /\ Note(TRUE, "boot") /\ UNCHANGED <<slots, stale>>
  /\ UNCHANGED <<ctl, unsynced, left>>

SignalStartup(d) ==
  /\ Does(d, "signal") /\ Turn(d, "listen")
  /\ SendString([kind |-> "ok", to |-> Nil], "mtpmountstartup")
  /\ UNCHANGED <<owner, ctl, unsynced, stale, trouble, left>>

\* (exit is not answered.)
Listen_Silent(d) ==
  /\ Does(d, "listen") /\ owner["mtpmountdaemon"] = d /\ box["mtpmountdaemon"] # <<>>
  /\ LET msg == Head(box["mtpmountdaemon"])
     IN IF msg.kind \in {"terminate", "restart"} THEN Turn(d, "closing")
        ELSE dae' = [dae EXCEPT ![d].step = "run", ![d].client = msg.to]
  /\ RecvString(d, "mtpmountdaemon")
  /\ UNCHANGED <<owner, ctl, unsynced, stale, trouble, left>>

\* exit is answered at once, with the slot still open; nothing is synced.
Listen(d) ==
  /\ Does(d, "listen") /\ owner["mtpmountdaemon"] = d /\ box["mtpmountdaemon"] # <<>>
  /\ LET msg == Head(box["mtpmountdaemon"])
         rest == [box EXCEPT !["mtpmountdaemon"] = Tail(@)]
     IN IF msg.kind \in {"terminate", "restart"}
        THEN /\ Turn(d, "closing")
             /\ box' = IF owner["mtpmountcontroller"] = Nil THEN rest
                       ELSE [rest EXCEPT !["mtpmountcontroller"] = Append(@, [kind |-> "return", to |-> msg.to])]
        ELSE /\ dae' = [dae EXCEPT ![d].step = "run", ![d].client = msg.to] /\ box' = rest
  /\ UNCHANGED <<owner, ctl, unsynced, stale, trouble, left>>

\* A command prints, and may end the daemon by what it throws.
RunCommand(d) ==
  /\ Does(d, "run")
  /\ \/ /\ Turn(d, "answer") /\ SendString([kind |-> "output", to |-> dae[d].client], "mtpmountcontroller")
        /\ UNCHANGED <<owner, trouble, left>>
     \/ Turn(d, "crashed") /\ Fault("crash") /\ CloseHandles(d, Slots)
  /\ UNCHANGED <<ctl, unsynced, stale>>

SendReturn(d) ==
  /\ Does(d, "answer") /\ dae' = [dae EXCEPT ![d].step = "listen", ![d].mounts = TRUE]
  /\ SendString([kind |-> "return", to |-> dae[d].client], "mtpmountcontroller")
  /\ UNCHANGED <<owner, ctl, unsynced, stale, trouble, left>>

Exit(d) ==
  /\ Does(d, "closing") /\ Turn(d, "exited")
  /\ Note(Unread(d), "dropped") /\ CloseHandles(d, Slots)
  /\ UNCHANGED <<ctl, unsynced, stale, left>>

Daemon(d) ==
  ClaimCache(d) \/ CreateSlot(d) \/ SignalStartup(d) \/ Listen(d) \/ RunCommand(d)
  \/ SendReturn(d) \/ Exit(d)

\* Files are written on a mounted drive, and pushed to the device later on.
Write(d) == Running(d) /\ dae[d].mounts /\ unsynced' = unsynced \cup {d}
Sync(d) == Running(d) /\ d \in unsynced /\ unsynced' = unsynced \ {d}
Use(d) == (Write(d) \/ Sync(d)) /\ UNCHANGED <<slots, ctl, dae, stale, trouble, left>>

Init ==
  /\ owner = [s \in Slots |-> Nil] /\ box = [s \in Slots |-> <<>>]
  /\ ctl = [c \in Controllers |-> [cmd |-> "none", step |-> "ready", result |-> "none"]]
  /\ dae = <<>> /\ unsynced = {} /\ stale = {} /\ trouble = {} /\ left = MaxFaults

Next == \/ \E c \in Controllers : Start(c) \/ Controller(c) \/ Kill(c)
        \/ \E d \in Daemons : Daemon(d) \/ Use(d)
Spec == Init /\ [][Next]_vars

\* As long as one of the processes can go on, one of them does; nothing makes the user
\* start, kill or write.
FairSpec ==
  /\ Spec
  /\ WF_vars(\E c \in Controllers : Controller(c))
  /\ WF_vars(\E d \in Daemons : Daemon(d))

-----------------------------------------------------------------------------
(* Properties.                                                             *)

Procs == Controllers \cup 1 .. Cardinality(Controllers)
TypeOK ==
  /\ owner \in [Slots -> Procs \cup {Nil}]
  /\ \A s \in Slots : \A i \in DOMAIN box[s] : box[s][i] \in
       [kind : Commands \cup {"ok", "output", "return"}, to : Controllers \cup {Nil}]
  /\ \A s \in Slots : owner[s] = Nil => box[s] = <<>>
  /\ DOMAIN ctl = Controllers
  /\ unsynced \subseteq Daemons /\ stale \subseteq Procs /\ left \in 0 .. MaxFaults

\* A controller prints the answer to its own command, unless one was killed: what the
\* daemon had still to say to that one goes to the next.
AnswerIsOwn == \A c \in Controllers : ctl[c].result = "other" => "killed" \in trouble

\* A command is dropped only where a daemon ends, or where a controller takes the probe
\* of another one for the daemon.
DroppedOnlyByExit ==
  "dropped" \in trouble => \/ "misled" \in trouble
                           \/ \E d \in Daemons : dae[d].step \in {"closing", "exited", "crashed"}

\* A second daemon, which takes the files a running daemon has not synced and then dies
\* without a word, was started on a probe older than the slot of the first; and so was
\* any daemon that finds the slot taken by another one.
OnlyLateStartersHarm ==
  [][\A e \in Daemons :
       /\ Does(e, "boot") /\ dae'[e].step = "create" /\ (\E d \in unsynced : Running(d)) => e \in stale
       /\ Does(e, "create") /\ dae'[e].step = "failed" => e \in stale \/ owner["mtpmountdaemon"] \in Controllers]_vars

\* Every command that is started ends, unless it was dropped or too long for the slot, or
\* the daemon crashed or did not start: a controller waits for ever without a time-out.
EndsUnlessTrouble ==
  <>[](trouble \cap {"dropped", "toolong", "crash", "boot"} = {}
         => \A c \in Controllers : At(c, "ready") \/ At(c, "end"))
=============================================================================
