----------------------------- MODULE CommandLine -----------------------------
(***************************************************************************)
(* Invocations of mc that run side by side.  They share the configuration   *)
(* file, which each reads, truncates and writes without a lock, the daemon  *)
(* behind the socket's path, which any of them may start, stop or reset,    *)
(* and the radios, which a daemon's session or a direct connection holds    *)
(* exclusively.  A call to the daemon may fail although it answers others.  *)
(***************************************************************************)
EXTENDS Naturals, FiniteSets, Sequences

CONSTANTS
  Procs,      \* invocations, each of one command
  Devices,    \* device profiles there may be; repeater profiles likewise
  MaxDaemons  \* bound: daemon processes started

None == 0
Free == <<"free", 0>>
Daemons == 1..MaxDaemons

VARIABLES
  cfg,      \* the configuration file: [devices, current, autostart, repeaters,
            \* currentRepeater]
  file,     \* whole: it holds cfg | empty: missing, or truncated and not yet
            \* written | broken: its text does not parse
  socket,   \* daemon bound to the socket's path, or None
  daemon,   \* [state, profiles, pending, sessions] of every daemon process:
            \* none | boot | loaded | serving | asked (to stop) | closing
            \* | stopping | dead
  radio,    \* who holds a device: <<"daemon", i>>, <<"proc", p>> or Free
  proc      \* [cmd, dev, todo, copy, asked, misled, ok] of every invocation;
            \* asked: the daemon it asked to stop; misled: it took that daemon
            \* for stopped because its status calls failed

vars == <<cfg, file, socket, daemon, radio, proc>>

Empty == [devices |-> {}, current |-> None, autostart |-> {}, repeaters |-> {},
          currentRepeater |-> None]

NoDaemon == [state |-> "none", profiles |-> {}, pending |-> {}, sessions |-> {}]
Idle == [cmd |-> "none", dev |-> None, todo |-> <<>>, copy |-> Empty, asked |-> None,
         misled |-> FALSE, ok |-> TRUE]

Init == /\ \E d \in Devices : cfg = [Empty EXCEPT !.devices = {d}, !.current = d]
        /\ file = "whole" /\ socket = None
        /\ daemon = [i \in Daemons |-> NoDaemon]
        /\ radio = [d \in Devices |-> Free]
        /\ proc = [p \in Procs |-> Idle]

-----------------------------------------------------------------------------
(* config.go: a missing or truncated file loads as an empty configuration;  *)
(* one that does not parse fails the load.                                  *)
Load == IF file = "empty" THEN Empty ELSE cfg

Put(c, d) == [c EXCEPT !.devices = @ \union {d}, !.current = d, !.autostart = @ \ {d}]
Remove(c, d) == [c EXCEPT !.devices = @ \ {d}, !.autostart = @ \ {d},
                          !.current = IF @ = d THEN None ELSE @]
\* repeaterAdd first deletes the profile, if any, that its query matches.
PutRepeater(c, r, old) == [c EXCEPT !.repeaters = (@ \ {old}) \union {r}, !.currentRepeater = r]
RemoveRepeater(c, r) == [c EXCEPT !.repeaters = @ \ {r},
                                  !.currentRepeater = IF @ = r THEN None ELSE @]

\* setDeviceAutostart and cmdUse refuse an unknown profile.
setDeviceAutostart(c, d) == [c EXCEPT !.autostart = @ \union {d}]
cmdUse(c, d) == [c EXCEPT !.current = d]

\* What a text reads as when it is written over the beginning of a longer one:
\* the selections come before the maps of profiles, which are last, so that a
\* tail that parses adds to the maps.
Overlaid(c, devs, reps, auto) ==
  [c EXCEPT !.devices = @ \union devs, !.repeaters = @ \union reps,
            !.autostart = @ \union (auto \intersect (c.devices \union devs))]

-----------------------------------------------------------------------------
(* What a command does, step by step.  "alive" steps over stopBackend, or   *)
(* fails, if no daemon answers, "spawn" steps over spawnDaemon if one does, *)
(* "wait" lasts until a daemon answers and "gone" until none does.          *)
spawnDaemon == <<"spawn", "wait">>
launchBackend == <<"launch", "wait">>
stopBackend == <<"alive", "stop", "gone">>

\* WriteFile truncates the file, then writes it.
Save == <<"truncate", "write">>

cmdConnect == <<"dial", "load", "put">> \o Save
maybeOfferBackendStart == <<"load", "current", "load", "autostart">> \o Save
                            \o spawnDaemon \o <<"session">>
deviceRemove == <<"load", "remove", "halt">> \o Save
repeaterAdd == <<"open", "load", "putRepeater">> \o Save \o <<"close">>
repeaterDel == <<"load", "removeRepeater">> \o Save
backendReset == stopBackend \o <<"reset">>
backendRestart == stopBackend \o launchBackend
sessionRestart == spawnDaemon \o <<"halt", "session">>
cmdContacts == <<"open", "close">>          \* so do send, inbox, trace, watch...
cachedContacts == <<"openCached", "close">>
cmdShell == <<"openShell", "close">>

Program(cmd) ==
  CASE cmd = "connect"         -> cmdConnect
    [] cmd = "connect-start"   -> cmdConnect \o maybeOfferBackendStart
    [] cmd = "use"             -> <<"load", "use">> \o Save
    [] cmd = "device remove"   -> deviceRemove
    [] cmd = "repeater add"    -> repeaterAdd
    [] cmd = "repeater del"    -> repeaterDel
    [] cmd = "backend start"   -> spawnDaemon
    [] cmd = "backend stop"    -> stopBackend
    [] cmd = "backend restart" -> backendRestart
    [] cmd = "backend reset"   -> backendReset
    [] cmd = "restart --reset" -> backendReset \o launchBackend
    [] cmd = "session start"   -> spawnDaemon \o <<"session">>
    [] cmd = "session stop"    -> <<"alive", "halt">>
    [] cmd = "session restart" -> sessionRestart
    [] cmd = "contacts"        -> cmdContacts
    [] cmd = "contacts cached" -> cachedContacts
    [] cmd = "shell"           -> cmdShell

Commands == {"connect", "connect-start", "use", "device remove", "repeater add",
             "repeater del", "backend start", "backend stop", "backend restart",
             "backend reset", "restart --reset", "session start", "session stop",
             "session restart", "contacts", "contacts cached", "shell"}

Run(p, cmd, d) == /\ proc[p].cmd = "none"
                  /\ proc' = [proc EXCEPT ![p].cmd = cmd, ![p].dev = d, ![p].todo = Program(cmd)]
                  /\ UNCHANGED <<cfg, file, socket, daemon, radio>>

At(p, step) == proc[p].todo # <<>> /\ Head(proc[p].todo) = step
Done(p) == proc' = [proc EXCEPT ![p].todo = Tail(@)]
Fail(p) == proc' = [proc EXCEPT ![p].todo = <<>>, ![p].copy = Empty, ![p].ok = FALSE]
Skip(p, n) == proc' = [proc EXCEPT ![p].todo = SubSeq(@, n + 1, Len(@))]
Answers == socket # None /\ daemon[socket].state \in {"serving", "asked"}

\* cmdConnect: the radio is dialled, asked for its identity and released.
Dial(p) == /\ At(p, "dial")
           /\ IF radio[proc[p].dev] = Free THEN Done(p) ELSE Fail(p)
           /\ UNCHANGED <<cfg, file, socket, daemon, radio>>

LoadConfig(p) == /\ At(p, "load")
                 /\ IF file = "broken" THEN Fail(p)
                    ELSE proc' = [proc EXCEPT ![p].todo = Tail(@), ![p].copy = Load]
                 /\ UNCHANGED <<cfg, file, socket, daemon, radio>>

Edit(p, step, known, copy) ==
  /\ At(p, step)
  /\ IF known THEN proc' = [proc EXCEPT ![p].todo = Tail(@), ![p].copy = copy] ELSE Fail(p)
  /\ UNCHANGED <<cfg, file, socket, daemon, radio>>

EditConfig(p) == LET c == proc[p].copy   d == proc[p].dev IN
  \/ Edit(p, "put", TRUE, Put(c, d))
  \/ Edit(p, "autostart", d \in c.devices, setDeviceAutostart(c, d))
  \/ Edit(p, "use", d \in c.devices, cmdUse(c, d))
  \/ Edit(p, "remove", d \in c.devices, Remove(c, d))
  \/ \E old \in c.repeaters \union {None} : Edit(p, "putRepeater", TRUE, PutRepeater(c, d, old))
  \/ Edit(p, "removeRepeater", d \in c.repeaters, RemoveRepeater(c, d))

\* maybeOfferBackendStart goes on with whatever device is current by then.
CurrentDevice(p) == LET d == proc[p].copy.current IN
  /\ At(p, "current")
  /\ proc' = IF d = None THEN [proc EXCEPT ![p].todo = <<>>]
             ELSE [proc EXCEPT ![p].todo = Tail(@), ![p].dev = d]
  /\ UNCHANGED <<cfg, file, socket, daemon, radio>>

Truncate(p) == /\ At(p, "truncate")
               /\ file' = "empty" /\ Done(p)
               /\ UNCHANGED <<cfg, socket, daemon, radio>>

\* Both write from the beginning: over a text that another invocation has
\* written since, a shorter one leaves the tail of the longer.  The text of the
\* empty configuration is the beginning of every other.
Write(p) == LET c == proc[p].copy IN
  /\ At(p, "write")
  /\ proc' = [proc EXCEPT ![p].todo = Tail(@), ![p].copy = Empty]
  /\ \/ file' = "whole" /\ cfg' = c
     \/ /\ file # "empty" /\ file' = "whole"
        /\ \E devs, reps, auto \in SUBSET Devices : cfg' = Overlaid(c, devs, reps, auto)
     \/ file # "empty" /\ file' = "broken" /\ UNCHANGED cfg
     \/ file # "empty" /\ c = Empty /\ UNCHANGED <<cfg, file>>
  /\ UNCHANGED <<socket, daemon, radio>>

-----------------------------------------------------------------------------
(* Commands that manage the daemon and its sessions.                        *)
\* Commands that go on when there is nothing to stop
Anyway == {"backend restart", "backend reset", "restart --reset"}

\* The daemon does not run, or both status calls failed.
daemonRunning(p) == /\ At(p, "alive")
                    /\ \/ Answers /\ Done(p)
                       \/ proc[p].cmd \in Anyway /\ Skip(p, Len(stopBackend))
                       \/ proc[p].cmd \notin Anyway /\ Fail(p)
                    /\ UNCHANGED <<cfg, file, socket, daemon, radio>>

Unused == {i \in Daemons : daemon[i].state = "none"}

\* --device or --uri are passed on.
Spawn(p) == /\ At(p, "spawn") \/ At(p, "launch")
            /\ \/ /\ Answers /\ At(p, "spawn")
                  /\ Skip(p, Len(spawnDaemon)) /\ UNCHANGED daemon
               \/ /\ Done(p)
                  /\ \E i \in Unused, explicit \in {{}, {proc[p].dev}} :
                       /\ \A j \in Unused : i <= j
                       /\ daemon' = [daemon EXCEPT ![i].state = "boot", ![i].pending = explicit]
            /\ UNCHANGED <<cfg, file, socket, radio>>

\* Until the daemon answers, or the wait times out.
AwaitDaemon(p) == /\ At(p, "wait")
                  /\ (Answers /\ Done(p)) \/ Fail(p)
                  /\ UNCHANGED <<cfg, file, socket, daemon, radio>>

\* The stop request is answered before anything is stopped; the answer may be
\* lost.
Stop(p) == /\ At(p, "stop")
           /\ \/ /\ Answers
                 /\ daemon' = [daemon EXCEPT ![socket].state = "asked"]
                 /\ Fail(p) \/ proc' = [proc EXCEPT ![p].todo = Tail(@), ![p].asked = socket]
              \/ Fail(p) /\ UNCHANGED daemon
           /\ UNCHANGED <<cfg, file, socket, radio>>

\* Faulty variant: it does not wait until nothing answers.
AwaitGone_Once(p) == /\ At(p, "gone")
                     /\ Done(p)
                     /\ UNCHANGED <<cfg, file, socket, daemon, radio>>

\* stopBackend polls until nothing answers, or gives up.
AwaitGone(p) == /\ At(p, "gone")
                /\ \/ Answers /\ Fail(p)
                   \/ proc' = [proc EXCEPT ![p].todo = Tail(@), ![p].misled = Answers]
                /\ UNCHANGED <<cfg, file, socket, daemon, radio>>

\* ResetState removes the databases, the log and the socket.
ResetState(p) == /\ At(p, "reset")
                 /\ Done(p)
                 /\ socket' = None
                 /\ UNCHANGED <<cfg, file, daemon, radio>>

SessionStart(p) == /\ At(p, "session")
                   /\ \/ /\ Answers /\ proc[p].dev \in daemon[socket].profiles
                         /\ Done(p)
                         /\ daemon' = [daemon EXCEPT ![socket].pending = @ \union {proc[p].dev}]
                      \/ Fail(p) /\ UNCHANGED daemon
                   /\ UNCHANGED <<cfg, file, socket, radio>>

\* device remove goes on when no daemon answers.
SessionStop(p) == LET d == proc[p].dev IN
  /\ At(p, "halt")
  /\ Done(p)
  /\ \/ /\ Answers /\ d \in daemon[socket].sessions
        /\ daemon' = [daemon EXCEPT ![socket].sessions = @ \ {d}]
        /\ radio' = [radio EXCEPT ![d] = Free]
     \/ UNCHANGED <<daemon, radio>>
  /\ UNCHANGED <<cfg, file, socket>>

\* openBackend: the daemon's healthy session, or an error if it is degraded;
\* a direct connection if the daemon or its session does not answer.
openBackend(p) == LET d == proc[p].dev IN
  /\ At(p, "open")
  /\ \/ Answers /\ d \in daemon[socket].sessions /\ (Done(p) \/ Fail(p)) /\ UNCHANGED radio
     \/ IF radio[d] = Free THEN Done(p) /\ radio' = [radio EXCEPT ![d] = <<"proc", p>>]
        ELSE Fail(p) /\ UNCHANGED radio
  /\ UNCHANGED <<cfg, file, socket, daemon>>

\* openIPCBackendAllowDegraded: the daemon's session in whatever state, or an error.
openCached(p) ==
  /\ At(p, "openCached")
  /\ (Answers /\ proc[p].dev \in daemon[socket].sessions /\ Done(p)) \/ Fail(p)
  /\ UNCHANGED <<cfg, file, socket, daemon, radio>>

\* openShellSession: the daemon's healthy session, or a daemon of its own, at
\* a path of its own, that dials the radio and goes with the shell.
openShellSession(p) == LET d == proc[p].dev IN
  /\ At(p, "openShell")
  /\ \/ Answers /\ d \in daemon[socket].sessions /\ Done(p) /\ UNCHANGED radio
     \/ IF radio[d] = Free THEN Done(p) /\ radio' = [radio EXCEPT ![d] = <<"proc", p>>]
        ELSE Fail(p) /\ UNCHANGED radio
  /\ UNCHANGED <<cfg, file, socket, daemon>>

CloseBackend(p) == /\ proc[p].todo = <<>> \/ At(p, "close")
                   /\ \/ At(p, "close")
                      \/ \E d \in Devices : radio[d] = <<"proc", p>>
                   /\ proc' = [proc EXCEPT ![p].todo = <<>>]
                   /\ radio' = [d \in Devices |-> IF radio[d] = <<"proc", p>> THEN Free ELSE radio[d]]
                   /\ UNCHANGED <<cfg, file, socket, daemon>>

Step(p) == \/ Dial(p) \/ LoadConfig(p) \/ EditConfig(p) \/ CurrentDevice(p) \/ Truncate(p) \/ Write(p)
           \/ daemonRunning(p) \/ Spawn(p) \/ AwaitDaemon(p) \/ Stop(p) \/ AwaitGone(p)
           \/ ResetState(p) \/ SessionStart(p) \/ SessionStop(p)
           \/ openBackend(p) \/ openCached(p) \/ openShellSession(p) \/ CloseBackend(p)

-----------------------------------------------------------------------------
(* A daemon process: backendServe and Daemon.Serve.                         *)
\* The device of --device or --uri is registered and started too; a --device that
\* is no profile ends the process, like a file that does not parse.
backendServe(i) == LET explicit == daemon[i].pending IN
  /\ daemon[i].state = "boot"
  /\ \/ /\ file # "broken"
        /\ daemon' = [daemon EXCEPT ![i].state = "loaded",
                                    ![i].profiles = Load.devices \union explicit,
                                    ![i].pending = Load.autostart \union explicit]
     \/ /\ file = "broken" \/ ~(explicit \subseteq Load.devices)
        /\ daemon' = [daemon EXCEPT ![i].state = "dead", ![i].pending = {}]
  /\ UNCHANGED <<cfg, file, socket, radio, proc>>

\* Whatever was at the path is removed.
Listen(i) == /\ daemon[i].state = "loaded"
             /\ daemon' = [daemon EXCEPT ![i].state = "serving"]
             /\ socket' = i
             /\ UNCHANGED <<cfg, file, radio, proc>>

startSession(i, d) ==
  /\ d \in daemon[i].pending /\ daemon[i].state \notin {"boot", "loaded", "dead"}
  /\ IF radio[d] = Free
     THEN /\ radio' = [radio EXCEPT ![d] = <<"daemon", i>>]
          /\ daemon' = [daemon EXCEPT ![i].pending = @ \ {d}, ![i].sessions = @ \union {d}]
     ELSE daemon' = [daemon EXCEPT ![i].pending = @ \ {d}] /\ UNCHANGED radio
  /\ UNCHANGED <<cfg, file, socket, proc>>

\* Daemon.Stop: closing the listener unlinks the path, whoever is bound to it.
CloseListener(i) == /\ daemon[i].state = "asked"
                    /\ daemon' = [daemon EXCEPT ![i].state = "closing"]
                    /\ socket' = None
                    /\ UNCHANGED <<cfg, file, radio, proc>>

\* The deferred cleanup: remove the path, then stop every session.
RemoveSocket(i) == /\ daemon[i].state = "closing"
                   /\ daemon' = [daemon EXCEPT ![i].state = "stopping"]
                   /\ socket' = None
                   /\ UNCHANGED <<cfg, file, radio, proc>>

stopAllSessions(i) ==
  /\ daemon[i].state = "stopping"
  /\ daemon' = [daemon EXCEPT ![i].state = "dead", ![i].sessions = {}, ![i].pending = {}]
  /\ radio' = [d \in Devices |-> IF radio[d] = <<"daemon", i>> THEN Free ELSE radio[d]]
  /\ UNCHANGED <<cfg, file, socket, proc>>

Next == \/ \E p \in Procs : Step(p) \/ \E cmd \in Commands, d \in Devices : Run(p, cmd, d)
        \/ \E i \in Daemons : \/ backendServe(i) \/ Listen(i) \/ CloseListener(i) \/ RemoveSocket(i) \/ stopAllSessions(i)
                              \/ \E d \in Devices : startSession(i, d)

Spec == Init /\ [][Next]_vars

-----------------------------------------------------------------------------
\* However the invocations interleave, even if one reads the file while another
\* is writing it or two write it at once, what the file reads as, if it parses,
\* has saved profiles as its current device and repeater: Remove,
\* RemoveRepeater and the order of the file's fields see to that.
CurrentIsSaved == /\ cfg.current \in cfg.devices \union {None}
                  /\ cfg.currentRepeater \in cfg.repeaters \union {None}
                  /\ cfg.autostart \subseteq cfg.devices

\* stop, restart and reset go on only when the daemon they have asked to stop
\* can no longer be reached, and it stays so whoever starts, stops or resets
\* daemons meanwhile; unless the status calls that told them so had failed.
StopIsTrue ==
  \A p \in Procs : (proc[p].asked # None /\ proc[p].ok /\ ~At(p, "gone") /\ ~proc[p].misled)
                     => ~(socket = proc[p].asked /\ Answers)

\* What the commands report and save is true of the shared files and processes.
CommandsTellTruth == CurrentIsSaved /\ StopIsTrue
=============================================================================
