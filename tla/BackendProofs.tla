---------------------------- MODULE BackendProofs ----------------------------
(***************************************************************************)
(* Theorems about the programs that use the backend: invocations of the    *)
(* command line (CommandLine), for any number of them, of profiles and of  *)
(* daemons; repeater commands (Repeaters), for any repeaters and nodes; a  *)
(* chat (Chat), for any texts, any stream and any number of messages.      *)
(***************************************************************************)
EXTENDS MCBackend, Sequences, WellFoundedInduction, TLAPS

-----------------------------------------------------------------------------
(* CommandLine: types.                                                     *)

Daemons == 1..MaxDaemons
Some == Profiles \union {0}

Config == [devices : SUBSET Some, current : Some, autostart : SUBSET Some,
           repeaters : SUBSET Some, currentRepeater : Some]

\* The steps commands are made of.
StepNames ==
  {"dial", "load", "put", "write", "current", "autostart", "use", "remove",
   "putRepeater", "removeRepeater", "truncate", "halt", "open", "openCached", "openShell",
   "close", "alive", "stop", "gone", "reset", "spawn", "launch", "wait",
   "session"}

States == {"none", "boot", "loaded", "serving", "asked", "closing", "stopping", "dead"}

DaemonType == [state : States, profiles : SUBSET Some, pending : SUBSET Some,
               sessions : SUBSET Profiles]

ProcType == [cmd : Cli!Commands \union {"none"}, dev : Some,
             todo : Seq(StepNames), copy : Config, asked : 0..MaxDaemons,
             misled : BOOLEAN, ok : BOOLEAN]

Files == {"whole", "empty", "broken"}

CliTypes ==
  /\ cfg \in Config
  /\ file \in Files
  /\ socket \in 0..MaxDaemons
  /\ daemon \in [Daemons -> DaemonType]
  /\ proc \in [Procs -> ProcType]

-----------------------------------------------------------------------------
(* CommandLine: the inductive invariant.                                   *)

\* CurrentIsSaved of any configuration.
Sound(c) ==
  /\ c.current \in c.devices \union {0}
  /\ c.currentRepeater \in c.repeaters \union {0}
  /\ c.autostart \subseteq c.devices

\* What the file reads as is sound, and so is every copy an invocation holds:
\* what it writes back was sound when it was read.
ConfigInv == Sound(cfg) /\ \A p \in Procs : Sound(proc[p].copy)

\* In a command, what follows a stop request is the wait for its effect.
Paired(s) ==
  \A k \in 1..Len(s) : s[k] = "stop" => k < Len(s) /\ s[k + 1] = "gone"

ProgramInv ==
  \A p \in Procs :
    /\ Paired(proc[p].todo)
    /\ proc[p].cmd = "none" => proc[p].todo = <<>>

\* A daemon that was asked to stop never serves again.
Ending == {"asked", "closing", "stopping", "dead"}

AskedInv ==
  \A p \in Procs :
    proc[p].asked # 0 => daemon[proc[p].asked].state \in Ending

\* StopIsTrue.
Reached(i) == socket = i /\ Cli!Answers

UnreachedInv ==
  \A p \in Procs :
    proc[p].asked # 0 /\ proc[p].ok /\ ~Cli!At(p, "gone") /\ ~proc[p].misled
      => ~Reached(proc[p].asked)

CliInv == CliTypes /\ ConfigInv /\ ProgramInv /\ AskedInv /\ UnreachedInv

\* What is left of a command is still paired.
LEMMA PairedTail ==
  ASSUME NEW s \in Seq(StepNames), Paired(s), s # <<>>
  PROVE  Tail(s) \in Seq(StepNames) /\ Paired(Tail(s))
  <1>1. /\ Tail(s) \in Seq(StepNames) /\ Len(Tail(s)) = Len(s) - 1
        /\ Len(s) \in Nat
        /\ \A k \in 1..Len(Tail(s)) : Tail(s)[k] = s[k + 1]
    OBVIOUS
  <1>2. ASSUME NEW k \in 1..Len(Tail(s)), Tail(s)[k] = "stop"
        PROVE  k < Len(Tail(s)) /\ Tail(s)[k + 1] = "gone"
    <2>1. k + 1 \in 1..Len(s) /\ s[k + 1] = "stop"
      BY <1>1, <1>2
    <2>2. k + 1 < Len(s) /\ s[(k + 1) + 1] = "gone"
      BY <2>1 DEF Paired
    <2> QED
      BY <1>1, <2>2
  <1> QED
    BY <1>1, <1>2 DEF Paired

\* So is what is left after some steps are skipped.
LEMMA PairedSkip ==
  ASSUME NEW s \in Seq(StepNames), Paired(s), NEW n \in Nat
  PROVE  SubSeq(s, n + 1, Len(s)) \in Seq(StepNames)
         /\ Paired(SubSeq(s, n + 1, Len(s)))
  <1> DEFINE t == SubSeq(s, n + 1, Len(s))
  <1>1. /\ t \in Seq(StepNames)
        /\ Len(t) = IF n + 1 <= Len(s) THEN Len(s) - n ELSE 0
        /\ Len(s) \in Nat
    OBVIOUS
  <1>2. \A k \in 1..Len(t) : t[k] = s[n + k] /\ n + k \in 1..Len(s)
    BY <1>1
  <1>3. ASSUME NEW k \in 1..Len(t), t[k] = "stop"
        PROVE  k < Len(t) /\ t[k + 1] = "gone"
    <2>1. n + k \in 1..Len(s) /\ s[n + k] = "stop"
      BY <1>2, <1>3
    <2>2. n + k < Len(s) /\ s[(n + k) + 1] = "gone"
      BY <2>1 DEF Paired
    <2>3. k < Len(t) /\ k + 1 \in 1..Len(t)
      BY <1>1, <2>2
    <2> QED
      BY <1>2, <2>2, <2>3
  <1> QED
    BY <1>1, <1>3 DEF Paired

\* Two paired sequences, one after the other.
LEMMA PairedConcat ==
  ASSUME NEW s \in Seq(StepNames), NEW t \in Seq(StepNames), Paired(s), Paired(t)
  PROVE  s \o t \in Seq(StepNames) /\ Paired(s \o t)
  <1> DEFINE u == s \o t
  <1>1. /\ u \in Seq(StepNames) /\ Len(u) = Len(s) + Len(t)
        /\ Len(s) \in Nat /\ Len(t) \in Nat
        /\ \A k \in 1..Len(s) : u[k] = s[k]
        /\ \A k \in 1..Len(t) : u[Len(s) + k] = t[k]
    OBVIOUS
  <1>2. ASSUME NEW k \in 1..Len(u), u[k] = "stop"
        PROVE  k < Len(u) /\ u[k + 1] = "gone"
    <2>1. CASE k <= Len(s)
      <3>1. k \in 1..Len(s) /\ s[k] = "stop"
        BY <1>1, <1>2, <2>1
      <3>2. k < Len(s) /\ s[k + 1] = "gone" /\ k + 1 \in 1..Len(s)
        BY <1>1, <3>1 DEF Paired
      <3> QED
        BY <1>1, <3>2
    <2>2. CASE k > Len(s)
      <3> DEFINE j == k - Len(s)
      <3>1. j \in 1..Len(t) /\ t[j] = "stop" /\ k = Len(s) + j
        BY <1>1, <1>2, <2>2
      <3>2. j < Len(t) /\ t[j + 1] = "gone" /\ j + 1 \in 1..Len(t)
        BY <1>1, <3>1 DEF Paired
      <3>3. u[Len(s) + (j + 1)] = t[j + 1]
        BY <1>1, <3>2
      <3> QED
        BY <1>1, <3>1, <3>2, <3>3
    <2> QED
      BY <1>1, <2>1, <2>2
  <1> QED
    BY <1>1, <1>2 DEF Paired

\* No command asks a daemon to stop without waiting for it.
LEMMA ProgramsPaired ==
  ASSUME NEW cmd \in Cli!Commands
  PROVE  Cli!Program(cmd) \in Seq(StepNames) /\ Paired(Cli!Program(cmd))
  <1> DEFINE Good(s) == s \in Seq(StepNames) /\ Paired(s)
  <1>1. Good(Cli!spawnDaemon) /\ Good(Cli!launchBackend)
    BY DEF Paired, StepNames, Cli!spawnDaemon, Cli!launchBackend
  <1>2. Good(Cli!stopBackend)
    BY DEF Paired, StepNames, Cli!stopBackend
  <1>3. /\ Good(Cli!Save) /\ Good(<<"dial", "load", "put">>)
        /\ Good(<<"load", "remove", "halt">>)
        /\ Good(<<"open", "load", "putRepeater">>) /\ Good(<<"close">>)
        /\ Good(<<"load", "removeRepeater">>) /\ Good(<<"load", "use">>)
        /\ Good(<<"load", "current", "load", "autostart">>)
    BY DEF Paired, StepNames, Cli!Save
  <1>4. Good(Cli!cmdContacts) /\ Good(Cli!cachedContacts) /\ Good(Cli!cmdShell)
    BY DEF Paired, StepNames, Cli!cmdContacts, Cli!cachedContacts, Cli!cmdShell
  <1>5. Good(<<"reset">>) /\ Good(<<"session">>) /\ Good(<<"halt", "session">>)
        /\ Good(<<"alive", "halt">>)
    BY DEF Paired, StepNames
  <1>6. ASSUME NEW s, NEW t, Good(s), Good(t) PROVE Good(s \o t)
    BY <1>6, PairedConcat
  <1> HIDE DEF Good
  <1>7. /\ Good(Cli!cmdConnect) /\ Good(Cli!maybeOfferBackendStart)
        /\ Good(Cli!deviceRemove) /\ Good(Cli!repeaterAdd)
        /\ Good(Cli!repeaterDel) /\ Good(<<"load", "use">> \o Cli!Save)
    BY <1>1, <1>3, <1>5, <1>6
    DEF Cli!cmdConnect, Cli!maybeOfferBackendStart, Cli!deviceRemove,
        Cli!repeaterAdd, Cli!repeaterDel
  <1>8. Good(Cli!backendReset) /\ Good(Cli!backendRestart)
        /\ Good(Cli!sessionRestart)
    BY <1>1, <1>2, <1>5, <1>6
    DEF Cli!backendReset, Cli!backendRestart, Cli!sessionRestart
  <1>9. Good(Cli!Program(cmd))
    BY <1>1, <1>2, <1>3, <1>4, <1>5, <1>6, <1>7, <1>8
    DEF Cli!Commands, Cli!Program
  <1> QED
    BY <1>9 DEF Good

\* The edits of a configuration keep it sound.
LEMMA SoundEdits ==
  ASSUME NEW c \in Config, Sound(c), NEW d \in Some
  PROVE  /\ Cli!Put(c, d) \in Config /\ Sound(Cli!Put(c, d))
         /\ Cli!Remove(c, d) \in Config /\ Sound(Cli!Remove(c, d))
         /\ \A old : /\ Cli!PutRepeater(c, d, old) \in Config
                       /\ Sound(Cli!PutRepeater(c, d, old))
         /\ Cli!RemoveRepeater(c, d) \in Config
         /\ Sound(Cli!RemoveRepeater(c, d))
         /\ d \in c.devices =>
              /\ Cli!setDeviceAutostart(c, d) \in Config
              /\ Sound(Cli!setDeviceAutostart(c, d))
              /\ Cli!cmdUse(c, d) \in Config /\ Sound(Cli!cmdUse(c, d))
  <1> USE DEF Config, Sound, Some, Cli!None
  <1>1. Cli!Put(c, d) \in Config /\ Sound(Cli!Put(c, d))
    BY DEF Cli!Put
  <1>2. Cli!Remove(c, d) \in Config /\ Sound(Cli!Remove(c, d))
    BY DEF Cli!Remove
  <1>3. \A old : /\ Cli!PutRepeater(c, d, old) \in Config
                  /\ Sound(Cli!PutRepeater(c, d, old))
    BY DEF Cli!PutRepeater
  <1>4. Cli!RemoveRepeater(c, d) \in Config /\ Sound(Cli!RemoveRepeater(c, d))
    BY DEF Cli!RemoveRepeater
  <1>5. d \in c.devices =>
          /\ Cli!setDeviceAutostart(c, d) \in Config
          /\ Sound(Cli!setDeviceAutostart(c, d))
    BY DEF Cli!setDeviceAutostart
  <1>6. d \in c.devices =>
          Cli!cmdUse(c, d) \in Config /\ Sound(Cli!cmdUse(c, d))
    BY DEF Cli!cmdUse
  <1> QED
    BY <1>1, <1>2, <1>3, <1>4, <1>5, <1>6

\* So does writing one over another.
LEMMA SoundOverlaid ==
  ASSUME NEW c \in Config, Sound(c), NEW devs \in SUBSET Profiles,
         NEW reps \in SUBSET Profiles, NEW auto \in SUBSET Profiles
  PROVE  /\ Cli!Overlaid(c, devs, reps, auto) \in Config
         /\ Sound(Cli!Overlaid(c, devs, reps, auto))
  BY DEF Cli!Overlaid, Config, Sound, Some

\* What a load gives is sound.
LEMMA SoundLoad ==
  ASSUME CliInv
  PROVE  Cli!Load \in Config /\ Sound(Cli!Load)
  BY DEF CliInv, CliTypes, ConfigInv, Cli!Load, Cli!Empty, Cli!None, Config,
         Sound, Some

\* What a step may do to daemons and the socket: a daemon that is ending goes
\* on ending, and is not reached again.
Keeps ==
  \A i \in Daemons :
    daemon[i].state \in Ending =>
      daemon'[i].state \in Ending /\ (Reached(i)' => Reached(i))

\* The parts of the invariant about processes.
ProcInv == /\ proc \in [Procs -> ProcType]
           /\ \A p \in Procs : Sound(proc[p].copy)
           /\ ProgramInv /\ AskedInv /\ UnreachedInv

\* A step of invocation p that does not ask a daemon to stop.
LEMMA Moved ==
  ASSUME CliInv, NEW p \in Procs, NEW r \in ProcType,
         proc' = [proc EXCEPT ![p] = r],
         Sound(r.copy), Paired(r.todo),
         r.cmd = "none" => r.todo = <<>>,
         r.asked = proc[p].asked,
         r.ok /\ ~r.misled => \/ ~Cli!Answers
                              \/ /\ proc[p].ok /\ ~proc[p].misled
                                 /\ ~Cli!At(p, "gone"),
         Keeps
  PROVE  ProcInv'
  <1>1. /\ proc' \in [Procs -> ProcType] /\ proc'[p] = r
        /\ \A q \in Procs \ {p} : proc'[q] = proc[q]
    BY DEF CliInv, CliTypes
  <1>2. (\A q \in Procs : Sound(proc[q].copy))' /\ ProgramInv'
    BY <1>1 DEF CliInv, ConfigInv, ProgramInv
  <1>3. \A q \in Procs : proc'[q].asked = proc[q].asked
                         /\ proc[q].asked \in 0..MaxDaemons
    BY <1>1 DEF CliInv, CliTypes, ProcType
  <1>4. \A q \in Procs : proc[q].asked # 0 => proc[q].asked \in Daemons
    BY <1>3, MCBackendAssumption DEF Daemons
  <1>5. AskedInv'
    BY <1>3, <1>4 DEF CliInv, AskedInv, Keeps
  <1>6. UnreachedInv'
    <2> SUFFICES ASSUME NEW q \in Procs, proc[q].asked # 0, proc'[q].ok,
                        ~Cli!At(q, "gone")', ~proc'[q].misled,
                        Reached(proc[q].asked)'
                 PROVE  FALSE
      BY <1>3 DEF UnreachedInv
    <2>1. Reached(proc[q].asked)
      <3>1. daemon[proc[q].asked].state \in Ending
        BY DEF CliInv, AskedInv
      <3> QED
        BY <1>3, <1>4, <3>1 DEF Keeps, Reached
    <2>2. CASE q = p
      BY <1>1, <2>1, <2>2 DEF CliInv, UnreachedInv, Reached
    <2>3. CASE q # p
      <3>1. proc'[q] = proc[q]
        BY <1>1, <2>3
      <3>2. ~Cli!At(q, "gone") /\ proc[q].ok /\ ~proc[q].misled
        BY <3>1 DEF Cli!At
      <3> QED
        BY <2>1, <3>2 DEF CliInv, UnreachedInv
    <2> QED
      BY <2>2, <2>3
  <1> QED
    BY <1>1, <1>2, <1>5, <1>6 DEF ProcInv

\* An empty configuration is sound.
LEMMA SoundEmpty == Cli!Empty \in Config /\ Sound(Cli!Empty)
  BY DEF Cli!Empty, Cli!None, Config, Some, Sound

\* A command that fails.
LEMMA Failing ==
  ASSUME CliInv, Keeps, NEW p \in Procs, Cli!Fail(p)
  PROVE  ProcInv'
  <1> DEFINE s == <<>>
             e == Cli!Empty
             r == [proc[p] EXCEPT !.todo = s, !.copy = e, !.ok = FALSE]
  <1>0. s \in Seq(StepNames) /\ Paired(s) /\ e \in Config /\ Sound(e)
    BY SoundEmpty DEF Paired
  <1>1. proc' = [proc EXCEPT ![p] = r]
    BY DEF Cli!Fail, CliInv, CliTypes
  <1> HIDE DEF s, e
  <1>2. proc[p] \in ProcType
    BY DEF CliInv, CliTypes
  <1>3. /\ r \in ProcType /\ r.copy = e /\ r.todo = s
        /\ r.cmd = proc[p].cmd /\ r.asked = proc[p].asked
    BY <1>0, <1>2 DEF ProcType
  <1>4. r.ok = FALSE
    BY <1>2 DEF ProcType
  <1> HIDE DEF r
  <1> QED
    BY <1>0, <1>1, <1>2, <1>3, <1>4, Moved DEF s

\* A command that goes on, and does not do so while it waits for a daemon that
\* still answers.
LEMMA Proceeding ==
  ASSUME CliInv, Keeps, NEW p \in Procs, NEW r \in ProcType,
         proc' = [proc EXCEPT ![p] = r],
         Sound(r.copy),
         r.cmd = proc[p].cmd, r.asked = proc[p].asked, r.ok = proc[p].ok,
         r.misled = proc[p].misled,
         ~Cli!At(p, "gone") \/ ~Cli!Answers,
         \/ proc[p].todo # <<>> /\ r.todo = Tail(proc[p].todo)
         \/ r.todo = <<>>
         \/ \E n \in Nat :
              r.todo = SubSeq(proc[p].todo, n + 1, Len(proc[p].todo))
  PROVE  ProcInv'
  <1>1. proc[p].todo \in Seq(StepNames) /\ Paired(proc[p].todo)
        /\ (proc[p].cmd = "none" => proc[p].todo = <<>>)
    BY DEF CliInv, CliTypes, ProcType, ProgramInv
  <1>2. Paired(<<>>)
    BY DEF Paired
  <1>3. Paired(r.todo)
    BY <1>1, <1>2, PairedTail, PairedSkip
  <1>4. \A n \in Nat : SubSeq(<<>>, n + 1, 0) = <<>>
    OBVIOUS
  <1>5. proc[p].todo = <<>> => r.todo = <<>>
    BY <1>4
  <1> QED
    BY <1>1, <1>3, <1>5, Moved

\* The forms in which commands go on.
LEMMA Forms ==
  ASSUME CliInv, Keeps, NEW p \in Procs,
         ~Cli!At(p, "gone") \/ ~Cli!Answers
  PROVE  /\ proc[p].todo # <<>> /\ Cli!Done(p) => ProcInv'
         /\ \A n \in Nat : Cli!Skip(p, n) => ProcInv'
         /\ proc' = [proc EXCEPT ![p].todo = <<>>] => ProcInv'
         /\ \A c \in Config :
              /\ Sound(c) /\ proc[p].todo # <<>>
              /\ proc' = [proc EXCEPT ![p].todo = Tail(@), ![p].copy = c]
              => ProcInv'
         /\ \A d \in Some :
              /\ proc[p].todo # <<>>
              /\ proc' = [proc EXCEPT ![p].todo = Tail(@), ![p].dev = d]
              => ProcInv'
  <1>0. /\ proc \in [Procs -> ProcType] /\ proc[p] \in ProcType
        /\ Sound(proc[p].copy)
        /\ proc[p].todo \in Seq(StepNames) /\ Paired(proc[p].todo)
    BY DEF CliInv, CliTypes, ConfigInv, ProgramInv, ProcType
  <1>1. ASSUME NEW s \in Seq(StepNames), proc' = [proc EXCEPT ![p].todo = s],
               \/ proc[p].todo # <<>> /\ s = Tail(proc[p].todo)
               \/ s = <<>>
               \/ \E n \in Nat :
                    s = SubSeq(proc[p].todo, n + 1, Len(proc[p].todo))
        PROVE  ProcInv'
    <2> DEFINE r == [proc[p] EXCEPT !.todo = s]
    <2>1. proc' = [proc EXCEPT ![p] = r]
      BY <1>0, <1>1
    <2>2. /\ r \in ProcType /\ r.copy = proc[p].copy /\ r.todo = s
          /\ r.cmd = proc[p].cmd /\ r.asked = proc[p].asked
          /\ r.ok = proc[p].ok /\ r.misled = proc[p].misled
      BY <1>0 DEF ProcType
    <2> HIDE DEF r
    <2> QED
      BY <1>0, <1>1, <2>1, <2>2, Proceeding
  <1>2. proc[p].todo # <<>> /\ Cli!Done(p) => ProcInv'
    BY <1>0, <1>1, PairedTail DEF Cli!Done
  <1>3. \A n \in Nat : Cli!Skip(p, n) => ProcInv'
    BY <1>0, <1>1, PairedSkip DEF Cli!Skip
  <1>4. proc' = [proc EXCEPT ![p].todo = <<>>] => ProcInv'
    <2>1. <<>> \in Seq(StepNames)
      OBVIOUS
    <2> QED
      BY <1>1, <2>1
  <1>5. ASSUME NEW c \in Config, Sound(c), proc[p].todo # <<>>,
               proc' = [proc EXCEPT ![p].todo = Tail(@), ![p].copy = c]
        PROVE  ProcInv'
    <2> DEFINE s == Tail(proc[p].todo)
               r == [proc[p] EXCEPT !.todo = s, !.copy = c]
    <2>1. proc' = [proc EXCEPT ![p] = r]
      BY <1>0, <1>5
    <2>2. s \in Seq(StepNames)
      BY <1>0, <1>5, PairedTail
    <2> HIDE DEF s
    <2>3. /\ r \in ProcType /\ r.copy = c /\ r.todo = s
          /\ r.cmd = proc[p].cmd /\ r.asked = proc[p].asked
          /\ r.ok = proc[p].ok /\ r.misled = proc[p].misled
      BY <1>0, <2>2 DEF ProcType
    <2> HIDE DEF r
    <2> QED
      BY <1>0, <1>5, <2>1, <2>3, Proceeding DEF s
  <1>6. ASSUME NEW d \in Some, proc[p].todo # <<>>,
               proc' = [proc EXCEPT ![p].todo = Tail(@), ![p].dev = d]
        PROVE  ProcInv'
    <2> DEFINE s == Tail(proc[p].todo)
               r == [proc[p] EXCEPT !.todo = s, !.dev = d]
    <2>1. proc' = [proc EXCEPT ![p] = r]
      BY <1>0, <1>6
    <2>2. s \in Seq(StepNames)
      BY <1>0, <1>6, PairedTail
    <2> HIDE DEF s
    <2>3. /\ r \in ProcType /\ r.copy = proc[p].copy /\ r.todo = s
          /\ r.cmd = proc[p].cmd /\ r.asked = proc[p].asked
          /\ r.ok = proc[p].ok /\ r.misled = proc[p].misled
      BY <1>0, <2>2 DEF ProcType
    <2> HIDE DEF r
    <2> QED
      BY <1>0, <1>6, <2>1, <2>3, Proceeding DEF s
  <1> QED
    BY <1>2, <1>3, <1>4, <1>5, <1>6

\* The parts of the invariant about what invocations share.
WorldInv ==
  /\ cfg \in Config /\ file \in Files /\ socket \in 0..MaxDaemons
  /\ daemon \in [Daemons -> DaemonType]
  /\ Sound(cfg)

\* The invariant is the two together.
LEMMA CliParts == /\ CliInv => WorldInv /\ ProcInv
                  /\ WorldInv' /\ ProcInv' => CliInv'
  BY DEF CliInv, CliTypes, ConfigInv, WorldInv, ProcInv

\* A step that moves no daemon to another state, and at most removes the
\* socket.
LEMMA StatesKept ==
  ASSUME CliInv, \A i \in Daemons : daemon'[i].state = daemon[i].state,
         socket' = socket \/ socket' = 0
  PROVE  Keeps
  <1>1. ASSUME NEW i \in Daemons, Reached(i)' PROVE Reached(i)
    <2>1. socket' = i /\ i # 0 /\ socket = i
      BY <1>1, MCBackendAssumption DEF Reached, Daemons
    <2> QED
      BY <1>1, <2>1 DEF Reached, Cli!Answers, Cli!None
  <1> QED
    BY <1>1 DEF Keeps

\* A step of the world only.
LEMMA Still ==
  ASSUME CliInv, Keeps, UNCHANGED proc
  PROVE  ProcInv'
  <1>1. \A q \in Procs : proc[q].asked \in 0..MaxDaemons
    BY DEF CliInv, CliTypes, ProcType
  <1>2. \A q \in Procs : proc[q].asked # 0 => proc[q].asked \in Daemons
    BY <1>1, MCBackendAssumption DEF Daemons
  <1>3. AskedInv'
    BY <1>2 DEF CliInv, AskedInv, Keeps
  <1>4. UnreachedInv'
    BY <1>2 DEF CliInv, AskedInv, Keeps, UnreachedInv, Reached, Cli!At
  <1>5. ProgramInv' /\ proc' \in [Procs -> ProcType]
        /\ \A q \in Procs : Sound(proc[q].copy)'
    BY DEF CliInv, CliTypes, ConfigInv, ProgramInv
  <1> QED
    BY <1>3, <1>4, <1>5 DEF ProcInv

\* The step a command is at.
LEMMA AtStep ==
  ASSUME NEW p \in Procs, NEW s \in StepNames, Cli!At(p, s)
  PROVE  proc[p].todo # <<>> /\ (s # "gone" => ~Cli!At(p, "gone"))
  BY DEF Cli!At

\* A step of a command that touches its own state only.
LEMMA StepAlone ==
  ASSUME CliInv, NEW p \in Procs,
         \/ Cli!Dial(p) \/ Cli!LoadConfig(p) \/ Cli!EditConfig(p)
         \/ Cli!CurrentDevice(p) \/ Cli!daemonRunning(p)
         \/ Cli!AwaitDaemon(p) \/ Cli!AwaitGone(p) \/ Cli!openCached(p)
  PROVE  CliInv'
  <1>1. UNCHANGED <<cfg, file, socket, daemon>>
    BY DEF Cli!Dial, Cli!LoadConfig, Cli!EditConfig, Cli!Edit,
           Cli!CurrentDevice, Cli!daemonRunning, Cli!AwaitDaemon,
           Cli!AwaitGone, Cli!openCached
  <1>2. Keeps
    BY <1>1, StatesKept
  <1>3. WorldInv'
    BY <1>1, CliParts DEF WorldInv
  <1>4. /\ proc[p] \in ProcType /\ proc[p].copy \in Config
        /\ proc[p].dev \in Some /\ Sound(proc[p].copy)
    BY DEF CliInv, CliTypes, ConfigInv, ProcType
  <1>5. ASSUME NEW s \in StepNames, Cli!At(p, s), s # "gone",
               Cli!Done(p) \/ Cli!Fail(p)
        PROVE  ProcInv'
    BY <1>2, <1>5, AtStep, Forms, Failing
  <1>6. ASSUME NEW s \in StepNames, Cli!At(p, s), s # "gone",
               NEW c \in Config, Sound(c),
               proc' = [proc EXCEPT ![p].todo = Tail(@), ![p].copy = c]
        PROVE  ProcInv'
    <2>1. proc[p].todo # <<>> /\ ~Cli!At(p, "gone")
      BY <1>6, AtStep
    <2> QED
      BY <1>2, <1>6, <2>1, Forms
  <1>7. CASE Cli!Dial(p)
    <2>1. "dial" \in StepNames
      BY DEF StepNames
    <2> QED
      BY <1>3, <1>5, <1>7, <2>1, CliParts DEF Cli!Dial
  <1>8. CASE Cli!LoadConfig(p)
    <2>1. "load" \in StepNames
      BY DEF StepNames
    <2> QED
      BY <1>3, <1>5, <1>6, <1>8, <2>1, SoundLoad, CliParts DEF Cli!LoadConfig
  <1>9. ASSUME NEW s \in StepNames, s # "gone", NEW known,
               NEW c, known => c \in Config /\ Sound(c), Cli!Edit(p, s, known, c)
        PROVE  CliInv'
    BY <1>3, <1>5, <1>6, <1>9, CliParts DEF Cli!Edit
  <1>10. CASE Cli!EditConfig(p)
    <2> DEFINE c == proc[p].copy
               d == proc[p].dev
    <2>1. {"put", "autostart", "use", "remove", "putRepeater",
           "removeRepeater"} \subseteq StepNames
      BY DEF StepNames
    <2>2. /\ Cli!Put(c, d) \in Config /\ Sound(Cli!Put(c, d))
          /\ Cli!Remove(c, d) \in Config /\ Sound(Cli!Remove(c, d))
          /\ \A old : /\ Cli!PutRepeater(c, d, old) \in Config
                        /\ Sound(Cli!PutRepeater(c, d, old))
          /\ Cli!RemoveRepeater(c, d) \in Config
          /\ Sound(Cli!RemoveRepeater(c, d))
          /\ d \in c.devices =>
               /\ Cli!setDeviceAutostart(c, d) \in Config
               /\ Sound(Cli!setDeviceAutostart(c, d))
               /\ Cli!cmdUse(c, d) \in Config /\ Sound(Cli!cmdUse(c, d))
      BY <1>4, SoundEdits
    <2>3. CASE Cli!Edit(p, "put", TRUE, Cli!Put(c, d))
      BY <1>9, <2>1, <2>2, <2>3
    <2>4. CASE Cli!Edit(p, "autostart", d \in c.devices,
                        Cli!setDeviceAutostart(c, d))
      BY <1>9, <2>1, <2>2, <2>4
    <2>5. CASE Cli!Edit(p, "use", d \in c.devices, Cli!cmdUse(c, d))
      BY <1>9, <2>1, <2>2, <2>5
    <2>6. CASE Cli!Edit(p, "remove", d \in c.devices, Cli!Remove(c, d))
      BY <1>9, <2>1, <2>2, <2>6
    <2>7. CASE \E old \in c.repeaters \union {0} :
                 Cli!Edit(p, "putRepeater", TRUE, Cli!PutRepeater(c, d, old))
      BY <1>9, <2>1, <2>2, <2>7
    <2>8. CASE Cli!Edit(p, "removeRepeater", d \in c.repeaters,
                        Cli!RemoveRepeater(c, d))
      BY <1>9, <2>1, <2>2, <2>8
    <2> QED
      BY <1>10, <2>3, <2>4, <2>5, <2>6, <2>7, <2>8 DEF Cli!EditConfig, Cli!None
  <1>11. CASE Cli!CurrentDevice(p)
    <2>1. proc[p].todo # <<>> /\ ~Cli!At(p, "gone")
      BY <1>11 DEF Cli!CurrentDevice, Cli!At
    <2>2. proc[p].copy.current \in Some
      BY <1>4 DEF Config
    <2>3. \/ proc' = [proc EXCEPT ![p].todo = <<>>]
          \/ proc' = [proc EXCEPT ![p].todo = Tail(@),
                                  ![p].dev = proc[p].copy.current]
      BY <1>11 DEF Cli!CurrentDevice
    <2>4. ProcInv'
      BY <1>2, <2>1, <2>2, <2>3, Forms
    <2> QED
      BY <1>3, <2>4, CliParts
  <1>12. CASE Cli!daemonRunning(p)
    <2>1. proc[p].todo # <<>> /\ ~Cli!At(p, "gone")
      BY <1>12 DEF Cli!daemonRunning, Cli!At
    <2>2. Len(Cli!stopBackend) \in Nat
      BY DEF Cli!stopBackend
    <2>3. Cli!Done(p) \/ Cli!Fail(p) \/ Cli!Skip(p, Len(Cli!stopBackend))
      BY <1>12 DEF Cli!daemonRunning
    <2>4. ProcInv'
      BY <1>2, <2>1, <2>2, <2>3, Forms, Failing
    <2> QED
      BY <1>3, <2>4, CliParts
  <1>13. CASE Cli!AwaitDaemon(p)
    <2>1. "wait" \in StepNames
      BY DEF StepNames
    <2> QED
      BY <1>3, <1>5, <1>13, <2>1, CliParts DEF Cli!AwaitDaemon
  <1>14. CASE Cli!AwaitGone(p)
    <2>1. proc[p].todo # <<>>
      BY <1>14 DEF Cli!AwaitGone, Cli!At
    <2>2. CASE Cli!Fail(p)
      BY <1>2, <1>3, <2>2, Failing, CliParts
    <2>3. CASE ~Cli!Fail(p)
      <3> DEFINE s == Tail(proc[p].todo)
                 m == Cli!Answers
                 r == [proc[p] EXCEPT !.todo = s, !.misled = m]
      <3>1. proc' = [proc EXCEPT ![p] = r]
        BY <1>14, <2>3 DEF Cli!AwaitGone, CliInv, CliTypes
      <3>2. /\ s \in Seq(StepNames) /\ Paired(s)
            /\ proc[p].cmd # "none" /\ m \in BOOLEAN
        BY <2>1, PairedTail
        DEF CliInv, CliTypes, ProcType, ProgramInv, Cli!Answers
      <3> HIDE DEF s, m
      <3>3. /\ r \in ProcType /\ r.copy = proc[p].copy /\ r.todo = s
            /\ r.cmd = proc[p].cmd /\ r.asked = proc[p].asked
            /\ r.misled = m
        BY <1>4, <3>2 DEF ProcType
      <3> HIDE DEF r
      <3>4. ~r.misled => ~Cli!Answers
        BY <3>3 DEF m
      <3>5. ProcInv'
        BY <1>2, <1>4, <3>1, <3>2, <3>3, <3>4, Moved
      <3> QED
        BY <1>3, <3>5, CliParts
    <2> QED
      BY <2>2, <2>3
  <1>15. CASE Cli!openCached(p)
    <2>1. "openCached" \in StepNames
      BY DEF StepNames
    <2> QED
      BY <1>3, <1>5, <1>15, <2>1, CliParts DEF Cli!openCached
  <1> QED
    BY <1>7, <1>8, <1>10, <1>11, <1>12, <1>13, <1>14, <1>15

\* The two steps of a command that saves the configuration.
LEMMA StepSave ==
  ASSUME CliInv, NEW p \in Procs, Cli!Truncate(p) \/ Cli!Write(p)
  PROVE  CliInv'
  <1>1. UNCHANGED <<socket, daemon>>
    BY DEF Cli!Truncate, Cli!Write
  <1>2. Keeps
    BY <1>1, StatesKept
  <1>3. /\ proc[p].todo # <<>> /\ ~Cli!At(p, "gone")
        /\ proc[p].copy \in Config /\ Sound(proc[p].copy)
        /\ cfg \in Config /\ Sound(cfg)
    BY DEF Cli!Truncate, Cli!Write, Cli!At, CliInv, CliTypes, ConfigInv, ProcType
  <1>4. ProcInv'
    BY <1>2, <1>3, Forms, SoundEmpty DEF Cli!Truncate, Cli!Write
  <1>5. file' \in Files
    BY DEF Cli!Truncate, Cli!Write, Files, CliInv, CliTypes
  <1>6. cfg' \in Config /\ Sound(cfg')
    BY <1>3, SoundOverlaid DEF Cli!Truncate, Cli!Write
  <1>7. WorldInv'
    BY <1>1, <1>5, <1>6, CliParts DEF WorldInv
  <1> QED
    BY <1>4, <1>7, CliParts

\* Changes to one daemon.
LEMMA DaemonUpdate ==
  ASSUME CliInv, NEW i \in Daemons, NEW v \in DaemonType,
         daemon' = [daemon EXCEPT ![i] = v]
  PROVE  /\ daemon' \in [Daemons -> DaemonType]
         /\ daemon'[i] = v
         /\ \A j \in Daemons \ {i} : daemon'[j] = daemon[j]
  BY DEF CliInv, CliTypes

\* A daemon is started.
LEMMA StepSpawn ==
  ASSUME CliInv, NEW p \in Procs, Cli!Spawn(p)
  PROVE  CliInv'
  <1>1. /\ proc[p].todo # <<>> /\ ~Cli!At(p, "gone")
        /\ UNCHANGED <<cfg, file, socket>>
    BY DEF Cli!Spawn, Cli!At
  <1>2. CASE UNCHANGED daemon /\ Cli!Skip(p, Len(Cli!spawnDaemon))
    <2>1. Len(Cli!spawnDaemon) \in Nat
      BY DEF Cli!spawnDaemon
    <2>2. Keeps
      BY <1>1, <1>2, StatesKept
    <2>3. ProcInv'
      BY <1>1, <1>2, <2>1, <2>2, Forms
    <2>4. WorldInv'
      BY <1>1, <1>2, CliParts DEF WorldInv
    <2> QED
      BY <2>3, <2>4, CliParts
  <1>3. ASSUME NEW i \in Cli!Unused, Cli!Done(p),
               NEW a \in {{}, {proc[p].dev}},
               daemon' = [daemon EXCEPT ![i].state = "boot", ![i].pending = a]
        PROVE  CliInv'
    <2> DEFINE v == [daemon[i] EXCEPT !.state = "boot", !.pending = a]
    <2>1. /\ i \in Daemons /\ daemon[i].state = "none"
          /\ daemon[i] \in DaemonType /\ a \in SUBSET Some
      BY DEF Cli!Unused, Cli!Daemons, Daemons, CliInv, CliTypes, ProcType
    <2>2. daemon' = [daemon EXCEPT ![i] = v]
      BY <1>3, <2>1 DEF CliInv, CliTypes
    <2>3. v \in DaemonType /\ v.state = "boot"
      BY <2>1 DEF DaemonType, States
    <2> HIDE DEF v
    <2>4. /\ daemon' \in [Daemons -> DaemonType] /\ daemon'[i] = v
          /\ \A j \in Daemons \ {i} : daemon'[j] = daemon[j]
      BY <2>1, <2>2, <2>3, DaemonUpdate
    <2>5. Keeps
      BY <1>1, <2>1, <2>3, <2>4
      DEF Keeps, Ending, Reached, Cli!Answers, Cli!None
    <2>6. ProcInv'
      BY <1>1, <1>3, <2>5, Forms
    <2>7. WorldInv'
      BY <1>1, <2>1, <2>3, <2>4, CliParts DEF WorldInv
    <2> QED
      BY <2>6, <2>7, CliParts
  <1> QED
    BY <1>2, <1>3 DEF Cli!Spawn

\* A daemon is asked to stop: from here on the command waits for it.
LEMMA StepStop ==
  ASSUME CliInv, NEW p \in Procs, Cli!Stop(p)
  PROVE  CliInv'
  <1>1. /\ proc[p].todo # <<>> /\ Head(proc[p].todo) = "stop"
        /\ UNCHANGED <<cfg, file, socket>>
    BY DEF Cli!Stop, Cli!At
  <1>2. CASE Cli!Fail(p) /\ UNCHANGED daemon
    <2>1. Keeps
      BY <1>1, <1>2, StatesKept
    <2>2. ProcInv'
      BY <1>2, <2>1, Failing
    <2>3. WorldInv'
      BY <1>1, <1>2, CliParts DEF WorldInv
    <2> QED
      BY <2>2, <2>3, CliParts
  <1>3. CASE /\ Cli!Answers /\ daemon' = [daemon EXCEPT ![socket].state = "asked"]
             /\ \/ Cli!Fail(p)
                \/ proc' = [proc EXCEPT ![p].todo = Tail(@), ![p].asked = socket]
    <2> DEFINE s == Tail(proc[p].todo)
               r == [proc[p] EXCEPT !.todo = s, !.asked = socket]
               v == [daemon[socket] EXCEPT !.state = "asked"]
    <2>1. /\ socket \in Daemons /\ socket # 0
          /\ daemon[socket].state \in {"serving", "asked"}
          /\ daemon[socket] \in DaemonType
      BY <1>3, MCBackendAssumption
      DEF Cli!Answers, Cli!None, CliInv, CliTypes, Daemons
    <2>2. /\ Cli!Fail(p) \/ proc' = [proc EXCEPT ![p] = r]
          /\ daemon' = [daemon EXCEPT ![socket] = v]
      BY <1>3, <2>1 DEF CliInv, CliTypes
    <2>3. /\ proc[p] \in ProcType /\ proc[p].todo \in Seq(StepNames)
          /\ Paired(proc[p].todo) /\ Sound(proc[p].copy)
      BY DEF CliInv, CliTypes, ConfigInv, ProgramInv, ProcType
    <2>4. /\ s \in Seq(StepNames) /\ Paired(s)
          /\ s # <<>> /\ Head(s) = "gone"
      <3>1. s \in Seq(StepNames) /\ Paired(s)
        BY <1>1, <2>3, PairedTail
      <3>2. 1 \in 1..Len(proc[p].todo) /\ proc[p].todo[1] = "stop"
        BY <1>1, <2>3
      <3>3. 1 < Len(proc[p].todo) /\ proc[p].todo[1 + 1] = "gone"
        BY <2>3, <3>2 DEF Paired
      <3>4. s # <<>> /\ Head(s) = "gone"
        <4>1. Len(s) = Len(proc[p].todo) - 1 /\ s[1] = proc[p].todo[2]
          BY <1>1, <2>3, <3>3
        <4>2. Len(s) >= 1 /\ s[1] = "gone"
          BY <2>3, <3>3, <4>1
        <4> HIDE DEF s
        <4> QED
          BY <3>1, <4>2
      <3> QED
        BY <3>1, <3>4
    <2>5. /\ v \in DaemonType /\ v.state = "asked"
          /\ v.sessions = daemon[socket].sessions
      BY <2>1 DEF DaemonType, States
    <2> HIDE DEF s, v
    <2>6. /\ r \in ProcType /\ r.copy = proc[p].copy /\ r.todo = s
          /\ r.cmd = proc[p].cmd /\ r.asked = socket
      <3>1. socket \in 0..MaxDaemons
        BY DEF CliInv, CliTypes
      <3> QED
        BY <2>3, <2>4, <3>1 DEF ProcType
    <2> HIDE DEF r
    <2>7. /\ daemon' \in [Daemons -> DaemonType] /\ daemon'[socket] = v
          /\ \A j \in Daemons \ {socket} : daemon'[j] = daemon[j]
      BY <2>1, <2>2, <2>5, DaemonUpdate
    <2>8. Keeps
      BY <1>1, <1>3, <2>1, <2>5, <2>7
      DEF Keeps, Ending, Reached, Cli!Answers, Cli!None
    <2>9. WorldInv'
      BY <1>1, <2>7, CliParts DEF WorldInv
    <2>10. CASE Cli!Fail(p)
      BY <2>8, <2>9, <2>10, Failing, CliParts
    <2>11. CASE proc' = [proc EXCEPT ![p] = r]
      <3>1. /\ proc' \in [Procs -> ProcType] /\ proc'[p] = r
            /\ \A q \in Procs \ {p} : proc'[q] = proc[q]
        BY <2>6, <2>11 DEF CliInv, CliTypes
      <3>2. proc[p].cmd # "none"
        BY <1>1 DEF CliInv, ProgramInv
      <3>3. (\A q \in Procs : Sound(proc[q].copy))' /\ ProgramInv'
        BY <2>3, <2>4, <2>6, <3>1, <3>2 DEF CliInv, ConfigInv, ProgramInv
      <3>4. \A q \in Procs : proc[q].asked # 0 => proc[q].asked \in Daemons
        BY MCBackendAssumption DEF CliInv, CliTypes, ProcType, Daemons
      <3>5. AskedInv'
        BY <2>1, <2>5, <2>6, <2>7, <2>8, <3>1, <3>4
        DEF CliInv, AskedInv, Keeps, Ending
      <3>6. UnreachedInv'
        <4> SUFFICES ASSUME NEW q \in Procs, proc'[q].asked # 0, proc'[q].ok,
                            ~Cli!At(q, "gone")', ~proc'[q].misled,
                            Reached(proc[q].asked)'
                     PROVE  FALSE
          BY <3>1, <2>4, <2>6 DEF UnreachedInv, Cli!At
        <4>1. q # p
          BY <2>4, <2>6, <3>1 DEF Cli!At
        <4>2. proc'[q] = proc[q] /\ ~Cli!At(q, "gone")
          BY <3>1, <4>1 DEF Cli!At
        <4>3. Reached(proc[q].asked)
          BY <2>8, <3>4, <4>2 DEF CliInv, AskedInv, Keeps, Reached
        <4> QED
          BY <4>2, <4>3 DEF CliInv, UnreachedInv
      <3> QED
        BY <2>9, <3>1, <3>3, <3>5, <3>6, CliParts DEF ProcInv
    <2> QED
      BY <2>2, <2>10, <2>11
  <1> QED
    BY <1>2, <1>3 DEF Cli!Stop

\* The socket is removed, or a session is asked for.
LEMMA StepRequest ==
  ASSUME CliInv, NEW p \in Procs, Cli!ResetState(p) \/ Cli!SessionStart(p)
  PROVE  CliInv'
  <1>1. /\ proc[p].todo # <<>> /\ ~Cli!At(p, "gone")
        /\ UNCHANGED <<cfg, file>>
    BY DEF Cli!ResetState, Cli!SessionStart, Cli!At
  <1>2. CASE UNCHANGED daemon
    <2>1. /\ socket' = socket \/ socket' = 0
          /\ Cli!Done(p) \/ Cli!Fail(p)
      BY <1>2 DEF Cli!ResetState, Cli!SessionStart, Cli!None
    <2>2. Keeps
      BY <1>2, <2>1, StatesKept
    <2>3. ProcInv'
      BY <1>1, <2>1, <2>2, Forms, Failing
    <2>4. socket' \in 0..MaxDaemons
      BY <2>1, MCBackendAssumption DEF CliInv, CliTypes
    <2>5. WorldInv'
      BY <1>1, <1>2, <2>4, CliParts DEF WorldInv
    <2> QED
      BY <2>3, <2>5, CliParts
  <1>3. CASE daemon' # daemon
    <2> DEFINE q == daemon[socket].pending \union {proc[p].dev}
               v == [daemon[socket] EXCEPT !.pending = q]
    <2>1. /\ Cli!Answers /\ Cli!Done(p) /\ UNCHANGED socket
          /\ daemon' = [daemon EXCEPT ![socket].pending = q]
      BY <1>3 DEF Cli!ResetState, Cli!SessionStart
    <2>2. socket \in Daemons /\ daemon[socket] \in DaemonType
      BY <2>1, MCBackendAssumption
      DEF Cli!Answers, Cli!None, CliInv, CliTypes, Daemons
    <2>3. daemon' = [daemon EXCEPT ![socket] = v]
      BY <2>1, <2>2 DEF CliInv, CliTypes
    <2>4. q \in SUBSET Some
      BY <2>2 DEF DaemonType, CliInv, CliTypes, ProcType
    <2> HIDE DEF q
    <2>5. /\ v \in DaemonType /\ v.state = daemon[socket].state
          /\ v.sessions = daemon[socket].sessions
      BY <2>2, <2>4 DEF DaemonType
    <2> HIDE DEF v
    <2>6. /\ daemon' \in [Daemons -> DaemonType] /\ daemon'[socket] = v
          /\ \A j \in Daemons \ {socket} : daemon'[j] = daemon[j]
      BY <2>2, <2>3, <2>5, DaemonUpdate
    <2>7. Keeps
      BY <2>1, <2>5, <2>6, StatesKept
    <2>8. ProcInv'
      BY <1>1, <2>1, <2>7, Forms
    <2>9. WorldInv'
      BY <1>1, <2>1, <2>2, <2>5, <2>6, CliParts DEF WorldInv
    <2> QED
      BY <2>8, <2>9, CliParts
  <1> QED
    BY <1>2, <1>3

\* A session is stopped.
LEMMA StepHalt ==
  ASSUME CliInv, NEW p \in Procs, Cli!SessionStop(p)
  PROVE  CliInv'
  <1> DEFINE d == proc[p].dev
  <1>1. /\ proc[p].todo # <<>> /\ ~Cli!At(p, "gone") /\ Cli!Done(p)
        /\ UNCHANGED <<cfg, file, socket>>
    BY DEF Cli!SessionStop, Cli!At
  <1>2. CASE UNCHANGED daemon
    <2>1. Keeps
      BY <1>1, <1>2, StatesKept
    <2>2. ProcInv'
      BY <1>1, <2>1, Forms
    <2>3. WorldInv'
      BY <1>1, <1>2, CliParts DEF WorldInv
    <2> QED
      BY <2>2, <2>3, CliParts
  <1>3. CASE Cli!Answers /\ daemon' # daemon
    <2> DEFINE rest == daemon[socket].sessions \ {d}
               v == [daemon[socket] EXCEPT !.sessions = rest]
    <2>1. daemon' = [daemon EXCEPT ![socket].sessions = rest]
      BY <1>3 DEF Cli!SessionStop
    <2>2. socket \in Daemons /\ daemon[socket] \in DaemonType
      BY <1>3, MCBackendAssumption
      DEF Cli!Answers, Cli!None, CliInv, CliTypes, Daemons
    <2>3. daemon' = [daemon EXCEPT ![socket] = v]
      BY <2>1, <2>2 DEF CliInv, CliTypes
    <2>4. rest \in SUBSET Profiles
      BY <2>2 DEF DaemonType
    <2>5. /\ v \in DaemonType /\ v.state = daemon[socket].state
          /\ v.sessions = rest
      BY <2>2, <2>4 DEF DaemonType
    <2> HIDE DEF v
    <2>6. /\ daemon' \in [Daemons -> DaemonType] /\ daemon'[socket] = v
          /\ \A j \in Daemons \ {socket} : daemon'[j] = daemon[j]
      BY <2>2, <2>3, <2>5, DaemonUpdate
    <2>7. Keeps
      BY <1>1, <2>5, <2>6, StatesKept
    <2>8. ProcInv'
      BY <1>1, <2>7, Forms
    <2>9. WorldInv'
      BY <1>1, <2>6, CliParts DEF WorldInv
    <2> QED
      BY <2>8, <2>9, CliParts
  <1> QED
    BY <1>2, <1>3 DEF Cli!SessionStop

\* A radio is held and released directly.
LEMMA StepDirect ==
  ASSUME CliInv, NEW p \in Procs,
         Cli!openBackend(p) \/ Cli!openShellSession(p) \/ Cli!CloseBackend(p)
  PROVE  CliInv'
  <1> DEFINE d == proc[p].dev
  <1>1. ~Cli!At(p, "gone") /\ UNCHANGED <<cfg, file, socket, daemon>>
    BY DEF Cli!openBackend, Cli!openShellSession, Cli!CloseBackend, Cli!At
  <1>2. Keeps
    BY <1>1, StatesKept
  <1>3. ProcInv'
    <2>1. CASE Cli!CloseBackend(p)
      BY <1>1, <1>2, <2>1, Forms DEF Cli!CloseBackend
    <2>2. CASE Cli!openBackend(p) \/ Cli!openShellSession(p)
      <3>1. proc[p].todo # <<>> /\ (Cli!Done(p) \/ Cli!Fail(p))
        BY <2>2 DEF Cli!openBackend, Cli!openShellSession, Cli!At
      <3> QED
        BY <1>1, <1>2, <3>1, Forms, Failing
    <2> QED
      BY <2>1, <2>2
  <1>4. WorldInv'
    BY <1>1, CliParts DEF WorldInv
  <1> QED
    BY <1>3, <1>4, CliParts

\* An invocation begins.
LEMMA StepRun ==
  ASSUME CliInv, NEW p \in Procs, NEW cmd \in Cli!Commands,
         NEW d \in Profiles, Cli!Run(p, cmd, d)
  PROVE  CliInv'
  <1> DEFINE s == Cli!Program(cmd)
             r == [proc[p] EXCEPT !.cmd = cmd, !.dev = d, !.todo = s]
  <1>1. /\ proc[p].cmd = "none" /\ proc' = [proc EXCEPT ![p] = r]
        /\ UNCHANGED <<cfg, file, socket, daemon>>
    BY DEF Cli!Run, CliInv, CliTypes
  <1>2. s \in Seq(StepNames) /\ Paired(s)
    BY ProgramsPaired
  <1>3. /\ proc[p] \in ProcType /\ Sound(proc[p].copy)
        /\ proc[p].todo = <<>>
    BY <1>1 DEF CliInv, CliTypes, ConfigInv, ProgramInv
  <1>4. ~Cli!At(p, "gone") /\ d \in Some /\ cmd # "none"
    BY <1>3 DEF Cli!At, Some, Cli!Commands
  <1> HIDE DEF s
  <1>5. /\ r \in ProcType /\ r.copy = proc[p].copy /\ r.todo = s
        /\ r.cmd = cmd /\ r.asked = proc[p].asked /\ r.ok = proc[p].ok
        /\ r.misled = proc[p].misled
    BY <1>2, <1>3, <1>4 DEF ProcType
  <1> HIDE DEF r
  <1>6. Keeps
    BY <1>1, StatesKept
  <1>7. ProcInv'
    BY <1>1, <1>2, <1>3, <1>4, <1>5, <1>6, Moved
  <1>8. WorldInv'
    BY <1>1, CliParts DEF WorldInv
  <1> QED
    BY <1>7, <1>8, CliParts

\* A daemon binds the socket, or lets go of it.
LEMMA StepSocket ==
  ASSUME CliInv, NEW i \in Daemons,
         \/ Cli!backendServe(i) \/ Cli!Listen(i)
         \/ Cli!CloseListener(i) \/ Cli!RemoveSocket(i)
  PROVE  CliInv'
  <1>1. UNCHANGED <<cfg, file, proc>>
    BY DEF Cli!backendServe, Cli!Listen, Cli!CloseListener, Cli!RemoveSocket
  <1>2. daemon[i] \in DaemonType /\ i # 0 /\ i \in 0..MaxDaemons
    BY MCBackendAssumption DEF CliInv, CliTypes, Daemons
  <1>3. \E v \in DaemonType :
          /\ daemon' = [daemon EXCEPT ![i] = v]
          /\ \/ /\ socket' = i \/ UNCHANGED socket
                /\ daemon[i].state \in {"boot", "loaded"}
                /\ v.state \in {"loaded", "serving", "dead"}
             \/ /\ socket' = 0 /\ daemon[i].state \in {"asked", "closing"}
                /\ v.state \in {"closing", "stopping"}
    <2>1. CASE Cli!backendServe(i)
      <3> DEFINE x == daemon[i].pending
                 a == Cli!Load.devices \union x
                 b == Cli!Load.autostart \union x
                 v == [daemon[i] EXCEPT !.state = "loaded", !.profiles = a,
                                        !.pending = b]
                 w == [daemon[i] EXCEPT !.state = "dead", !.pending = {}]
      <3>1. a \in SUBSET Some /\ b \in SUBSET Some
        BY <1>2, SoundLoad DEF Config, DaemonType
      <3>2. \/ daemon' = [daemon EXCEPT ![i] = v]
            \/ daemon' = [daemon EXCEPT ![i] = w]
        BY <2>1 DEF Cli!backendServe, CliInv, CliTypes
      <3> HIDE DEF a, b
      <3>3. /\ v \in DaemonType /\ v.state = "loaded"
            /\ w \in DaemonType /\ w.state = "dead"
        BY <1>2, <3>1 DEF DaemonType, States
      <3>4. UNCHANGED socket /\ daemon[i].state = "boot"
        BY <2>1 DEF Cli!backendServe
      <3> HIDE DEF v, w
      <3> QED
        BY <3>2, <3>3, <3>4
    <2>4. CASE Cli!Listen(i)
      <3> DEFINE v == [daemon[i] EXCEPT !.state = "serving"]
      <3>1. daemon' = [daemon EXCEPT ![i] = v]
        BY <2>4 DEF Cli!Listen, CliInv, CliTypes
      <3>2. v \in DaemonType /\ v.state = "serving"
        BY <1>2 DEF DaemonType, States
      <3>3. socket' = i /\ daemon[i].state = "loaded"
        BY <2>4 DEF Cli!Listen
      <3> HIDE DEF v
      <3> QED
        BY <3>1, <3>2, <3>3
    <2>2. CASE Cli!CloseListener(i)
      <3> DEFINE v == [daemon[i] EXCEPT !.state = "closing"]
      <3>1. daemon' = [daemon EXCEPT ![i] = v]
        BY <2>2 DEF Cli!CloseListener, CliInv, CliTypes
      <3>2. /\ v \in DaemonType /\ v.sessions = daemon[i].sessions
            /\ v.state = "closing"
        BY <1>2 DEF DaemonType, States
      <3>3. socket' = 0 /\ daemon[i].state = "asked"
        BY <2>2 DEF Cli!CloseListener, Cli!None
      <3> HIDE DEF v
      <3> QED
        BY <3>1, <3>2, <3>3
    <2>3. CASE Cli!RemoveSocket(i)
      <3> DEFINE v == [daemon[i] EXCEPT !.state = "stopping"]
      <3>1. daemon' = [daemon EXCEPT ![i] = v]
        BY <2>3 DEF Cli!RemoveSocket, CliInv, CliTypes
      <3>2. /\ v \in DaemonType /\ v.sessions = daemon[i].sessions
            /\ v.state = "stopping"
        BY <1>2 DEF DaemonType, States
      <3>3. socket' = 0 /\ daemon[i].state = "closing"
        BY <2>3 DEF Cli!RemoveSocket, Cli!None
      <3> HIDE DEF v
      <3> QED
        BY <3>1, <3>2, <3>3
    <2> QED
      BY <2>1, <2>2, <2>3, <2>4
  <1>4. PICK v \in DaemonType :
          /\ daemon' = [daemon EXCEPT ![i] = v]
          /\ \/ /\ socket' = i \/ UNCHANGED socket
                /\ daemon[i].state \in {"boot", "loaded"}
                /\ v.state \in {"loaded", "serving", "dead"}
             \/ /\ socket' = 0 /\ daemon[i].state \in {"asked", "closing"}
                /\ v.state \in {"closing", "stopping"}
    BY <1>3
  <1>5. /\ daemon' \in [Daemons -> DaemonType] /\ daemon'[i] = v
        /\ \A j \in Daemons \ {i} : daemon'[j] = daemon[j]
    BY <1>4, DaemonUpdate
  <1>6. Keeps
    <2> SUFFICES ASSUME NEW j \in Daemons, daemon[j].state \in Ending
                 PROVE  /\ daemon'[j].state \in Ending
                        /\ Reached(j)' => Reached(j)
      BY DEF Keeps
    <2>1. j # 0
      BY MCBackendAssumption DEF Daemons
    <2> QED
      BY <1>4, <1>5, <2>1 DEF Reached, Ending, Cli!Answers, Cli!None
  <1>7. ProcInv'
    BY <1>1, <1>6, Still
  <1>8. socket' \in 0..MaxDaemons
    BY <1>2, <1>4, MCBackendAssumption DEF CliInv, CliTypes
  <1>9. WorldInv'
    BY <1>1, <1>5, <1>8, CliParts DEF WorldInv
  <1> QED
    BY <1>7, <1>9, CliParts

\* A daemon opens a session, or fails to.
LEMMA StepSession ==
  ASSUME CliInv, NEW i \in Daemons, NEW d \in Profiles, Cli!startSession(i, d)
  PROVE  CliInv'
  <1> DEFINE a == daemon[i].pending \ {d}
  <1>1. UNCHANGED <<cfg, file, socket, proc>>
    BY DEF Cli!startSession
  <1>2. daemon[i] \in DaemonType /\ a \in SUBSET Some
    BY DEF CliInv, CliTypes, DaemonType
  <1>3. CASE holder[d] = Cli!Free
    <2> DEFINE b == daemon[i].sessions \union {d}
               v == [daemon[i] EXCEPT !.pending = a, !.sessions = b]
    <2>1. daemon' = [daemon EXCEPT ![i] = v]
      BY <1>3 DEF Cli!startSession, CliInv, CliTypes
    <2>2. b \in SUBSET Profiles
      BY <1>2 DEF DaemonType
    <2> HIDE DEF a
    <2>3. v \in DaemonType /\ v.state = daemon[i].state /\ v.sessions = b
      BY <1>2, <2>2 DEF DaemonType
    <2> HIDE DEF v
    <2>4. /\ daemon' \in [Daemons -> DaemonType] /\ daemon'[i] = v
          /\ \A j \in Daemons \ {i} : daemon'[j] = daemon[j]
      BY <2>1, <2>3, DaemonUpdate
    <2>5. Keeps
      BY <1>1, <2>3, <2>4, StatesKept
    <2>6. ProcInv'
      BY <1>1, <2>5, Still
    <2>7. WorldInv'
      BY <1>1, <2>4, CliParts DEF WorldInv
    <2> QED
      BY <2>6, <2>7, CliParts
  <1>4. CASE holder[d] # Cli!Free
    <2> DEFINE v == [daemon[i] EXCEPT !.pending = a]
    <2>1. daemon' = [daemon EXCEPT ![i] = v]
      BY <1>4 DEF Cli!startSession, CliInv, CliTypes
    <2> HIDE DEF a
    <2>2. /\ v \in DaemonType /\ v.state = daemon[i].state
          /\ v.sessions = daemon[i].sessions
      BY <1>2 DEF DaemonType
    <2> HIDE DEF v
    <2>3. /\ daemon' \in [Daemons -> DaemonType] /\ daemon'[i] = v
          /\ \A j \in Daemons \ {i} : daemon'[j] = daemon[j]
      BY <2>1, <2>2, DaemonUpdate
    <2>4. Keeps
      BY <1>1, <2>2, <2>3, StatesKept
    <2>5. ProcInv'
      BY <1>1, <2>4, Still
    <2>6. WorldInv'
      BY <1>1, <2>3, CliParts DEF WorldInv
    <2> QED
      BY <2>5, <2>6, CliParts
  <1> QED
    BY <1>3, <1>4

\* A daemon ends.
LEMMA StepEnd ==
  ASSUME CliInv, NEW i \in Daemons, Cli!stopAllSessions(i)
  PROVE  CliInv'
  <1> DEFINE v == [daemon[i] EXCEPT !.state = "dead", !.sessions = {},
                                    !.pending = {}]
  <1>1. /\ UNCHANGED <<cfg, file, socket, proc>>
        /\ daemon[i].state = "stopping"
    BY DEF Cli!stopAllSessions
  <1>2. daemon' = [daemon EXCEPT ![i] = v]
    BY DEF Cli!stopAllSessions, CliInv, CliTypes
  <1>3. daemon[i] \in DaemonType
    BY DEF CliInv, CliTypes
  <1>4. v \in DaemonType /\ v.state = "dead" /\ v.sessions = {}
    BY <1>3 DEF DaemonType, States
  <1> HIDE DEF v
  <1>5. /\ daemon' \in [Daemons -> DaemonType] /\ daemon'[i] = v
        /\ \A j \in Daemons \ {i} : daemon'[j] = daemon[j]
    BY <1>2, <1>4, DaemonUpdate
  <1>6. Keeps
    BY <1>1, <1>4, <1>5 DEF Keeps, Ending, Reached, Cli!Answers, Cli!None
  <1>7. ProcInv'
    BY <1>1, <1>6, Still
  <1>8. WorldInv'
    BY <1>1, <1>5, CliParts DEF WorldInv
  <1> QED
    BY <1>7, <1>8, CliParts

\* The inductive step.
LEMMA StepCliInv ==
  ASSUME CliInv, [Cli!Next]_(Cli!vars)
  PROVE  CliInv'
  <1>1. CASE UNCHANGED Cli!vars
    <2>1. UNCHANGED <<cfg, file, socket, daemon, proc>>
      BY <1>1 DEF Cli!vars
    <2>2. Keeps
      BY <2>1, StatesKept
    <2>3. ProcInv'
      BY <2>1, <2>2, Still
    <2>4. WorldInv'
      BY <2>1, CliParts DEF WorldInv
    <2> QED
      BY <2>3, <2>4, CliParts
  <1>2. ASSUME NEW p \in Procs, Cli!Step(p) PROVE CliInv'
    BY <1>2, StepAlone, StepSave, StepSpawn, StepStop, StepRequest, StepHalt,
       StepDirect
    DEF Cli!Step
  <1>3. ASSUME NEW i \in Daemons, NEW d \in Profiles, Cli!startSession(i, d)
        PROVE  CliInv'
    BY <1>3, StepSession
  <1>4. ASSUME NEW i \in Daemons,
               \/ Cli!backendServe(i) \/ Cli!Listen(i) \/ Cli!CloseListener(i)
               \/ Cli!RemoveSocket(i) \/ Cli!stopAllSessions(i)
        PROVE  CliInv'
    BY <1>4, StepSocket, StepEnd
  <1> QED
    BY <1>1, <1>2, <1>3, <1>4, StepRun DEF Cli!Next, Cli!Daemons, Daemons

\* What the configuration file reads as selects saved profiles, even when
\* invocations read it truncated or write it over each other, and a command that
\* stopped a daemon goes on only once that daemon is out of reach, for good,
\* unless its status calls failed: for any number of invocations, of profiles
\* and of daemons, and however they interleave (config.go, backend_cmd.go,
\* connect.go).
THEOREM CommandsTrue == MCSpec => []CommandsTellTruth
  <1>1. MCInit => CliInv
    <2> SUFFICES ASSUME Cli!Init PROVE CliInv
      BY DEF MCInit
    <2>0. <<>> \in Seq(StepNames) /\ Paired(<<>>)
      BY DEF Paired
    <2>1. cfg \in Config /\ Sound(cfg)
      BY DEF Cli!Init, Cli!Empty, Cli!None, Config, Some, Sound
    <2>2. Cli!Empty \in Config /\ Sound(Cli!Empty)
      BY SoundEmpty
    <2>3. Cli!NoDaemon \in DaemonType /\ Cli!NoDaemon.sessions = {}
      BY DEF Cli!NoDaemon, DaemonType, States
    <2>4. daemon \in [Daemons -> DaemonType]
          /\ \A i \in Daemons : daemon[i].sessions = {}
      BY <2>3 DEF Cli!Init, Cli!Daemons, Daemons
    <2>5. /\ Cli!Idle \in ProcType /\ Cli!Idle.copy = Cli!Empty
          /\ Cli!Idle.todo = <<>> /\ Cli!Idle.asked = 0
      BY <2>0, <2>2, MCBackendAssumption DEF Cli!Idle, Cli!None, ProcType, Some
    <2>6. /\ proc \in [Procs -> ProcType]
          /\ \A p \in Procs : proc[p] = Cli!Idle
      BY <2>5 DEF Cli!Init
    <2>7. file \in Files /\ socket \in 0..MaxDaemons
      BY MCBackendAssumption DEF Cli!Init, Cli!None, Files
    <2>8. CliTypes
      BY <2>1, <2>4, <2>6, <2>7 DEF CliTypes
    <2>9. ConfigInv /\ ProgramInv /\ AskedInv /\ UnreachedInv
      BY <2>0, <2>1, <2>2, <2>4, <2>5, <2>6
      DEF ConfigInv, ProgramInv, AskedInv, UnreachedInv
    <2> QED
      BY <2>8, <2>9 DEF CliInv
  <1>2. CliInv /\ [MCNext]_mcVars => CliInv'
    <2> SUFFICES ASSUME CliInv, [MCNext]_mcVars PROVE CliInv'
      OBVIOUS
    <2>1. [Cli!Next]_(Cli!vars)
      BY DEF MCNext, mcVars, cliVars, Cli!vars
    <2> QED
      BY <2>1, StepCliInv
  <1>3. CliInv => CommandsTellTruth
    BY DEF CliInv, ConfigInv, UnreachedInv, Sound, Reached,
           CommandsTellTruth, Cli!CommandsTellTruth, Cli!CurrentIsSaved,
           Cli!StopIsTrue, Cli!None, Cli!Daemons, Daemons
  <1> QED
    BY <1>1, <1>2, <1>3, PTL DEF MCSpec

-----------------------------------------------------------------------------
(* The least element of a set of naturals.                                 *)

\* Some relation orders the naturals and is well-founded.
LEMMA NatOrder ==
  \E R : IsWellFoundedOn(R, Nat) /\ \A n, m \in Nat : n < m => <<n, m>> \in R
  <1> DEFINE R == OpToRel(<, Nat)
  <1>1. IsWellFoundedOn(R, Nat)
    BY NatLessThanWellFounded
  <1>2. \A n, m \in Nat : n < m => <<n, m>> \in R
    BY DEF OpToRel
  <1> QED
    BY <1>1, <1>2, Zenon

\* A set of naturals that is not empty has a least element.
LEMMA LeastOf ==
  ASSUME NEW U, U \subseteq Nat, U # {}
  PROVE  \E n \in U : \A m \in U : n <= m
  <1>1. PICK R : IsWellFoundedOn(R, Nat) /\ \A n, m \in Nat : n < m => <<n, m>> \in R
    BY NatOrder, Zenon
  <1>a. IsWellFoundedOn(R, Nat) /\ U \subseteq Nat /\ U # {}
    BY <1>1
  <1>b. \E x \in U : \A y \in U : ~ (<<y, x>> \in R)
    BY <1>a, WFMin, ZenonT(30)
  <1>2. PICK x \in U : \A y \in U : ~ (<<y, x>> \in R)
    BY <1>b, Zenon
  <1>3. \A y \in U : ~ (y < x)
    BY <1>1, <1>2
  <1> QED
    BY <1>3

-----------------------------------------------------------------------------
(* Repeaters: types.                                                       *)

MeshKinds == {"login", "status", "exec", "discover"}
MeshKeys == {r.key : r \in Remotes} \union Nodes
Mail == [kind : MeshKinds, key : MeshKeys, of : Nat, ok : BOOLEAN]
Asking == [id : Nat, kind : MeshKinds, remote : Remotes, byKey : BOOLEAN,
            good : BOOLEAN, cli : BOOLEAN]
RowType == [key : MeshKeys \union {0}, active : BOOLEAN]

MeshTypes ==
  /\ air \subseteq Mail
  /\ replies \in Seq(Mail) /\ events \in Seq(Mail) /\ found \in Seq(Mail)
  /\ rows \in [Remote!Names -> RowType]
  /\ files \subseteq Remotes /\ unsaved \subseteq Remotes
  /\ step \in {"idle", "ensure", "send", "wait"}
  /\ nodes \in Seq(MeshKeys) /\ givenUp \subseteq Asking
  /\ ops \in Nat /\ request.id = ops
  /\ request \in Asking \/ (step = "idle" /\ ops = 0)

-----------------------------------------------------------------------------
(* Repeaters: the inductive invariant.                                     *)

\* The radio is connected only to repeaters that accepted a login; stored
\* sessions, session files and the logins that wait in the event channel are
\* of such repeaters, or of one whose name reads like the key of such a one.
AdmitInv ==
  /\ table \subseteq admitted
  /\ \A r \in files \union unsaved : Remote!Vouched(r.key)
  /\ \A n \in Remote!Names : rows[n].active => Remote!Vouched(rows[n].key)
  /\ \A k \in 1..Len(events) :
       events[k].kind = "login" /\ events[k].ok => events[k].key \in admitted

\* The command line asks for logins only.
AskInv == step # "idle" /\ request.cli => request.kind = "login"

\* Only replies to commands wait in the radio.
ReplyInv == \A k \in 1..Len(replies) : replies[k].kind = "exec"

\* A login that failed for a repeater queried by name has no stored session.
ClearedInv ==
  (step = "idle" /\ request.id # 0 /\ request.kind = "login"
     /\ ~request.byKey /\ ~(answer.id = request.id /\ answer.ok))
    => ~rows[request.remote.name].active

GivenInv ==
  \A g \in givenUp : g.id <= ops /\ (step # "idle" => g.id < ops)

\* An answer under way is of the request that waits, or an earlier request of
\* the kind to that repeater has been given up.
Quick(m) == m.kind \in {"login", "status"}
Mine(m) == /\ step = "wait" /\ m.of = request.id
           /\ m.kind = request.kind /\ m.key = request.remote.key
Excused(m) == \E g \in givenUp :
                /\ g.id <= m.of /\ g.kind = m.kind
                /\ Remote!Plain(m.key) => g.remote.key = m.key

Fine(m) ==
  Quick(m) => /\ m.of <= ops
              /\ \E s \in Remotes : s.key = m.key
              /\ step \in {"ensure", "send"} => m.of # request.id
              /\ Mine(m) \/ Excused(m)

LateInv == /\ \A m \in air : Fine(m)
           /\ \A k \in 1..Len(events) : Fine(events[k])

\* There is one answer to the request that waits, in the air or in the event
\* channel.
Own(m) == Quick(m) /\ m.of = request.id

OwnInv ==
  step = "wait" =>
    /\ \A m, n \in air : Own(m) /\ Own(n) => m = n
    /\ \A j, k \in 1..Len(events) : Own(events[j]) /\ Own(events[k]) => j = k
    /\ \A m \in air : \A k \in 1..Len(events) : ~(Own(m) /\ Own(events[k]))

MailInv == GivenInv /\ LateInv /\ OwnInv
SessionInv == AdmitInv /\ AskInv /\ ReplyInv /\ ClearedInv
AnswerInv == Remote!AnswerIsOwn /\ Remote!NodesOnce

MeshInv == MeshTypes /\ MailInv /\ SessionInv /\ AnswerInv

\* A query by name finds a repeater.
LEMMA ResolveFinds ==
  ASSUME NEW r \in Remotes, NEW byKey \in BOOLEAN
  PROVE  Remote!Resolve(r, byKey) \in Remotes
  <1> DEFINE Keys == {s.key : s \in {t \in Remotes : t.name = r.name}}
  <1>1. Keys \subseteq Nat /\ Keys # {}
    BY MCBackendAssumption
  <1>2. PICK k \in Keys : \A n \in Keys : k <= n
    BY <1>1, LeastOf, Zenon
  <1>3. \E s \in Remotes : /\ s.name = r.name
                           /\ \A t \in Remotes : t.name = r.name => s.key <= t.key
    BY <1>2
  <1> QED
    BY <1>3 DEF Remote!Resolve

\* What Emit leaves in the event channel: the newest of the old and new ones.
LEMMA Emitted ==
  ASSUME events \in Seq(Mail), NEW evs \in Seq(Mail), Remote!Emit(evs)
  PROVE  /\ events' \in Seq(Mail)
         /\ \E off \in Nat :
              \A k \in 1..Len(events') :
                \/ off + k \in 1..Len(events) /\ events'[k] = events[off + k]
                \/ \E j \in 1..Len(evs) : /\ off + k = Len(events) + j
                                          /\ events'[k] = evs[j]
  <1> DEFINE all == events \o evs
             off == IF Len(all) > EventCap THEN Len(all) - EventCap ELSE 0
  <1>1. /\ all \in Seq(Mail) /\ Len(all) = Len(events) + Len(evs)
        /\ Len(events) \in Nat /\ Len(evs) \in Nat /\ Len(all) \in Nat
        /\ \A k \in 1..Len(events) : all[k] = events[k]
        /\ \A k \in 1..Len(evs) : all[Len(events) + k] = evs[k]
    OBVIOUS
  <1>2. off \in Nat /\ off <= Len(all)
    BY <1>1, MCBackendAssumption
  <1>3. events' = SubSeq(all, off + 1, Len(all))
    BY <1>1, MCBackendAssumption DEF Remote!Emit
  <1> HIDE DEF all, off
  <1>a. events' \in Seq(Mail)
    BY <1>1, <1>2, <1>3
  <1>b. Len(events') = Len(all) - off
    BY <1>1, <1>2, <1>3
  <1>c. ASSUME NEW k \in 1..Len(events')
        PROVE  events'[k] = all[off + k]
    <2>1. k \in 1..(Len(all) - off)
      BY <1>b
    <2>2. SubSeq(all, off + 1, Len(all))[k] = all[off + 1 + k - 1]
      BY <1>1, <1>2, <2>1
    <2>3. off + 1 + k - 1 = off + k
      BY <1>2, <2>1
    <2> QED
      BY <1>3, <2>2, <2>3
  <1>4. /\ events' \in Seq(Mail) /\ Len(events') = Len(all) - off
        /\ \A k \in 1..Len(events') : events'[k] = all[off + k]
    BY <1>a, <1>b, <1>c
  <1>5. ASSUME NEW k \in 1..Len(events')
        PROVE  \/ off + k \in 1..Len(events) /\ events'[k] = events[off + k]
               \/ \E j \in 1..Len(evs) : /\ off + k = Len(events) + j
                                         /\ events'[k] = evs[j]
    <2>1. events'[k] = all[off + k] /\ off + k \in 1..Len(all)
      BY <1>1, <1>2, <1>4
    <2>2. CASE off + k <= Len(events)
      BY <1>1, <1>2, <2>1, <2>2
    <2>3. CASE off + k > Len(events)
      <3> DEFINE j == off + k - Len(events)
      <3>1. j \in 1..Len(evs) /\ off + k = Len(events) + j
        BY <1>1, <1>2, <2>1, <2>3
      <3> QED
        BY <1>1, <2>1, <3>1
    <2>4. off + k <= Len(events) \/ off + k > Len(events)
      BY <1>1, <2>1
    <2> QED
      BY <2>2, <2>3, <2>4
  <1> QED
    BY <1>2, <1>4, <1>5

\* The event channel only lost logins and statuses, the oldest first.
Sheds ==
  \E off \in Nat :
    \A k \in 1..Len(events') :
      Quick(events'[k]) => /\ off + k \in 1..Len(events)
                           /\ events'[k] = events[off + k]

LEMMA ShedSame ==
  ASSUME MeshTypes, UNCHANGED events
  PROVE  Sheds
  <1>1. \A k \in 1..Len(events) : 0 + k = k
    BY DEF MeshTypes
  <1> QED
    BY <1>1 DEF Sheds

LEMMA ShedTail ==
  ASSUME MeshTypes, events # <<>>, events' = Tail(events)
  PROVE  Sheds /\ events' \in Seq(Mail)
  <1>1. /\ events' \in Seq(Mail) /\ Len(events') = Len(events) - 1
        /\ Len(events) \in Nat
        /\ \A k \in 1..Len(events') : events'[k] = events[k + 1]
    BY DEF MeshTypes
  <1>2. \A k \in 1..Len(events') : 1 + k \in 1..Len(events)
                                   /\ events'[k] = events[1 + k]
    BY <1>1
  <1> QED
    BY <1>1, <1>2 DEF Sheds

LEMMA ShedReplies ==
  ASSUME MeshTypes, ReplyInv, Remote!Emit(replies)
  PROVE  Sheds /\ events' \in Seq(Mail)
  <1>1. PICK off \in Nat :
          \A k \in 1..Len(events') :
            \/ off + k \in 1..Len(events) /\ events'[k] = events[off + k]
            \/ \E j \in 1..Len(replies) : /\ off + k = Len(events) + j
                                          /\ events'[k] = replies[j]
    BY Emitted DEF MeshTypes
  <1>2. events' \in Seq(Mail)
    BY Emitted DEF MeshTypes
  <1>3. \A k \in 1..Len(events') :
          Quick(events'[k]) => /\ off + k \in 1..Len(events)
                               /\ events'[k] = events[off + k]
    BY <1>1 DEF ReplyInv, Quick
  <1> QED
    BY <1>2, <1>3 DEF Sheds

\* A step of somebody else than the request.
LEMMA MailSteady ==
  ASSUME MeshInv, UNCHANGED <<request, step, givenUp, ops>>,
         air' \subseteq air, Sheds
  PROVE  MailInv'
  <1>1. PICK off \in Nat :
          \A k \in 1..Len(events') :
            Quick(events'[k]) => /\ off + k \in 1..Len(events)
                                 /\ events'[k] = events[off + k]
    BY DEF Sheds
  <1>2. \A m : (Fine(m)' <=> Fine(m)) /\ (Own(m)' <=> Own(m))
    BY DEF Fine, Own, Quick, Mine, Excused
  <1>3. GivenInv'
    BY DEF MeshInv, MailInv, GivenInv
  <1>4. LateInv'
    <2>1. \A m \in air' : Fine(m)
      BY DEF MeshInv, MailInv, LateInv
    <2>2. \A k \in 1..Len(events') : Fine(events'[k])
      BY <1>1 DEF MeshInv, MailInv, LateInv, Fine
    <2>3. \A k \in 1..Len(events') : Fine(events[k])'
      BY <2>2 DEF Fine, Quick, Mine, Excused
    <2> QED
      BY <1>2, <2>1, <2>3 DEF LateInv
  <1>5. OwnInv'
    <2> SUFFICES ASSUME step = "wait" PROVE OwnInv'
      BY DEF OwnInv
    <2>1. \A m, n \in air' : Own(m) /\ Own(n) => m = n
      BY DEF MeshInv, MailInv, OwnInv
    <2>2. \A k \in 1..Len(events') :
            Own(events'[k]) => /\ off + k \in 1..Len(events)
                               /\ Own(events[off + k])
      BY <1>1 DEF Own
    <2>3. \A j, k \in 1..Len(events') :
            Own(events'[j]) /\ Own(events'[k]) => j = k
      <3>1. \A j, k \in 1..Len(events') :
              Own(events'[j]) /\ Own(events'[k]) => off + j = off + k
        BY <2>2 DEF MeshInv, MailInv, OwnInv
      <3>2. \A j, k \in Nat : off + j = off + k => j = k
        OBVIOUS
      <3> QED
        BY <3>1, <3>2
    <2>4. \A m \in air' : \A k \in 1..Len(events') :
            ~(Own(m) /\ Own(events'[k]))
      BY <2>2 DEF MeshInv, MailInv, OwnInv
    <2>5. \A k : Own(events[k])' <=> Own(events'[k])
      BY DEF Own, Quick
    <2> QED
      BY <1>2, <2>1, <2>3, <2>4, <2>5 DEF OwnInv
  <1> QED
    BY <1>3, <1>4, <1>5 DEF MailInv

\* A request ends: what was its own is excused, or gone.
LEMMA MailEnds ==
  ASSUME MeshInv, UNCHANGED <<request, ops>>, step' = "idle",
         givenUp \subseteq givenUp', \A g \in givenUp' : g.id <= ops,
         \A m \in air' \ air : Quick(m) => /\ m.of <= ops /\ Excused(m)'
                                          /\ \E s \in Remotes : s.key = m.key,
         Sheds,
         \A m \in air' : Quick(m) /\ Mine(m) => Excused(m)',
         \A k \in 1..Len(events') :
           Quick(events'[k]) /\ Mine(events'[k]) => Excused(events[k])'
  PROVE  MailInv'
  <1>1. GivenInv' /\ OwnInv'
    BY DEF GivenInv, OwnInv
  <1>2. ASSUME NEW m, Fine(m), Quick(m) /\ Mine(m) => Excused(m)'
        PROVE  Fine(m)'
    BY <1>2 DEF Fine, Quick, Mine, Excused
  <1>3. \A m \in air' : Fine(m)'
    <2>1. \A m \in air : Fine(m)
      BY DEF MeshInv, MailInv, LateInv
    <2>2. \A m \in air' \ air : Fine(m)'
      BY DEF Fine, Quick
    <2> QED
      BY <1>2, <2>1, <2>2
  <1>4. \A k \in 1..Len(events') : Fine(events[k])'
    <2> SUFFICES ASSUME NEW k \in 1..Len(events'), Quick(events'[k])
                 PROVE  Fine(events[k])'
      BY DEF Fine, Quick
    <2>1. Fine(events'[k])
      BY DEF Sheds, MeshInv, MailInv, LateInv
    <2> DEFINE m == events'[k]
    <2>2. Mine(m) => Excused(events[k])'
      OBVIOUS
    <2>3. Excused(events[k])' <=>
            \E g \in givenUp' : /\ g.id <= m.of
                                /\ g.kind = m.kind
                                /\ Remote!Plain(m.key) => g.remote.key = m.key
      BY DEF Excused
    <2>4. Excused(m) => Excused(events[k])'
      BY <2>3 DEF Excused
    <2>5. /\ m.of <= ops /\ (Mine(m) \/ Excused(m))
          /\ \E s \in Remotes : s.key = m.key
      BY <2>1 DEF Fine
    <2> QED
      BY <2>2, <2>4, <2>5 DEF Fine
  <1> QED
    BY <1>1, <1>3, <1>4 DEF MailInv, LateInv

\* What every part of the invariant gives.
LEMMA MeshFacts ==
  ASSUME MeshInv
  PROVE  MeshTypes /\ ReplyInv /\ AdmitInv /\ AskInv /\ ClearedInv
         /\ GivenInv /\ LateInv /\ OwnInv
         /\ Remote!AnswerIsOwn /\ Remote!NodesOnce
  BY DEF MeshInv, MailInv, SessionInv, AnswerInv

\* Steps that leave answers and nodes alone.
LEMMA AnswerSame ==
  ASSUME MeshInv, UNCHANGED <<answer, nodes>>, givenUp \subseteq givenUp'
  PROVE  AnswerInv'
  BY DEF MeshInv, AnswerInv, Remote!AnswerIsOwn, Remote!NodesOnce

\* An answer to a request arrives at the radio.
LEMMA StepArrive ==
  ASSUME MeshInv, NEW m \in air, Remote!Arrive(m)
  PROVE  MeshInv'
  <1>1. /\ air' = air \ {m}
        /\ UNCHANGED <<rows, files, unsaved, request, step, nodes, givenUp,
                       answer, ops>>
        /\ m \in Mail
    BY MeshFacts DEF Remote!Arrive, Remote!sessions, MeshTypes
  <1>2. AnswerInv'
    BY <1>1, AnswerSame
  <1>3. <<m>> \in Seq(Mail) /\ Len(<<m>>) = 1 /\ <<m>>[1] = m
    BY <1>1
  <1>4. CASE ~Quick(m)
    <2>1. UNCHANGED events
      BY <1>4 DEF Remote!Arrive, Quick
    <2>2. MailInv'
      BY <1>1, <2>1, MailSteady, ShedSame, MeshFacts
    <2>3. UNCHANGED <<table, admitted>>
      BY <1>4 DEF Remote!Arrive, Quick
    <2>4. replies' \in Seq(Mail) /\ ReplyInv'
      <3>1. CASE m.kind = "exec"
        <4>1. replies' = Append(replies, m) /\ replies \in Seq(Mail)
          BY <3>1, MeshFacts DEF Remote!Arrive, MeshTypes
        <4>2. /\ replies' \in Seq(Mail) /\ Len(replies') = Len(replies) + 1
              /\ Len(replies) \in Nat
              /\ \A k \in 1..Len(replies) : replies'[k] = replies[k]
              /\ replies'[Len(replies) + 1] = m
          BY <1>1, <4>1
        <4>3. \A k \in 1..Len(replies') :
                k \in 1..Len(replies) \/ k = Len(replies) + 1
          BY <4>2
        <4> QED
          BY <3>1, <4>2, <4>3, MeshFacts DEF ReplyInv
      <3>2. CASE m.kind # "exec"
        BY <3>2, MeshFacts DEF Remote!Arrive, MeshTypes, ReplyInv
      <3> QED
        BY <3>1, <3>2
    <2>5. found' \in Seq(Mail)
      BY <1>1, MeshFacts DEF Remote!Arrive, MeshTypes
    <2>6. MeshTypes'
      BY <1>1, <2>1, <2>4, <2>5, MeshFacts DEF MeshTypes
    <2>7. AdmitInv' /\ AskInv' /\ ClearedInv'
      BY <1>1, <2>1, <2>3, MeshFacts DEF AdmitInv, Remote!Vouched, AskInv, ClearedInv
    <2> QED
      BY <1>2, <2>2, <2>4, <2>6, <2>7 DEF MeshInv, SessionInv
  <1>5. CASE Quick(m)
    <2>1. /\ Remote!Emit(<<m>>)
          /\ UNCHANGED <<replies, found>>
          /\ table' = IF m.kind = "login" /\ m.ok
                      THEN table \union {m.key} ELSE table
          /\ admitted' = IF m.kind = "login" /\ m.ok
                         THEN admitted \union {m.key} ELSE admitted
      BY <1>5 DEF Remote!Arrive, Quick
    <2>2. events' \in Seq(Mail)
      BY <1>3, <2>1, Emitted, MeshFacts DEF MeshTypes
    <2>3. PICK off \in Nat :
            \A k \in 1..Len(events') :
              \/ off + k \in 1..Len(events) /\ events'[k] = events[off + k]
              \/ \E j \in 1..Len(<<m>>) : /\ off + k = Len(events) + j
                                          /\ events'[k] = <<m>>[j]
      BY <1>3, <2>1, Emitted, MeshFacts DEF MeshTypes
    <2>4. \A k \in 1..Len(events') :
            \/ off + k \in 1..Len(events) /\ events'[k] = events[off + k]
            \/ off + k = Len(events) + 1 /\ events'[k] = m
      BY <1>3, <2>3
    <2>5. \A x : (Fine(x)' <=> Fine(x)) /\ (Own(x)' <=> Own(x))
      BY <1>1 DEF Fine, Own, Quick, Mine, Excused
    <2>6. GivenInv'
      BY <1>1, MeshFacts DEF GivenInv
    <2>7. LateInv'
      <3>1. \A k \in 1..Len(events') : Fine(events'[k])
        BY <2>4, MeshFacts DEF LateInv
      <3>2. \A k \in 1..Len(events') : Fine(events[k])'
        BY <1>1, <3>1 DEF Fine, Quick, Mine, Excused
      <3> QED
        BY <1>1, <2>5, <3>2, MeshFacts DEF LateInv
    <2>8. OwnInv'
      <3> SUFFICES ASSUME step = "wait" PROVE OwnInv'
        BY <1>1 DEF OwnInv
      <3>1. \A x, y \in air' : Own(x) /\ Own(y) => x = y
        BY <1>1, MeshFacts DEF OwnInv
      <3>2. \A j, k \in 1..Len(events') :
              Own(events'[j]) /\ Own(events'[k]) => j = k
        <4>1. \A j, k \in 1..Len(events') :
                Own(events'[j]) /\ Own(events'[k]) => off + j = off + k
          BY <2>4, MeshFacts DEF OwnInv
        <4>2. \A j, k \in Nat : off + j = off + k => j = k
          OBVIOUS
        <4> QED
          BY <4>1, <4>2
      <3>3. \A x \in air' : \A k \in 1..Len(events') :
              ~(Own(x) /\ Own(events'[k]))
        BY <1>1, <2>4, MeshFacts DEF OwnInv
      <3>4. \A k : Own(events[k])' <=> Own(events'[k])
        BY <1>1 DEF Own, Quick
      <3> QED
        BY <2>5, <3>1, <3>2, <3>3, <3>4 DEF OwnInv
    <2>9. MeshTypes'
      BY <1>1, <2>1, <2>2, MeshFacts DEF MeshTypes
    <2>10. AdmitInv'
      <3>1. table' \subseteq admitted' /\ admitted \subseteq admitted'
        BY <2>1, MeshFacts DEF AdmitInv
      <3>2. \A k \in 1..Len(events') :
              events'[k].kind = "login" /\ events'[k].ok
                => events'[k].key \in admitted'
        BY <2>1, <2>4, <3>1, MeshFacts DEF AdmitInv
      <3>3. \A k : Remote!Vouched(k) => Remote!Vouched(k)'
        BY <3>1 DEF Remote!Vouched
      <3> QED
        BY <1>1, <3>1, <3>2, <3>3, MeshFacts DEF AdmitInv
    <2>11. AskInv' /\ ReplyInv' /\ ClearedInv'
      BY <1>1, <2>1, MeshFacts DEF AskInv, ReplyInv, ClearedInv
    <2> QED
      BY <1>2, <2>6, <2>7, <2>8, <2>9, <2>10, <2>11
      DEF MeshInv, MailInv, SessionInv
  <1> QED
    BY <1>4, <1>5

\* Sessions end, in the radio, in the store and on file, and are filed.
LEMMA StepSessions ==
  ASSUME MeshInv,
         \/ \E k \in table : Remote!Forgets(k)
         \/ \E n \in Remote!Names : Remote!Expires(n)
         \/ \E r \in Remotes : Remote!SaveRepeaterSession(r)
                               \/ Remote!FileExpires(r)
  PROVE  MeshInv'
  <1>1. /\ UNCHANGED <<admitted, air, replies, events, found, request, step,
                       nodes, givenUp, answer, ops>>
        /\ table' \subseteq table
        /\ files' \union unsaved' \subseteq files \union unsaved
    BY DEF Remote!Forgets, Remote!Expires, Remote!SaveRepeaterSession,
           Remote!FileExpires, Remote!radio, Remote!sessions
  <1>2. /\ rows' \in [Remote!Names -> RowType]
        /\ \A n \in Remote!Names : rows'[n] = rows[n] \/ rows'[n] = Remote!Row
    <2>1. rows \in [Remote!Names -> RowType]
      BY MeshFacts DEF MeshTypes
    <2>2. UNCHANGED rows
          \/ \E n \in Remote!Names : rows' = [rows EXCEPT ![n] = Remote!Row]
      BY DEF Remote!Forgets, Remote!Expires, Remote!SaveRepeaterSession,
             Remote!FileExpires
    <2>3. Remote!Row \in RowType
      BY DEF Remote!Row, RowType
    <2> QED
      BY <2>1, <2>2, <2>3
  <1>3. ~Remote!Row.active
    BY DEF Remote!Row
  <1>4. MailInv' /\ AnswerInv'
    BY <1>1, MailSteady, ShedSame, AnswerSame, MeshFacts
  <1>5. MeshTypes'
    BY <1>1, <1>2, MeshFacts DEF MeshTypes
  <1>6. AdmitInv' /\ AskInv' /\ ReplyInv'
    BY <1>1, <1>2, <1>3, MeshFacts DEF AdmitInv, Remote!Vouched, AskInv, ReplyInv
  <1>7. ClearedInv'
    <2> SUFFICES ASSUME step = "idle", request.id # 0,
                        ~rows[request.remote.name].active
                 PROVE  ~rows'[request.remote.name].active
      BY <1>1, MeshFacts DEF ClearedInv
    <2>1. request.remote.name \in Remote!Names
      BY MeshFacts DEF MeshTypes, Asking, Remote!Names
    <2> QED
      BY <1>2, <1>3, <2>1
  <1> QED
    BY <1>4, <1>5, <1>6, <1>7 DEF MeshInv, SessionInv

\* The drain loop turns replies into events.
LEMMA StepDrain ==
  ASSUME MeshInv, Remote!Drain
  PROVE  MeshInv'
  <1>1. /\ Remote!Emit(replies) /\ replies' = <<>>
        /\ UNCHANGED <<table, admitted, air, found, rows, files, unsaved,
                       request, step, nodes, givenUp, answer, ops>>
    BY DEF Remote!Drain, Remote!sessions
  <1>2. Sheds /\ events' \in Seq(Mail)
    BY <1>1, ShedReplies, MeshFacts
  <1>3. MailInv' /\ AnswerInv'
    BY <1>1, <1>2, MailSteady, AnswerSame
  <1>4. replies' \in Seq(Mail) /\ ReplyInv'
    BY <1>1 DEF ReplyInv
  <1>5. MeshTypes'
    BY <1>1, <1>2, <1>4, MeshFacts DEF MeshTypes
  <1>6. AdmitInv'
    <2>1. \A k \in 1..Len(events') :
            events'[k].kind = "login" /\ events'[k].ok
              => events'[k].key \in admitted
      BY <1>2, MeshFacts DEF Sheds, Quick, AdmitInv
    <2> QED
      BY <1>1, <2>1, MeshFacts DEF AdmitInv, Remote!Vouched
  <1>7. AskInv' /\ ClearedInv'
    BY <1>1, MeshFacts DEF AskInv, ClearedInv
  <1> QED
    BY <1>3, <1>4, <1>5, <1>6, <1>7 DEF MeshInv, SessionInv

\* A request begins; the command line's is a login and may drop its file.
LEMMA StepBegin ==
  ASSUME MeshInv, NEW kind \in MeshKinds, NEW r \in Remotes,
         NEW byKey \in BOOLEAN, NEW good \in BOOLEAN, NEW cli \in BOOLEAN,
         cli => kind = "login", Remote!Begin(kind, r, byKey, good, cli),
         files' \subseteq files
  PROVE  MeshInv'
  <1>1. /\ step = "idle" /\ ops' = ops + 1
        /\ step' \in {"ensure", "send"}
        /\ nodes' = <<>> \/ nodes' = nodes
        /\ UNCHANGED <<table, admitted, air, replies, events, found, rows,
                       unsaved, givenUp, answer>>
    BY DEF Remote!Begin, Remote!radio
  <1>2. /\ ops \in Nat /\ request.id = ops /\ ops' \in Nat /\ ops' > ops
    BY <1>1, MeshFacts DEF MeshTypes
  <1>3. request' \in Asking /\ request'.id = ops' /\ request'.kind = kind
        /\ request'.cli = cli
    <2> DEFINE to == Remote!Resolve(r, byKey)
    <2>1. to \in Remotes
      BY ResolveFinds
    <2>2. request' = [id |-> ops', kind |-> kind, remote |-> to,
                      byKey |-> byKey, good |-> good, cli |-> cli]
      BY DEF Remote!Begin
    <2> HIDE DEF to
    <2> QED
      BY <1>2, <2>1, <2>2 DEF Asking
  <1>4. nodes' \in Seq(MeshKeys) /\ Remote!NodesOnce'
    <2>1. CASE nodes' = <<>>
      BY <2>1 DEF Remote!NodesOnce
    <2>2. CASE nodes' = nodes
      BY <2>2, MeshFacts DEF MeshTypes, Remote!NodesOnce
    <2> QED
      BY <1>1, <2>1, <2>2
  <1>5. MeshTypes'
    BY <1>1, <1>2, <1>3, <1>4, MeshFacts DEF MeshTypes
  <1>6. Remote!AnswerIsOwn'
    BY <1>1, MeshFacts DEF Remote!AnswerIsOwn
  <1>7. GivenInv'
    <2> SUFFICES ASSUME NEW g \in givenUp PROVE g.id < ops'
      BY <1>1, <1>2, MeshFacts DEF GivenInv, MeshTypes, Asking
    <2>1. g.id \in Nat /\ g.id <= ops
      BY MeshFacts DEF GivenInv, MeshTypes, Asking
    <2> QED
      BY <1>1, <1>2, <2>1
  <1>8. LateInv' /\ OwnInv'
    <2>1. ASSUME NEW m \in Mail, Fine(m) PROVE Fine(m)'
      <3> SUFFICES ASSUME Quick(m) PROVE Fine(m)'
        BY DEF Fine, Quick
      <3>1. m.of \in Nat /\ m.of <= ops /\ Excused(m)
        BY <1>1, <2>1 DEF Mail, Fine, Mine
      <3>2. m.of <= ops' /\ m.of # request'.id
        BY <1>1, <1>2, <1>3, <3>1
      <3>3. Excused(m)'
        BY <1>1, <3>1 DEF Excused
      <3> QED
        BY <2>1, <3>2, <3>3 DEF Fine
    <2>2. \A m \in air : m \in Mail /\ Fine(m)
      BY MeshFacts DEF MeshTypes, LateInv
    <2>3. \A k \in 1..Len(events) : events[k] \in Mail /\ Fine(events[k])
      BY MeshFacts DEF MeshTypes, LateInv
    <2>4. LateInv'
      BY <1>1, <2>1, <2>2, <2>3 DEF LateInv
    <2>5. OwnInv'
      BY <1>1 DEF OwnInv
    <2> QED
      BY <2>4, <2>5
  <1>9. AdmitInv' /\ ReplyInv' /\ AskInv' /\ ClearedInv'
    BY <1>1, <1>3, MeshFacts DEF AdmitInv, Remote!Vouched, ReplyInv, AskInv, ClearedInv
  <1> QED
    BY <1>4, <1>5, <1>6, <1>7, <1>8, <1>9
    DEF MeshInv, MailInv, SessionInv, AnswerInv

\* Rows that are stored are of repeaters that accepted a login.
RowsReal(rs) ==
  /\ rs \in [Remote!Names -> RowType]
  /\ \A n \in Remote!Names : rs[n].active => Remote!Vouched(rs[n].key)

LEMMA RowsUpserted ==
  ASSUME MeshInv, NEW r \in Remotes, Remote!Vouched(r.key)
  PROVE  RowsReal(Remote!Upserted(r))
  <1> DEFINE v == [key |-> r.key, active |-> TRUE]
  <1>1. v \in RowType /\ v.key = r.key
    BY DEF RowType, MeshKeys
  <1>2. r.name \in Remote!Names
    BY DEF Remote!Names
  <1>3. Remote!Upserted(r) = [rows EXCEPT ![r.name] = v]
    BY DEF Remote!Upserted
  <1> HIDE DEF v
  <1> QED
    BY <1>1, <1>2, <1>3, MeshFacts DEF RowsReal, MeshTypes, AdmitInv

LEMMA RowsKept ==
  ASSUME MeshInv
  PROVE  RowsReal(rows)
  BY MeshFacts DEF RowsReal, MeshTypes, AdmitInv

\* A request that fails.
LEMMA RowsFailed ==
  ASSUME MeshInv, request \in Asking, Remote!Fails
  PROVE  /\ RowsReal(rows') /\ step' = "idle"
         /\ request.kind = "login" /\ ~request.byKey
              => ~rows'[request.remote.name].active
  <1>1. request.remote.name \in Remote!Names
    BY DEF Asking, Remote!Names
  <1>2. Remote!Row \in RowType /\ ~Remote!Row.active
    BY DEF Remote!Row, RowType
  <1>3. rows \in [Remote!Names -> RowType]
    BY MeshFacts DEF MeshTypes
  <1>4. \/ rows' = rows /\ (request.kind # "login" \/ request.byKey)
        \/ rows' = [rows EXCEPT ![request.remote.name] = Remote!Row]
    BY DEF Remote!Fails, Remote!Cleared
  <1>5. step' = "idle"
    BY DEF Remote!Fails
  <1> QED
    BY <1>1, <1>2, <1>3, <1>4, <1>5, RowsKept DEF RowsReal

\* A session is ensured.
LEMMA StepEnsure ==
  ASSUME MeshInv, Remote!Ensure
  PROVE  MeshInv'
  <1>1. /\ step = "ensure" /\ step' = "send"
        /\ UNCHANGED <<table, admitted, air, replies, events, found, files,
                       unsaved, request, nodes, givenUp, answer, ops>>
    BY DEF Remote!Ensure, Remote!radio, Remote!sessions
  <1>2. request \in Asking
    BY <1>1, MeshFacts DEF MeshTypes
  <1>3. \/ UNCHANGED rows
        \/ \E r \in Remotes : Remote!Vouched(r.key) /\ rows' = Remote!Upserted(r)
    <2>1. \/ UNCHANGED rows
          \/ \E r \in files : rows' = Remote!Upserted(r)
          \/ request.remote.key \in table
             /\ rows' = Remote!Upserted(request.remote)
      BY DEF Remote!Ensure, Remote!FileSessions
    <2>2. request.remote \in Remotes
      BY <1>2 DEF Asking
    <2> QED
      BY <2>1, <2>2, MeshFacts DEF MeshTypes, AdmitInv, Remote!Vouched
  <1>4. RowsReal(rows')
    BY <1>3, RowsUpserted, RowsKept
  <1>5. AnswerInv'
    BY <1>1, AnswerSame
  <1>6. MailInv'
    <2>1. \A m : Fine(m) => Fine(m)'
      BY <1>1 DEF Fine, Quick, Mine, Excused
    <2>2. LateInv'
      BY <1>1, <2>1, MeshFacts DEF LateInv
    <2>3. GivenInv' /\ OwnInv'
      BY <1>1, MeshFacts DEF GivenInv, OwnInv
    <2> QED
      BY <2>2, <2>3 DEF MailInv
  <1>7. MeshTypes'
    BY <1>1, <1>2, <1>4, MeshFacts DEF MeshTypes, RowsReal
  <1>8. AdmitInv' /\ AskInv' /\ ReplyInv' /\ ClearedInv'
    BY <1>1, <1>4, MeshFacts
    DEF AdmitInv, Remote!Vouched, AskInv, ReplyInv, ClearedInv, RowsReal
  <1> QED
    BY <1>5, <1>6, <1>7, <1>8 DEF MeshInv, SessionInv

\* The answers to a request.
LEMMA AnswersSent ==
  ASSUME MeshInv, request \in Asking
  PROVE  \A m \in Remote!Answers :
           /\ m \in Mail /\ m.of = request.id
           /\ Quick(m) => m.kind = request.kind /\ m.key = request.remote.key
  <1>1. request.id \in Nat /\ request.remote.key \in MeshKeys
    BY DEF Asking, MeshKeys
  <1>2. CASE request.kind = "discover"
    <2> SUFFICES ASSUME NEW n \in Nodes
                 PROVE  [kind |-> "discover", key |-> n, of |-> request.id,
                         ok |-> TRUE] \in Mail
      BY <1>2 DEF Remote!Answers, Quick
    <2> QED
      BY <1>1 DEF Mail, MeshKinds, MeshKeys
  <1>3. CASE request.kind # "discover"
    <2>1. Remote!Answers = {[kind |-> request.kind, key |-> request.remote.key,
                             of |-> request.id, ok |-> request.good]}
      BY <1>3 DEF Remote!Answers
    <2>2. /\ request.kind \in MeshKinds /\ request.good \in BOOLEAN
          /\ request.id \in Nat
      BY DEF Asking
    <2> QED
      BY <1>1, <2>1, <2>2 DEF Mail
  <1> QED
    BY <1>2, <1>3

\* A request is sent: its answers are in the air.
LEMMA StepTransmit ==
  ASSUME MeshInv, NEW kind \in MeshKinds, Remote!Transmit(kind)
  PROVE  MeshInv'
  <1>1. /\ step = "send" /\ step' = "wait"
        /\ air' = air \union Remote!Answers
        /\ UNCHANGED <<table, admitted, replies, events, found, rows, files,
                       unsaved, request, nodes, givenUp, answer, ops>>
    BY DEF Remote!Transmit, Remote!sessions
  <1>2. /\ request \in Asking /\ request.id = ops /\ ops \in Nat
        /\ request.remote.key \in MeshKeys
    BY <1>1, MeshFacts DEF MeshTypes, Asking, MeshKeys
  <1>3. \A m \in Remote!Answers :
          /\ m \in Mail /\ m.of = request.id
          /\ Quick(m) => m.kind = request.kind /\ m.key = request.remote.key
    BY <1>2, AnswersSent
  <1>4. \A m, n \in Remote!Answers : Quick(m) /\ Quick(n) => m = n
    BY DEF Remote!Answers, Quick
  <1>5. \A m \in air : ~Own(m)
    BY <1>1, MeshFacts DEF LateInv, Fine, Own
  <1>6. \A k \in 1..Len(events) : ~Own(events[k])
    BY <1>1, MeshFacts DEF LateInv, Fine, Own
  <1>7. AnswerInv'
    BY <1>1, AnswerSame
  <1>8. MailInv'
    <2>1. \A m : Fine(m) /\ Quick(m) => Fine(m)'
      BY <1>1 DEF Fine, Quick, Mine, Excused
    <2>2. \A m : ~Quick(m) => Fine(m)'
      BY DEF Fine, Quick
    <2>3. \A m \in Remote!Answers : Quick(m) => Fine(m)'
      BY <1>1, <1>2, <1>3 DEF Fine, Mine, Asking
    <2>4. LateInv'
      BY <1>1, <2>1, <2>2, <2>3, MeshFacts DEF LateInv
    <2>5. \A m : Own(m)' <=> Own(m)
      BY <1>1 DEF Own, Quick
    <2>6. OwnInv'
      <3>1. \A m, n \in air' : Own(m) /\ Own(n) => m = n
        BY <1>1, <1>4, <1>5 DEF Own
      <3> QED
        BY <1>1, <1>6, <2>5, <3>1 DEF OwnInv
    <2>7. GivenInv'
      BY <1>1, MeshFacts DEF GivenInv
    <2> QED
      BY <2>4, <2>6, <2>7 DEF MailInv
  <1>9. MeshTypes'
    BY <1>1, <1>2, <1>3, MeshFacts DEF MeshTypes
  <1>10. AdmitInv' /\ AskInv' /\ ReplyInv' /\ ClearedInv'
    BY <1>1, MeshFacts DEF AdmitInv, Remote!Vouched, AskInv, ReplyInv, ClearedInv
  <1> QED
    BY <1>7, <1>8, <1>9, <1>10 DEF MeshInv, SessionInv

\* A request cannot be sent, waits no longer, or loses its connection.
LEMMA StepGivesUp ==
  ASSUME MeshInv,
         \/ Remote!SendFails \/ Remote!TimesOut
         \/ Remote!ConnectionCloses /\ step # "idle"
  PROVE  MeshInv'
  <1>1. /\ step \in {"send", "wait"} /\ Remote!Fails
        /\ UNCHANGED <<table, admitted, replies, files, unsaved, request,
                       nodes, answer, ops>>
        /\ \/ events' = events
           \/ events' = <<>>
        /\ found' = found \/ found' = <<>>
        /\ \/ step = "send" /\ UNCHANGED <<givenUp, air>>
           \/ /\ givenUp' = givenUp \union {request}
              /\ \/ air' = air
                 \/ step = "send" /\ air' = air \union Remote!Answers
    <2>1. CASE Remote!SendFails
      BY <2>1 DEF Remote!SendFails, Remote!sessions
    <2>2. CASE Remote!TimesOut
      BY <2>2 DEF Remote!TimesOut, Remote!radio, Remote!sessions
    <2>3. CASE Remote!ConnectionCloses /\ step # "idle"
      BY <2>3, MeshFacts
      DEF Remote!ConnectionCloses, Remote!radio, Remote!sessions, MeshTypes
    <2> QED
      BY <2>1, <2>2, <2>3
  <1>2. request \in Asking /\ request.id = ops /\ ops \in Nat
    BY <1>1, MeshFacts DEF MeshTypes
  <1>3. /\ RowsReal(rows') /\ step' = "idle"
        /\ request.kind = "login" /\ ~request.byKey
             => ~rows'[request.remote.name].active
    BY <1>1, <1>2, RowsFailed
  <1>4. AnswerInv'
    BY <1>1, AnswerSame
  <1>a. found' \in Seq(Mail) /\ events' \in Seq(Mail)
    <2>1. found \in Seq(Mail) /\ events \in Seq(Mail) /\ <<>> \in Seq(Mail)
      BY MeshFacts DEF MeshTypes
    <2> QED
      BY <1>1, <2>1
  <1>5. /\ Sheds
        /\ \A k \in 1..Len(events') : events' = events /\ k \in 1..Len(events)
    <2>1. CASE events' = events
      BY <2>1, ShedSame, MeshFacts
    <2>2. CASE events' = <<>>
      <3>1. Len(events') = 0
        BY <2>2
      <3>2. 1..Len(events') = {} /\ 0 \in Nat
        BY <3>1
      <3> QED
        BY <3>2 DEF Sheds
    <2> QED
      BY <1>1, <2>1, <2>2
  <1>6. \A m \in air' : m \in air \/ (m \in Remote!Answers /\ request \in givenUp')
    BY <1>1
  <1>7. \A m \in Remote!Answers :
          /\ m \in Mail /\ m.of = request.id
          /\ Quick(m) => m.kind = request.kind /\ m.key = request.remote.key
    BY <1>2, AnswersSent
  <1>8. MailInv'
    <2>1. \A g \in givenUp' : g.id <= ops
      BY <1>1, <1>2, MeshFacts DEF GivenInv
    <2>2. \A m : Mine(m) => /\ step = "wait" /\ m.of = request.id
                            /\ m.kind = request.kind
                            /\ m.key = request.remote.key
      BY DEF Mine
    <2>3. ASSUME NEW m, request \in givenUp', m.of = request.id,
                 m.kind = request.kind, m.key = request.remote.key
          PROVE  Excused(m)'
      BY <1>2, <2>3 DEF Excused
    <2>4. \A m \in air' : Quick(m) /\ Mine(m) => Excused(m)'
      BY <1>1, <2>2, <2>3
    <2>5. \A k \in 1..Len(events') :
            Quick(events'[k]) /\ Mine(events'[k]) => Excused(events[k])'
      BY <1>1, <1>2, <2>2 DEF Excused
    <2>6. \A m \in air' \ air : Quick(m) => /\ m.of <= ops /\ Excused(m)'
                                           /\ \E s \in Remotes : s.key = m.key
      BY <1>2, <1>6, <1>7, <2>3 DEF Asking
    <2> QED
      BY <1>1, <1>3, <1>5, <2>1, <2>4, <2>5, <2>6, MailEnds
  <1>9. MeshTypes'
    <2>1. air' \subseteq Mail
      BY <1>6, <1>7, MeshFacts DEF MeshTypes
    <2> QED
      BY <1>1, <1>2, <1>3, <1>a, <2>1, MeshFacts DEF MeshTypes, RowsReal
  <1>10. AdmitInv' /\ AskInv' /\ ReplyInv' /\ ClearedInv'
    <2>1. AdmitInv'
      <3>1. \A k : Remote!Vouched(k)' <=> Remote!Vouched(k)
        BY <1>1 DEF Remote!Vouched
      <3> QED
        BY <1>1, <1>3, <1>5, <3>1, MeshFacts DEF AdmitInv, RowsReal
    <2> QED
      BY <1>1, <1>3, <2>1, MeshFacts DEF AskInv, ReplyInv, ClearedInv
  <1> QED
    BY <1>4, <1>8, <1>9, <1>10 DEF MeshInv, SessionInv

\* The client is replaced between two requests.
LEMMA StepReplaced ==
  ASSUME MeshInv, Remote!ConnectionCloses, step = "idle"
  PROVE  MeshInv'
  <1>1. /\ events' = <<>> /\ found' = <<>>
        /\ UNCHANGED <<table, admitted, air, replies, rows, files, unsaved,
                       request, step, nodes, givenUp, answer, ops>>
    BY DEF Remote!ConnectionCloses, Remote!radio, Remote!sessions
  <1>2. Len(events') = 0 /\ events' \in Seq(Mail) /\ found' \in Seq(Mail)
    BY <1>1
  <1>3. 1..Len(events') = {} /\ 0 \in Nat
    BY <1>2
  <1>4. Sheds
    BY <1>3 DEF Sheds
  <1>5. MailInv' /\ AnswerInv'
    BY <1>1, <1>4, MailSteady, AnswerSame
  <1>6. MeshTypes'
    BY <1>1, <1>2, MeshFacts DEF MeshTypes
  <1>7. AdmitInv' /\ AskInv' /\ ReplyInv' /\ ClearedInv'
    BY <1>1, <1>3, MeshFacts
    DEF AdmitInv, AskInv, ReplyInv, ClearedInv, Remote!Vouched
  <1> QED
    BY <1>5, <1>6, <1>7 DEF MeshInv, SessionInv

\* A request takes an event: the first that matches is its answer.
LEMMA StepTake ==
  ASSUME MeshInv, NEW kind \in MeshKinds, Remote!TakeEvent(kind)
  PROVE  MeshInv'
  <1> DEFINE e == Head(events)
  <1>1. /\ step = "wait" /\ events # <<>> /\ events' = Tail(events)
        /\ UNCHANGED <<table, admitted, air, replies, found, files, request,
                       nodes, givenUp, ops>>
    BY DEF Remote!TakeEvent, Remote!radio
  <1>2. request \in Asking /\ request.id = ops /\ ops \in Nat
    BY <1>1, MeshFacts DEF MeshTypes
  <1>3. Sheds /\ events' \in Seq(Mail)
    BY <1>1, ShedTail, MeshFacts
  <1>4. /\ 1 \in 1..Len(events) /\ e = events[1] /\ e \in Mail
        /\ Len(events') = Len(events) - 1 /\ Len(events) \in Nat
        /\ \A k \in 1..Len(events') : /\ events'[k] = events[k + 1]
                                      /\ k + 1 \in 1..Len(events)
                                      /\ k + 1 # 1
    BY <1>1, MeshFacts DEF MeshTypes
  <1>5. \A k \in 1..Len(events') :
          events'[k].kind = "login" /\ events'[k].ok
            => events'[k].key \in admitted
    BY <1>4, MeshFacts DEF AdmitInv
  <1>6. CASE ~Remote!Matches(e)
    <2>1. UNCHANGED <<step, rows, unsaved, answer>>
      BY <1>6 DEF Remote!TakeEvent
    <2>2. MailInv' /\ AnswerInv'
      BY <1>1, <1>3, <2>1, MailSteady, AnswerSame
    <2>3. MeshTypes'
      BY <1>1, <1>3, <2>1, MeshFacts DEF MeshTypes
    <2>4. AdmitInv' /\ AskInv' /\ ReplyInv' /\ ClearedInv'
      BY <1>1, <1>5, <2>1, MeshFacts
      DEF AdmitInv, Remote!Vouched, AskInv, ReplyInv, ClearedInv
    <2> QED
      BY <2>2, <2>3, <2>4 DEF MeshInv, SessionInv
  <1>7. CASE Remote!Matches(e)
    <2>1. Remote!Answered(e)
      BY <1>7 DEF Remote!TakeEvent
    <2>2. /\ e.kind = request.kind
          /\ e.key \in {request.remote.key, request.remote.name}
          /\ e.of \in Nat /\ Fine(e)
      BY <1>4, <1>7, MeshFacts DEF Remote!Matches, Mail, LateInv
    <2>3. answer' = [id |-> request.id, kind |-> request.kind,
                     asked |-> request.remote.key, of |-> e.of,
                     key |-> e.key, ok |-> e.ok]
      BY <2>1 DEF Remote!Answered
    <2> HIDE DEF e
    <2>4. request.remote \in Remotes
      BY <1>2 DEF Asking
    <2>5. request.kind = "login" /\ e.ok => Remote!Vouched(request.remote.key)
      BY <1>4, <2>2, <2>4, MeshFacts DEF AdmitInv, Remote!Vouched
    <2>a. Quick(e) /\ Remote!Plain(request.remote.key)
            => e.key = request.remote.key
      BY <2>2, <2>4 DEF Fine, Remote!Plain
    <2>6. /\ step' = "idle" /\ RowsReal(rows')
          /\ (request.kind = "login" /\ ~request.byKey /\ ~e.ok)
               => ~rows'[request.remote.name].active
      <3>1. CASE request.kind = "login" /\ ~e.ok
        <4>1. Remote!Fails
          BY <2>1, <3>1 DEF Remote!Answered
        <4> QED
          BY <1>2, <4>1, RowsFailed
      <3>2. CASE request.kind = "login" /\ e.ok
        <4>1. step' = "idle" /\ rows' = Remote!Upserted(request.remote)
          BY <2>1, <3>2 DEF Remote!Answered
        <4> QED
          BY <2>4, <2>5, <3>2, <4>1, RowsUpserted
      <3>3. CASE request.kind # "login"
        <4>1. step' = "idle" /\ rows' = rows
          BY <2>1, <3>3 DEF Remote!Answered
        <4> QED
          BY <3>3, <4>1, RowsKept
      <3> QED
        BY <3>1, <3>2, <3>3
    <2>7. /\ unsaved' \subseteq Remotes
          /\ \A r \in unsaved' : Remote!Vouched(r.key)
      <3>1. \/ unsaved' = unsaved
            \/ /\ request.cli /\ e.ok
               /\ unsaved' = unsaved \union {request.remote}
        BY <2>1 DEF Remote!Answered
      <3>2. request.cli => request.kind = "login"
        BY <1>1, MeshFacts DEF AskInv
      <3> QED
        BY <2>4, <2>5, <3>1, <3>2, MeshFacts DEF MeshTypes, AdmitInv
    <2>8. Quick(e) /\ ~Own(e) => Excused(e)
      BY <2>2 DEF Fine, Mine, Own
    <2>9. ASSUME NEW m, Quick(m), Mine(m), ~Own(e) PROVE Excused(m)
      <3>1. /\ m.of = request.id /\ m.kind = request.kind
            /\ m.key = request.remote.key
        BY <2>9 DEF Mine
      <3>2. Quick(e) /\ Excused(e)
        BY <2>2, <2>8, <2>9, <3>1 DEF Quick
      <3>3. PICK g \in givenUp :
              /\ g.id <= e.of /\ g.kind = e.kind
              /\ Remote!Plain(e.key) => g.remote.key = e.key
        BY <3>2 DEF Excused
      <3>4. g.id <= m.of
        BY <1>2, <3>1, <3>3, MeshFacts DEF GivenInv
      <3>5. Remote!Plain(m.key) => g.remote.key = m.key
        BY <2>a, <3>1, <3>2, <3>3
      <3> QED
        BY <2>2, <3>1, <3>3, <3>4, <3>5 DEF Excused
    <2>10. \A m : Quick(m) /\ Mine(m) => Own(m)
      BY DEF Mine, Own
    <2>11. ASSUME NEW m \in air, Quick(m), Mine(m) PROVE Excused(m)
      BY <1>1, <1>4, <2>9, <2>10, <2>11, MeshFacts DEF OwnInv
    <2>12. ASSUME NEW k \in 1..Len(events'), Quick(events'[k]),
                  Mine(events'[k])
           PROVE  Excused(events'[k])
      <3>1. ~Own(e)
        <4>1. Own(events[k + 1]) /\ k + 1 \in 1..Len(events) /\ k + 1 # 1
          BY <1>4, <2>10, <2>12
        <4> QED
          BY <1>1, <1>4, <4>1, MeshFacts DEF OwnInv
      <3> QED
        BY <2>9, <2>12, <3>1
    <2>13. MailInv'
      <3>1. \A m \in air' : Quick(m) /\ Mine(m) => Excused(m)'
        BY <1>1, <2>11 DEF Excused
      <3>2. \A k \in 1..Len(events') :
              Quick(events'[k]) /\ Mine(events'[k]) => Excused(events[k])'
        BY <1>1, <2>12 DEF Excused
      <3>3. \A g \in givenUp' : g.id <= ops
        BY <1>1, MeshFacts DEF GivenInv
      <3> QED
        BY <1>1, <1>3, <2>6, <3>1, <3>2, <3>3, MailEnds
    <2>14. Remote!AnswerIsOwn'
      <3> DEFINE asked == request.remote.key
      <3>1. \A k : Remote!Plain(k)' <=> Remote!Plain(k)
        BY DEF Remote!Plain
      <3>2. /\ answer'.id = request.id /\ answer'.kind = request.kind
            /\ answer'.asked = asked /\ answer'.of = e.of
            /\ answer'.key = e.key
        BY <2>3
      <3>3. ASSUME request.kind \in {"login", "status"}, e.of # request.id
            PROVE  \E g \in givenUp : /\ g.id < request.id
                                      /\ g.kind = request.kind
                                      /\ Remote!Plain(asked)
                                           => g.remote.key = asked
        <4>1. Quick(e) /\ Excused(e)
          BY <2>2, <2>8, <3>3 DEF Quick, Own
        <4>2. PICK g \in givenUp :
                /\ g.id <= e.of /\ g.kind = e.kind
                /\ Remote!Plain(e.key) => g.remote.key = e.key
          BY <4>1 DEF Excused
        <4>3. g.id < request.id
          BY <1>1, <1>2, MeshFacts DEF GivenInv
        <4>4. Remote!Plain(asked) => g.remote.key = asked
          BY <2>a, <4>1, <4>2
        <4> QED
          BY <2>2, <4>2, <4>3, <4>4
      <3>4. request.kind \in {"login", "status"} /\ Remote!Plain(asked)
              => e.key = asked
        BY <2>2, <2>a DEF Quick
      <3> QED
        BY <1>1, <3>1, <3>2, <3>3, <3>4 DEF Remote!AnswerIsOwn
    <2>15. Remote!NodesOnce'
      BY <1>1, MeshFacts DEF Remote!NodesOnce
    <2>16. MeshTypes'
      BY <1>1, <1>2, <1>3, <2>6, <2>7, MeshFacts DEF MeshTypes, RowsReal
    <2>17. AdmitInv' /\ AskInv' /\ ReplyInv'
      BY <1>1, <1>5, <2>6, <2>7, MeshFacts
      DEF AdmitInv, Remote!Vouched, AskInv, ReplyInv, RowsReal
    <2>18. ClearedInv'
      BY <1>1, <2>3, <2>6 DEF ClearedInv
    <2> QED
      BY <2>13, <2>14, <2>15, <2>16, <2>17, <2>18
      DEF MeshInv, SessionInv, AnswerInv
  <1> QED
    BY <1>6, <1>7

\* A request that waits for something else than a login or a status ends.
LEMMA MailEndsOther ==
  ASSUME MeshInv, UNCHANGED <<request, ops, givenUp, air>>, step' = "idle",
         request.kind \notin {"login", "status"}, Sheds
  PROVE  MailInv'
  <1>1. \A m : ~(Quick(m) /\ Mine(m))
    BY DEF Quick, Mine
  <1>2. \A g \in givenUp' : g.id <= ops
    BY MeshFacts DEF GivenInv
  <1> QED
    BY <1>1, <1>2, MailEnds

\* A command that waits for its reply fetches what the radio has.
LEMMA StepPoll ==
  ASSUME MeshInv, Remote!Poll
  PROVE  MeshInv'
  <1>1. /\ step = "wait" /\ request.kind = "exec"
        /\ Remote!Emit(replies) /\ replies' = <<>>
        /\ UNCHANGED <<table, admitted, air, found, files, request, nodes,
                       givenUp, ops>>
    BY DEF Remote!Poll
  <1>2. request \in Asking /\ ~request.cli
    BY <1>1, MeshFacts DEF MeshTypes, AskInv
  <1>3. Sheds /\ events' \in Seq(Mail)
    BY <1>1, ShedReplies, MeshFacts
  <1>4. UNCHANGED <<rows, unsaved>>
    BY <1>1, <1>2 DEF Remote!Poll, Remote!Answered
  <1>5. \/ UNCHANGED <<step, answer>>
        \/ step' = "idle" /\ answer'.kind = "exec"
    BY <1>1, <1>2 DEF Remote!Poll, Remote!Answered
  <1>6. MailInv'
    BY <1>1, <1>3, <1>5, MailSteady, MailEndsOther
  <1>7. AnswerInv'
    BY <1>1, <1>5, MeshFacts
    DEF AnswerInv, Remote!AnswerIsOwn, Remote!NodesOnce
  <1>8. replies' \in Seq(Mail) /\ ReplyInv'
    BY <1>1 DEF ReplyInv
  <1>9. MeshTypes'
    BY <1>1, <1>2, <1>3, <1>4, <1>5, <1>8, MeshFacts DEF MeshTypes
  <1>10. AdmitInv'
    <2>1. \A k \in 1..Len(events') :
            events'[k].kind = "login" /\ events'[k].ok
              => events'[k].key \in admitted
      BY <1>3, MeshFacts DEF Sheds, Quick, AdmitInv
    <2> QED
      BY <1>1, <1>4, <2>1, MeshFacts DEF AdmitInv, Remote!Vouched
  <1>11. AskInv' /\ ClearedInv'
    BY <1>1, <1>2, <1>4, <1>5 DEF AskInv, ClearedInv
  <1> QED
    BY <1>6, <1>7, <1>8, <1>9, <1>10, <1>11 DEF MeshInv, SessionInv

\* A discovery takes an answer, hears one repeated, or ends.
LEMMA StepNodes ==
  ASSUME MeshInv,
         \/ Remote!TakeNode \/ Remote!WindowEnds
         \/ \E n \in Nodes : Remote!Heard(n)
  PROVE  MeshInv'
  <1>1. /\ step = "wait" /\ request.kind = "discover"
        /\ UNCHANGED <<table, admitted, air, replies, events, rows, files,
                       unsaved, request, givenUp, ops>>
        /\ step' \in {"wait", "idle"}
        /\ UNCHANGED answer \/ answer'.kind = "discover"
    <2>1. CASE Remote!TakeNode
      BY <2>1 DEF Remote!TakeNode, Remote!radio, Remote!sessions
    <2>2. CASE Remote!WindowEnds
      <3>1. answer'.kind = "discover"
        BY <2>2 DEF Remote!WindowEnds
      <3> QED
        BY <2>2, <3>1 DEF Remote!WindowEnds, Remote!radio, Remote!sessions
    <2>3. ASSUME NEW n \in Nodes, Remote!Heard(n)
          PROVE  /\ step = "wait" /\ request.kind = "discover"
                 /\ UNCHANGED <<table, admitted, air, replies, events, rows,
                                files, unsaved, request, givenUp, ops, step,
                                answer>>
      BY <2>3 DEF Remote!Heard, Remote!radio, Remote!sessions
    <2> QED
      BY <2>1, <2>2, <2>3
  <1>2. request \in Asking /\ request.id \in Nat
    BY <1>1, MeshFacts DEF MeshTypes, Asking
  <1>3. Sheds
    BY <1>1, ShedSame, MeshFacts
  <1>4. MailInv'
    BY <1>1, <1>3, MailSteady, MailEndsOther
  <1>5. found' \in Seq(Mail)
    <2>1. found \in Seq(Mail)
      BY MeshFacts DEF MeshTypes
    <2>2. CASE Remote!TakeNode
      BY <2>1, <2>2 DEF Remote!TakeNode
    <2>3. CASE Remote!WindowEnds
      BY <2>1, <2>3 DEF Remote!WindowEnds
    <2>4. ASSUME NEW n \in Nodes, Remote!Heard(n) PROVE found' \in Seq(Mail)
      <3> DEFINE m == [kind |-> "discover", key |-> n, of |-> request.id,
                       ok |-> TRUE]
      <3>1. m \in Mail
        BY <1>2 DEF Mail, MeshKinds, MeshKeys
      <3>2. found' = Append(found, m)
        BY <2>4 DEF Remote!Heard
      <3> HIDE DEF m
      <3> QED
        BY <2>1, <3>1, <3>2
    <2> QED
      BY <2>2, <2>3, <2>4
  <1>6. nodes' \in Seq(MeshKeys) /\ Remote!NodesOnce'
    <2> DEFINE n == Head(found).key
    <2>1. nodes \in Seq(MeshKeys) /\ Remote!NodesOnce
      BY MeshFacts DEF MeshTypes
    <2>2. CASE UNCHANGED nodes
      BY <2>1, <2>2 DEF Remote!NodesOnce
    <2>3. CASE /\ found # <<>> /\ nodes' = Append(nodes, n)
               /\ n = Remote!NoKey \/ ~Remote!Contains(nodes, n)
      <3>0. found \in Seq(Mail) /\ Head(found) \in Mail
        BY <2>3, MeshFacts DEF MeshTypes
      <3>1. n \in MeshKeys
        BY <3>0 DEF Mail
      <3> HIDE DEF n
      <3>2. /\ nodes' \in Seq(MeshKeys) /\ Len(nodes') = Len(nodes) + 1
            /\ Len(nodes) \in Nat /\ DOMAIN nodes' = 1..Len(nodes')
            /\ DOMAIN nodes = 1..Len(nodes)
            /\ \A k \in 1..Len(nodes) : nodes'[k] = nodes[k]
            /\ nodes'[Len(nodes) + 1] = n
        BY <2>1, <2>3, <3>1
      <3>3. \A k \in DOMAIN nodes' :
              k \in 1..Len(nodes) \/ k = Len(nodes) + 1
        BY <3>2
      <3>4. \A k \in 1..Len(nodes) : nodes[k] # n \/ n = Remote!NoKey
        BY <2>3 DEF Remote!Contains
      <3>5. \A a, b \in 1..Len(nodes) :
              nodes[a] = nodes[b] /\ nodes[a] # Remote!NoKey => a = b
        BY <2>1, <3>2 DEF Remote!NodesOnce
      <3>6. \A a, b \in DOMAIN nodes' :
              nodes'[a] = nodes'[b] /\ nodes'[a] # Remote!NoKey => a = b
        BY <3>2, <3>3, <3>4, <3>5
      <3> QED
        BY <3>2, <3>6 DEF Remote!NodesOnce
    <2>4. \/ UNCHANGED nodes
          \/ /\ found # <<>> /\ nodes' = Append(nodes, n)
             /\ n = Remote!NoKey \/ ~Remote!Contains(nodes, n)
      BY DEF Remote!TakeNode, Remote!WindowEnds, Remote!Heard
    <2> QED
      BY <2>2, <2>3, <2>4
  <1>7. Remote!AnswerIsOwn'
    BY <1>1, MeshFacts DEF Remote!AnswerIsOwn
  <1>8. MeshTypes'
    BY <1>1, <1>2, <1>5, <1>6, MeshFacts DEF MeshTypes
  <1>9. AdmitInv' /\ AskInv' /\ ReplyInv' /\ ClearedInv'
    BY <1>1, MeshFacts DEF AdmitInv, Remote!Vouched, AskInv, ReplyInv, ClearedInv
  <1> QED
    BY <1>4, <1>6, <1>7, <1>8, <1>9 DEF MeshInv, SessionInv, AnswerInv

\* The inductive step.
LEMMA StepMeshInv ==
  ASSUME MeshInv, [Remote!Next]_(Remote!vars)
  PROVE  MeshInv'
  <1>1. CASE UNCHANGED Remote!vars
    <2>1. UNCHANGED <<table, admitted, air, replies, events, found, rows,
                      files, unsaved, request, step, nodes, givenUp, answer,
                      ops>>
      BY <1>1 DEF Remote!vars, Remote!radio, Remote!sessions
    <2>2. MailInv' /\ AnswerInv'
      BY <2>1, MailSteady, ShedSame, AnswerSame, MeshFacts
    <2>3. MeshTypes' /\ SessionInv'
      BY <2>1, MeshFacts
      DEF MeshTypes, SessionInv, AdmitInv, Remote!Vouched, AskInv, ReplyInv, ClearedInv
    <2> QED
      BY <2>2, <2>3 DEF MeshInv
  <1>2. {"login", "status", "exec", "discover"} \subseteq MeshKinds
        /\ TRUE \in BOOLEAN /\ FALSE \in BOOLEAN
    BY DEF MeshKinds
  <1>3. CASE Remote!Serve
    BY <1>2, <1>3, StepEnsure, StepTransmit, StepGivesUp, StepTake, StepPoll,
       StepNodes
    DEF Remote!Serve, Remote!RepeaterLoginContact,
        Remote!RepeaterStatusContact, Remote!RepeaterExecContact,
        Remote!DiscoverNodes, Remote!waitForRepeaterLogin,
        Remote!waitForRepeaterStatus, Remote!ExecEvent
  <1>4. ASSUME NEW kind \in MeshKinds, NEW r \in Remotes,
               NEW byKey \in BOOLEAN, NEW good \in BOOLEAN,
               Remote!Start(kind, r, byKey, good)
        PROVE  MeshInv'
    BY <1>2, <1>4, StepBegin DEF Remote!Start
  <1>5. CASE Remote!discoverNodes
    <2>1. (CHOOSE r \in Remotes : TRUE) \in Remotes
      BY MCBackendAssumption
    <2> QED
      BY <1>2, <1>4, <1>5, <2>1 DEF Remote!discoverNodes
  <1>6. ASSUME NEW r \in Remotes, NEW byKey \in BOOLEAN,
               \/ Remote!repeaterLogin(r, byKey)
               \/ Remote!repeaterStatus(r, byKey)
               \/ Remote!repeaterExec(r, byKey)
        PROVE  MeshInv'
    BY <1>2, <1>4, <1>6
    DEF Remote!repeaterLogin, Remote!repeaterStatus, Remote!repeaterExec
  <1>7. ASSUME NEW r \in Remotes, Remote!runRepeaterQuery(r)
        PROVE  MeshInv'
    <2>1. PICK good \in BOOLEAN :
            /\ Remote!Begin("login", r, FALSE, good, TRUE)
            /\ files' = files \ {r}
      BY <1>7 DEF Remote!runRepeaterQuery, Remote!ensureRepeaterLogin
    <2> QED
      BY <1>2, <2>1, StepBegin
  <1> QED
    BY <1>1, <1>3, <1>5, <1>6, <1>7, StepArrive, StepSessions, StepDrain,
       StepNodes, StepGivesUp, StepReplaced
    DEF Remote!Next

\* The invariant holds throughout.
LEMMA MeshInvariant == MCSpec => []MeshInv
  <1>1. MCInit => MeshInv
    <2> SUFFICES ASSUME Remote!Init PROVE MeshInv
      BY DEF MCInit
    <2>1. /\ files \subseteq Remotes /\ unsaved = {} /\ air = {}
          /\ admitted = table \union {r.key : r \in files}
          /\ replies = <<>> /\ events = <<>> /\ found = <<>> /\ nodes = <<>>
          /\ rows = [n \in Remote!Names |-> Remote!Row]
          /\ request = [id |-> 0] /\ step = "idle" /\ givenUp = {}
          /\ answer = [id |-> 0] /\ ops = 0
      BY DEF Remote!Init
    <2>2. Remote!Row \in RowType /\ ~Remote!Row.active
      BY DEF Remote!Row, RowType
    <2>3. /\ replies \in Seq(Mail) /\ events \in Seq(Mail)
          /\ found \in Seq(Mail) /\ nodes \in Seq(MeshKeys)
      BY <2>1
    <2>4. MeshTypes
      BY <2>1, <2>2, <2>3 DEF MeshTypes
    <2>5. AdmitInv
      BY <2>1, <2>2 DEF AdmitInv, Remote!Vouched
    <2>6. MailInv /\ AskInv /\ ReplyInv /\ ClearedInv
      BY <2>1
      DEF MailInv, GivenInv, LateInv, OwnInv, AskInv, ReplyInv, ClearedInv
    <2>7. AnswerInv
      BY <2>1 DEF AnswerInv, Remote!AnswerIsOwn, Remote!NodesOnce
    <2> QED
      BY <2>4, <2>5, <2>6, <2>7 DEF MeshInv, SessionInv
  <1>2. MeshInv /\ [MCNext]_mcVars => MeshInv'
    <2> SUFFICES ASSUME MeshInv, [MCNext]_mcVars PROVE MeshInv'
      OBVIOUS
    <2>1. [Remote!Next]_(Remote!vars)
      BY DEF MCNext, mcVars, remoteVars, Remote!vars, Remote!radio,
             Remote!sessions
    <2> QED
      BY <2>1, StepMeshInv
  <1> QED
    BY <1>1, <1>2, PTL DEF MCSpec

\* A login or a status is answered by the repeater it was sent to, unless that
\* repeater's name reads like another one's key, and with an earlier request's
\* answer only once such a request reached the radio and ended without one: it
\* timed out, its SENT was lost or the connection was closed.  This for any
\* repeaters, any event channel and any number of requests
\* (waitForRepeaterLogin, waitForRepeaterStatus).
THEOREM OwnAnswer == MCSpec => []AnswerIsOwn
  <1>1. MeshInv => AnswerIsOwn
    BY DEF MeshInv, AnswerInv, AnswerIsOwn
  <1> QED
    BY <1>1, MeshInvariant, PTL

\* Stored sessions and session files are of repeaters that accepted a login, a
\* login by name that was refused, could not be sent, got no answer or lost its
\* connection leaves none in the store, and a discovery lists a node that has a
\* key once, for any repeaters and nodes (ensureRepeaterSession, DiscoverNodes).
THEOREM RealRemotes == MCSpec => []RemotesAreReal
  <1>1. MeshInv => RemotesAreReal
    BY DEF MeshInv, SessionInv, AdmitInv, ClearedInv, AnswerInv,
           RemotesAreReal, Remote!RemotesAreReal, Remote!SessionIsReal
  <1> QED
    BY <1>1, MeshInvariant, PTL

-----------------------------------------------------------------------------
(* Induction over the naturals.                                            *)

\* Induction, with the property given as the set where it holds.
LEMMA SetInduction ==
  ASSUME NEW S, 0 \in S, \A n \in Nat : n \in S => n + 1 \in S
  PROVE  \A n \in Nat : n \in S
  <1> SUFFICES ASSUME NEW n \in Nat, n \notin S PROVE FALSE
    OBVIOUS
  <1> DEFINE T == {m \in Nat : m \notin S}
  <1>1. T \subseteq Nat /\ T # {}
    OBVIOUS
  <1>2. PICK k \in T : \A m \in T : k <= m
    BY <1>1, LeastOf, Zenon
  <1>3. k # 0 /\ k - 1 \in Nat /\ k - 1 \notin T
    BY <1>2
  <1> QED
    BY <1>2, <1>3

\* The history is added step by step.
LEMMA HistoryAdded ==
  ASSUME NEW s, NEW list, Len(list) \in Nat
  PROVE  \E f : /\ f = [n \in 0..Len(list) |->
                         IF n = 0 THEN s ELSE Talk!addMessage(f[n - 1], list[n])]
                /\ Talk!addHistory(s, list) = f[Len(list)]
  <1> DEFINE Z == Len(list)
             Fits(f, m) == f = [n \in 0..m |->
                                 IF n = 0 THEN s ELSE Talk!addMessage(f[n - 1], list[n])]
             S == {m \in Nat : \E f : Fits(f, m)}
  <1>1. 0 \in S
    <2>1. Fits([n \in 0..0 |-> s], 0)
      OBVIOUS
    <2> QED
      BY <2>1
  <1>2. ASSUME NEW m \in Nat, m \in S PROVE m + 1 \in S
    <2>1. PICK f : Fits(f, m)
      BY <1>2
    <2> DEFINE g == [n \in 0..(m + 1) |-> IF n = m + 1 THEN Talk!addMessage(f[m], list[m + 1])
                                          ELSE f[n]]
    <2>2. \A n \in 0..m : f[n] = IF n = 0 THEN s ELSE Talk!addMessage(f[n - 1], list[n])
      BY <2>1
    <2>3. \A n \in 0..m : g[n] = f[n]
      BY <1>2
    <2>4. g[m + 1] = Talk!addMessage(f[m], list[m + 1])
      BY <1>2
    <2>5. ASSUME NEW n \in 0..(m + 1)
          PROVE  g[n] = IF n = 0 THEN s ELSE Talk!addMessage(g[n - 1], list[n])
      <3> HIDE DEF g
      <3>1. CASE n = 0
        BY <1>2, <2>2, <2>3, <3>1
      <3>2. CASE n # 0 /\ n # m + 1
        <4>1. n \in 0..m /\ n - 1 \in 0..m
          BY <1>2, <3>2
        <4> QED
          BY <2>2, <2>3, <3>2, <4>1
      <3>3. CASE n = m + 1
        <4>1. n - 1 = m /\ m \in 0..m /\ n # 0
          BY <1>2, <3>3
        <4> QED
          BY <2>3, <2>4, <3>3, <4>1
      <3> QED
        BY <3>1, <3>2, <3>3
    <2>6. Fits(g, m + 1)
      <3>1. g = [n \in 0..(m + 1) |-> g[n]]
        OBVIOUS
      <3> HIDE DEF g
      <3> QED
        BY <2>5, <3>1
    <2>7. \E h : Fits(h, m + 1)
      <3> HIDE DEF g, Fits
      <3> QED
        BY <2>6, Zenon
    <2>8. m + 1 \in Nat
      BY <1>2
    <2> QED
      <3> HIDE DEF Fits
      <3> QED
        BY <2>7, <2>8, Zenon
  <1>3. Z \in S
    <2> HIDE DEF S
    <2> QED
      BY <1>1, <1>2, SetInduction
  <1>4. \E f : Fits(f, Z)
    BY <1>3
  <1>5. LET f == CHOOSE f : Fits(f, Z) IN Fits(f, Z) /\ Talk!addHistory(s, list) = f[Z]
    BY <1>4 DEF Talk!addHistory
  <1> QED
    BY <1>5

-----------------------------------------------------------------------------
(* Chat: what the screen shows.                                            *)

Statuses == {"", "queued", "sent", "failed", "delivered"}
Text == [body : Nat, author : BOOLEAN, spaced : BOOLEAN]
Raw == [text : Text, sec : Nat]
Message == [mine : BOOLEAN, text : Text, sec : Nat, status : Statuses,
            code : Nat, id : Nat, raw : Raw]
Event == [message : Message, ack : Nat]

\* The copy of a received message whose copies agree is its streamed one;
\* K says whether the chat is on a channel.
Copy(m, K) ==
  m.raw.sec # 0 /\ (K => m.raw.text.author \/ ~m.raw.text.spaced)
    => /\ m.sec = m.raw.sec
       /\ m.text = IF K THEN Talk!extractChannelAuthor(m.raw.text) ELSE m.raw.text

\* A received message is such a copy, a delivered one carries a code of A.
Fair(m, K, A) == (m.mine \/ Copy(m, K)) /\ (m.status = "delivered" => m.code \in A)

\* A screen shows fair messages, and the received ones under distinct keys,
\* all seen.
ScreenOk(s, K, A) ==
  /\ s.msgs \in Seq(Message)
  /\ \A i \in 1..Len(s.msgs) :
       /\ Fair(s.msgs[i], K, A)
       /\ ~s.msgs[i].mine => Talk!Key(s.msgs[i]) \in s.seen
  /\ \A i, j \in 1..Len(s.msgs) :
       /\ ~s.msgs[i].mine /\ ~s.msgs[j].mine
       /\ Talk!Key(s.msgs[i]) = Talk!Key(s.msgs[j])
       => i = j

\* addMessage keeps a screen in order.
LEMMA AddKeepsScreen ==
  ASSUME NEW s, NEW K, NEW A, ScreenOk(s, K, A), NEW m \in Message, Fair(m, K, A)
  PROVE  ScreenOk(Talk!addMessage(s, m), K, A)
  <1>1. CASE Talk!Key(m) \in s.seen
    BY <1>1 DEF Talk!addMessage
  <1>2. CASE Talk!Key(m) \notin s.seen
    <2> DEFINE r == Talk!addMessage(s, m)
               n == Len(s.msgs)
    <2>1. r.msgs = Append(s.msgs, m) /\ r.seen = s.seen \union {Talk!Key(m)}
      BY <1>2 DEF Talk!addMessage
    <2>2. s.msgs \in Seq(Message) /\ n \in Nat
      BY DEF ScreenOk
    <2>3. r.msgs \in Seq(Message) /\ Len(r.msgs) = n + 1
      BY <2>1, <2>2
    <2>4. r.msgs[n + 1] = m /\ \A i \in 1..n : r.msgs[i] = s.msgs[i]
      BY <2>1, <2>2
    <2>5. \A i \in 1..(n + 1) : i = n + 1 \/ i \in 1..n
      BY <2>2
    <2> HIDE DEF r, n
    <2>6. \A i \in 1..n : /\ Fair(s.msgs[i], K, A)
                          /\ ~s.msgs[i].mine => Talk!Key(s.msgs[i]) \in s.seen
      BY DEF ScreenOk, n
    <2>7. \A i \in 1..(n + 1) :
            Fair(r.msgs[i], K, A) /\ (~r.msgs[i].mine => Talk!Key(r.msgs[i]) \in r.seen)
      <3> TAKE i \in 1..(n + 1)
      <3>1. CASE i = n + 1
        <4>1. r.msgs[i] = m
          BY <2>4, <3>1
        <4> QED
          BY <2>1, <4>1
      <3>2. CASE i \in 1..n
        <4>1. r.msgs[i] = s.msgs[i]
          BY <2>4, <3>2
        <4>2. Fair(s.msgs[i], K, A) /\ (~s.msgs[i].mine => Talk!Key(s.msgs[i]) \in s.seen)
          BY <2>6, <3>2, Zenon
        <4> QED
          BY <2>1, <4>1, <4>2
      <3> QED
        BY <2>5, <3>1, <3>2
    <2>8. ASSUME NEW i \in 1..(n + 1), NEW j \in 1..(n + 1),
                 ~r.msgs[i].mine /\ ~r.msgs[j].mine,
                 Talk!Key(r.msgs[i]) = Talk!Key(r.msgs[j])
          PROVE  i = j
      <3>1. CASE i \in 1..n /\ j \in 1..n
        BY <2>4, <2>8, <3>1 DEF ScreenOk, n
      <3>2. CASE i \in 1..n /\ j = n + 1
        <4>1. r.msgs[i] = s.msgs[i] /\ r.msgs[j] = m
          BY <2>4, <3>2
        <4>2. Talk!Key(s.msgs[i]) \in s.seen
          <5>1. ~s.msgs[i].mine
            BY <2>8, <4>1, Zenon
          <5> QED
            BY <2>6, <3>2, <5>1, Zenon
        <4> QED
          BY <1>2, <2>8, <4>1, <4>2
      <3>3. CASE j \in 1..n /\ i = n + 1
        <4>1. r.msgs[j] = s.msgs[j] /\ r.msgs[i] = m
          BY <2>4, <3>3
        <4>2. Talk!Key(s.msgs[j]) \in s.seen
          <5>1. ~s.msgs[j].mine
            BY <2>8, <4>1, Zenon
          <5> QED
            BY <2>6, <3>3, <5>1, Zenon
        <4> QED
          BY <1>2, <2>8, <4>1, <4>2
      <3> QED
        BY <2>5, <2>8, <3>1, <3>2, <3>3
    <2> QED
      BY <2>3, <2>7, <2>8 DEF ScreenOk, r
  <1> QED
    BY <1>1, <1>2

\* Changing a message of ours keeps a screen in order.
LEMMA ChangeKeepsScreen ==
  ASSUME NEW s, NEW r, NEW K, NEW A, ScreenOk(s, K, A),
         r.msgs \in Seq(Message), Len(r.msgs) = Len(s.msgs), r.seen = s.seen,
         \A i \in 1..Len(s.msgs) :
           \/ r.msgs[i] = s.msgs[i]
           \/ s.msgs[i].mine /\ r.msgs[i].mine /\ Fair(r.msgs[i], K, A)
  PROVE  ScreenOk(r, K, A)
  BY DEF ScreenOk

\* More confirmations keep a screen in order.
LEMMA GrowthKeepsScreen ==
  ASSUME NEW s, NEW K, NEW A, NEW B, ScreenOk(s, K, A), A \subseteq B
  PROVE  ScreenOk(s, K, B)
  BY DEF ScreenOk, Fair

\* LastMine is 0 or the place of a message of ours with that text.
LEMMA LastMineIsMine ==
  ASSUME NEW s, s.msgs \in Seq(Message), NEW t, Talk!LastMine(s, t) # 0
  PROVE  /\ Talk!LastMine(s, t) \in 1..Len(s.msgs)
         /\ s.msgs[Talk!LastMine(s, t)].mine
  <1> DEFINE M == {i \in DOMAIN s.msgs : s.msgs[i].mine /\ s.msgs[i].text = t}
             n == Len(s.msgs)
             U == {n - i : i \in M}
  <1>1. Talk!LastMine(s, t) = IF M = {} THEN 0 ELSE CHOOSE x \in M : \A y \in M : x >= y
    BY DEF Talk!LastMine, Talk!Max
  <1>2. M # {} /\ M \subseteq 1..n /\ n \in Nat
    BY <1>1
  <1> HIDE DEF M, n
  <1>a. \A i \in M : i \in Int /\ n - i \in Nat
    BY <1>2
  <1>3. U \subseteq Nat /\ U # {}
    <2>1. PICK i : i \in M
      BY <1>2
    <2>2. n - i \in U
      BY <2>1
    <2> QED
      BY <1>a, <2>2
  <1>4. PICK u \in U : \A v \in U : u <= v
    <2> HIDE DEF U
    <2> QED
      BY <1>3, LeastOf, Zenon
  <1>5. PICK x \in M : u = n - x
    BY <1>4
  <1>6. \A y \in M : x >= y
    <2> TAKE y \in M
    <2>1. n - y \in U
      OBVIOUS
    <2>2. n - x <= n - y
      BY <1>4, <1>5, <2>1
    <2> QED
      BY <1>2, <1>a, <1>5, <2>2
  <1>7. Talk!LastMine(s, t) \in M
    BY <1>1, <1>2, <1>5, <1>6
  <1> QED
    BY <1>2, <1>7 DEF M, n

\* addOrUpdateOutgoing keeps a screen in order.
LEMMA OutgoingKeepsScreen ==
  ASSUME NEW s, NEW K, NEW A, ScreenOk(s, K, A),
         s = [msgs |-> s.msgs, seen |-> s.seen],
         NEW m \in Message, m.mine, Fair(m, K, A)
  PROVE  ScreenOk(Talk!addOrUpdateOutgoing(s, m), K, A)
  <1> DEFINE i == Talk!LastMine(s, m.text)
             r == Talk!addOrUpdateOutgoing(s, m)
  <1>1. CASE i # 0 /\ s.msgs[i].status \in {"queued", "failed"}
    <2>1. s.msgs \in Seq(Message)
      BY DEF ScreenOk
    <2>2. i \in 1..Len(s.msgs) /\ s.msgs[i].mine
      BY <1>1, <2>1, LastMineIsMine
    <2>3. r = [s EXCEPT !.msgs[i].status = m.status, !.msgs[i].code = m.code, !.msgs[i].sec = m.sec]
      BY <1>1 DEF Talk!addOrUpdateOutgoing
    <2> DEFINE w == [s.msgs[i] EXCEPT !.status = m.status, !.code = m.code, !.sec = m.sec]
    <2> HIDE DEF i, r
    <2>4. s.msgs[i] \in Message
      BY <2>1, <2>2
    <2>5. w \in Message /\ w.mine /\ w.status = m.status /\ w.code = m.code
      BY <2>2, <2>4 DEF Message
    <2>6. r.msgs = [s.msgs EXCEPT ![i] = w] /\ r.seen = s.seen
      BY <2>1, <2>2, <2>3
    <2> HIDE DEF w
    <2>7. r.msgs \in Seq(Message) /\ Len(r.msgs) = Len(s.msgs)
      BY <2>1, <2>2, <2>5, <2>6
    <2>8. \A k \in 1..Len(s.msgs) : r.msgs[k] = IF k = i THEN w ELSE s.msgs[k]
      BY <2>1, <2>2, <2>6
    <2>9. Fair(w, K, A)
      BY <2>5 DEF Fair
    <2>10. \A k \in 1..Len(s.msgs) :
             \/ r.msgs[k] = s.msgs[k]
             \/ s.msgs[k].mine /\ r.msgs[k].mine /\ Fair(r.msgs[k], K, A)
      BY <2>2, <2>5, <2>8, <2>9
    <2>11. ScreenOk(r, K, A)
      BY <2>6, <2>7, <2>10, ChangeKeepsScreen
    <2> QED
      BY <2>11 DEF r
  <1>2. CASE ~(i # 0 /\ s.msgs[i].status \in {"queued", "failed"})
    BY <1>2, AddKeepsScreen DEF Talk!addOrUpdateOutgoing
  <1> QED
    BY <1>1, <1>2

\* setOutgoingStatus keeps a screen in order, unless it marks a delivery.
LEMMA StatusKeepsScreen ==
  ASSUME NEW s, NEW K, NEW A, ScreenOk(s, K, A),
         s = [msgs |-> s.msgs, seen |-> s.seen], NEW t
  PROVE  ScreenOk(Talk!setOutgoingStatus(s, t, "failed"), K, A)
  <1> DEFINE i == Talk!LastMine(s, t)
             r == Talk!setOutgoingStatus(s, t, "failed")
  <1>1. CASE i # 0
    <2>1. s.msgs \in Seq(Message)
      BY DEF ScreenOk
    <2>2. i \in 1..Len(s.msgs) /\ s.msgs[i].mine
      BY <1>1, <2>1, LastMineIsMine
    <2>3. r = [s EXCEPT !.msgs[i].status = "failed"]
      BY <1>1 DEF Talk!setOutgoingStatus
    <2> DEFINE w == [s.msgs[i] EXCEPT !.status = "failed"]
    <2> HIDE DEF i, r
    <2>4. s.msgs[i] \in Message
      BY <2>1, <2>2
    <2>5. w \in Message /\ w.mine /\ w.status = "failed"
      <3>1. "failed" \in Statuses
        BY DEF Statuses
      <3>2. w.mine = s.msgs[i].mine /\ w.status = "failed"
        BY <2>4 DEF Message
      <3>3. w \in Message
        BY <2>4, <3>1 DEF Message
      <3> QED
        BY <2>2, <3>2, <3>3
    <2>6. r.msgs = [s.msgs EXCEPT ![i] = w] /\ r.seen = s.seen
      BY <2>1, <2>2, <2>3
    <2> HIDE DEF w
    <2>7. r.msgs \in Seq(Message) /\ Len(r.msgs) = Len(s.msgs)
      BY <2>1, <2>2, <2>5, <2>6
    <2>8. \A k \in 1..Len(s.msgs) : r.msgs[k] = IF k = i THEN w ELSE s.msgs[k]
      BY <2>1, <2>2, <2>6
    <2>9. Fair(w, K, A)
      BY <2>5 DEF Fair
    <2>10. \A k \in 1..Len(s.msgs) :
             \/ r.msgs[k] = s.msgs[k]
             \/ s.msgs[k].mine /\ r.msgs[k].mine /\ Fair(r.msgs[k], K, A)
      BY <2>2, <2>5, <2>8, <2>9
    <2>11. ScreenOk(r, K, A)
      BY <2>6, <2>7, <2>10, ChangeKeepsScreen
    <2> QED
      BY <2>11 DEF r
  <1>2. CASE i = 0
    BY <1>2 DEF Talk!setOutgoingStatus
  <1> QED
    BY <1>1, <1>2

\* A confirmation keeps a screen in order if the mesh gave it.
LEMMA AcknowledgeKeepsScreen ==
  ASSUME NEW s, NEW K, NEW A, ScreenOk(s, K, A),
         s = [msgs |-> s.msgs, seen |-> s.seen], NEW c, c = 0 \/ c \in A
  PROVE  ScreenOk(Talk!Acknowledge(s, c), K, A)
  <1> DEFINE r == Talk!Acknowledge(s, c)
             New(k) == IF s.msgs[k].mine /\ c # 0 /\ s.msgs[k].code = c
                       THEN [s.msgs[k] EXCEPT !.status = "delivered"] ELSE s.msgs[k]
  <1>1. s.msgs \in Seq(Message) /\ DOMAIN s.msgs = 1..Len(s.msgs) /\ Len(s.msgs) \in Nat
    BY DEF ScreenOk
  <1>2. r.msgs = [k \in 1..Len(s.msgs) |-> New(k)] /\ r.seen = s.seen
    BY <1>1 DEF Talk!Acknowledge
  <1>3. \A k \in 1..Len(s.msgs) : s.msgs[k] \in Message /\ r.msgs[k] = New(k)
    BY <1>1, <1>2
  <1>4. ASSUME NEW k \in 1..Len(s.msgs)
        PROVE  /\ New(k) \in Message
               /\ \/ New(k) = s.msgs[k]
                  \/ s.msgs[k].mine /\ New(k).mine /\ Fair(New(k), K, A)
    <2> DEFINE w == [s.msgs[k] EXCEPT !.status = "delivered"]
    <2>1. s.msgs[k] \in Message
      BY <1>3
    <2>2. "delivered" \in Statuses
      BY DEF Statuses
    <2>3. w \in Message /\ w.mine = s.msgs[k].mine /\ w.code = s.msgs[k].code
      BY <2>1, <2>2 DEF Message
    <2>5. CASE s.msgs[k].mine /\ c # 0 /\ s.msgs[k].code = c
      <3>1. New(k) = w
        BY <2>5
      <3>2. Fair(w, K, A)
        BY <2>3, <2>5 DEF Fair
      <3> QED
        BY <2>3, <2>5, <3>1, <3>2
    <2>6. CASE ~(s.msgs[k].mine /\ c # 0 /\ s.msgs[k].code = c)
      BY <2>1, <2>6
    <2> QED
      BY <2>5, <2>6
  <1> HIDE DEF r, New
  <1>5. r.msgs \in Seq(Message) /\ Len(r.msgs) = Len(s.msgs)
    BY <1>1, <1>2, <1>4
  <1>6. \A k \in 1..Len(s.msgs) :
          \/ r.msgs[k] = s.msgs[k]
          \/ s.msgs[k].mine /\ r.msgs[k].mine /\ Fair(r.msgs[k], K, A)
    BY <1>3, <1>4
  <1>7. ScreenOk(r, K, A)
    BY <1>2, <1>5, <1>6, ChangeKeepsScreen
  <1> QED
    BY <1>7 DEF r

\* A history of fair messages, added one after the other, keeps a screen in
\* order: by induction over the history.
LEMMA HistoryKeepsScreen ==
  ASSUME NEW s, NEW K, NEW A, ScreenOk(s, K, A), NEW list \in Seq(Message),
         \A i \in 1..Len(list) : Fair(list[i], K, A)
  PROVE  ScreenOk(Talk!addHistory(s, list), K, A)
  <1> DEFINE Z == Len(list)
  <1>1. Z \in Nat /\ \A n \in 1..Z : list[n] \in Message
    OBVIOUS
  <1>2. PICK f : /\ f = [n \in 0..Z |-> IF n = 0 THEN s ELSE Talk!addMessage(f[n - 1], list[n])]
                 /\ Talk!addHistory(s, list) = f[Z]
    BY <1>1, HistoryAdded
  <1> DEFINE S == {n \in Nat : n \in 0..Z => ScreenOk(f[n], K, A)}
  <1>3. 0 \in S
    <2>1. f[0] = s
      BY <1>1, <1>2
    <2> QED
      BY <2>1
  <1>4. ASSUME NEW n \in Nat, n \in S PROVE n + 1 \in S
    <2>1. CASE n + 1 \in 0..Z
      <3>1. n \in 0..Z /\ n + 1 \in 1..Z /\ n + 1 # 0 /\ (n + 1) - 1 = n
        BY <1>1, <2>1
      <3>2. f[n + 1] = Talk!addMessage(f[n], list[n + 1])
        BY <1>2, <2>1, <3>1
      <3>3. ScreenOk(f[n], K, A) /\ list[n + 1] \in Message /\ Fair(list[n + 1], K, A)
        BY <1>1, <1>4, <3>1
      <3>4. ScreenOk(f[n + 1], K, A)
        BY <3>2, <3>3, AddKeepsScreen
      <3> QED
        BY <3>4
    <2> QED
      BY <2>1
  <1>5. Z \in S
    <2> HIDE DEF S
    <2> QED
      BY <1>1, <1>3, <1>4, SetInduction
  <1> QED
    BY <1>1, <1>2, <1>5

-----------------------------------------------------------------------------
(* Chat: the inductive invariant.                                          *)

\* Types of the conversation.
ChatTypes ==
  /\ now \in Nat /\ ins \in Nat /\ outs \in Nat
  /\ store \in Seq(Message) /\ history \in Seq(Message)
  /\ feed \in Seq(Event) /\ ch \in Seq(Event)
  /\ heard \subseteq Message /\ out \in Message
  /\ aired \subseteq Nat \ {0}

\* A row holds what was received; one without a time has another.
Row(m) == /\ m.text = m.raw.text /\ m.code = 0 /\ m.status = ""
          /\ m.raw.sec # 0 => m.sec = m.raw.sec

\* What was heard is a copy without a status.
HeardInv == \A m \in heard : ~m.mine /\ m.status = "" /\ Copy(m, Talk!OnChannel)

\* An event is a message heard, an echo of ours as sent or a confirmation.
EventOk(ev, H, A) ==
  /\ \/ ev.message = Talk!NoMsg
     \/ ev.message \in H
     \/ ev.message.mine /\ ev.message.status = "sent"
  /\ ev.ack = 0 \/ ev.ack \in A

\* Events on their way to the screen are sound.
StreamInv ==
  /\ \A i \in 1..Len(feed) : EventOk(feed[i], heard, acked)
  /\ \A i \in 1..Len(ch) : EventOk(ch[i], heard, acked)

\* A stored message is of ours or a row, a delivered one carries a code of A.
Kept(m, A) == (m.mine \/ Row(m)) /\ (m.status = "delivered" => m.code \in A)

\* So is what is stored and what was loaded.
StoreInv ==
  /\ \A i \in 1..Len(store) : Kept(store[i], acked)
  /\ \A i \in 1..Len(history) : Fair(history[i], Talk!OnChannel, acked)

\* What the send goroutine holds is ours and not yet delivered.
OutInv ==
  /\ sender # "idle" => out.mine /\ out.id # 0
  /\ out.status # "delivered"
  /\ sender = "echo" => out.status = "sent"

ChatInv == /\ ChatTypes /\ HeardInv /\ StreamInv /\ StoreInv /\ OutInv
           /\ ScreenOk(Talk!Shown, Talk!OnChannel, acked)

\* What Append adds and keeps.
LEMMA Appended ==
  ASSUME NEW X, NEW q \in Seq(X), NEW e \in X
  PROVE  /\ Append(q, e) \in Seq(X)
         /\ Len(Append(q, e)) = Len(q) + 1 /\ Len(q) \in Nat
         /\ Append(q, e)[Len(q) + 1] = e
         /\ \A i \in 1..Len(Append(q, e)) :
              i = Len(q) + 1 \/ (i \in 1..Len(q) /\ Append(q, e)[i] = q[i])
         /\ \A i \in 1..Len(q) : i \in 1..Len(Append(q, e)) /\ Append(q, e)[i] = q[i]
  OBVIOUS

\* What Tail and Head take.
LEMMA Tailed ==
  ASSUME NEW X, NEW q \in Seq(X), q # <<>>
  PROVE  /\ Tail(q) \in Seq(X) /\ Head(q) \in X
         /\ Head(q) = q[1] /\ 1 \in 1..Len(q)
         /\ \A i \in 1..Len(Tail(q)) : i + 1 \in 1..Len(q) /\ Tail(q)[i] = q[i + 1]
  OBVIOUS

\* NoMsg has a message's type.
LEMMA NoMessage == Talk!NoMsg \in Message /\ ~Talk!NoMsg.mine
  BY DEF Talk!NoMsg, Talk!Theirs, Talk!NoText, Talk!NoRaw, Talk!NoTime, Text, Raw, Message, Statuses

\* Once more is heard or confirmed, what was sound still is.
LEMMA GrowthKeepsChat ==
  ASSUME ChatInv, heard \subseteq heard', acked \subseteq acked', session' = session
  PROVE  /\ ScreenOk(Talk!Shown, Talk!OnChannel', acked')
         /\ \A i \in 1..Len(history) : Fair(history[i], Talk!OnChannel', acked')
         /\ \A i \in 1..Len(store) : Kept(store[i], acked')
         /\ \A i \in 1..Len(feed) : EventOk(feed[i], heard', acked')
         /\ \A i \in 1..Len(ch) : EventOk(ch[i], heard', acked')
  <1>0. Talk!OnChannel' = Talk!OnChannel
    BY DEF Talk!OnChannel
  <1>1. ScreenOk(Talk!Shown, Talk!OnChannel', acked')
    BY <1>0, GrowthKeepsScreen DEF ChatInv
  <1>3. \A ev : EventOk(ev, heard, acked) => EventOk(ev, heard', acked')
    BY DEF EventOk
  <1>4. /\ \A i \in 1..Len(history) : Fair(history[i], Talk!OnChannel, acked)
        /\ \A i \in 1..Len(store) : Kept(store[i], acked)
        /\ \A i \in 1..Len(feed) : EventOk(feed[i], heard, acked)
        /\ \A i \in 1..Len(ch) : EventOk(ch[i], heard, acked)
    BY DEF ChatInv, StoreInv, StreamInv
  <1>5. \A i \in 1..Len(history) : Fair(history[i], Talk!OnChannel', acked')
    BY <1>0, <1>4 DEF Fair
  <1>6. \A i \in 1..Len(store) : Kept(store[i], acked')
    BY <1>4 DEF Kept
  <1>7. /\ \A i \in 1..Len(feed) : EventOk(feed[i], heard', acked')
        /\ \A i \in 1..Len(ch) : EventOk(ch[i], heard', acked')
    BY <1>3, <1>4
  <1> QED
    BY <1>1, <1>5, <1>6, <1>7, Zenon

\* A published event is sound if it is sound once published.
LEMMA Published ==
  ASSUME ChatInv, NEW ev \in Event, Talk!Publish(ev),
         \A i \in 1..Len(feed) : EventOk(feed[i], heard', acked'),
         watch = "on" => EventOk(ev, heard', acked')
  PROVE  /\ feed' \in Seq(Event)
         /\ \A i \in 1..Len(feed') : EventOk(feed'[i], heard', acked')
  <1>1. feed \in Seq(Event)
    BY DEF ChatInv, ChatTypes
  <1>2. CASE watch = "on"
    <2>1. feed' = Append(feed, ev)
      BY <1>2 DEF Talk!Publish
    <2> QED
      BY <1>1, <1>2, <2>1, Appended
  <1>3. CASE watch # "on"
    BY <1>1, <1>3 DEF Talk!Publish
  <1> QED
    BY <1>2, <1>3

\* What is received gives a row and a streamed copy.
LEMMA ReceivedCopies ==
  ASSUME NEW t \in Text, NEW sec \in Nat, now \in Nat
  PROVE  LET raw == [text |-> t, sec |-> sec]
             m == Talk!incomingMessage(raw)
             d == Talk!Record(raw)
         IN  /\ m \in Message /\ ~m.mine /\ m.status = "" /\ Copy(m, Talk!OnChannel)
             /\ d \in Message /\ ~d.mine /\ Row(d)
  <1> DEFINE raw == [text |-> t, sec |-> sec]
             m == Talk!incomingMessage(raw)
             d == Talk!Record(raw)
             x == IF Talk!OnChannel THEN Talk!extractChannelAuthor(t) ELSE t
             n == IF sec = 0 THEN now ELSE sec
  <1>1. raw \in Raw /\ "" \in Statuses
    BY DEF Raw, Statuses
  <1>2. Talk!extractChannelAuthor(t) \in Text
    BY DEF Talk!extractChannelAuthor, Talk!Trim, Text
  <1>3. x \in Text /\ n \in Nat
    BY <1>2
  <1>4. m = [mine |-> FALSE, text |-> x, sec |-> sec, status |-> "", code |-> 0,
             id |-> 0, raw |-> raw]
    BY DEF Talk!incomingMessage, Talk!Theirs
  <1>5. d = [mine |-> FALSE, text |-> t, sec |-> n, status |-> "", code |-> 0,
             id |-> 0, raw |-> raw]
    BY DEF Talk!Record, Talk!Theirs, Talk!NoTime
  <1> HIDE DEF m, d, n
  <1>6. m \in Message /\ ~m.mine /\ m.status = "" /\ Copy(m, Talk!OnChannel)
    <2> HIDE DEF x
    <2>1. m \in Message
      BY <1>1, <1>3, <1>4 DEF Message
    <2>2. ~m.mine /\ m.status = "" /\ m.raw = raw /\ m.sec = sec /\ m.text = x
      BY <1>4
    <2>3. raw.text = t /\ raw.sec = sec
      OBVIOUS
    <2>4. Copy(m, Talk!OnChannel)
      BY <2>2, <2>3 DEF Copy, x
    <2> QED
      BY <2>1, <2>2, <2>4
  <1>7. d \in Message /\ ~d.mine /\ Row(d)
    <2>1. d \in Message
      BY <1>1, <1>3, <1>5 DEF Message
    <2>2. /\ ~d.mine /\ d.status = "" /\ d.code = 0 /\ d.raw = raw /\ d.sec = n /\ d.text = t
      BY <1>5
    <2>3. Row(d)
      <3>1. raw.text = t /\ raw.sec = sec
        OBVIOUS
      <3> HIDE DEF raw
      <3> QED
        BY <2>2, <3>1 DEF Row, n
    <2> QED
      BY <2>1, <2>2, <2>3, Zenon
  <1> QED
    BY <1>6, <1>7 DEF m, d

\* A row as the history shows it is fair.
LEMMA ConvertedIsFair ==
  ASSUME NEW m \in Message, Kept(m, acked)
  PROVE  /\ Talk!chatMessageFromRecord(m) \in Message
         /\ Fair(Talk!chatMessageFromRecord(m), Talk!OnChannel, acked)
  <1> DEFINE w == [m EXCEPT !.text = Talk!extractChannelAuthor(m.text)]
             d == Talk!chatMessageFromRecord(m)
  <1>1. Talk!extractChannelAuthor(m.text) \in Text
    BY DEF Talk!extractChannelAuthor, Talk!Trim, Text, Message
  <1>2. /\ w \in Message /\ w.mine = m.mine /\ w.raw = m.raw /\ w.sec = m.sec
        /\ w.text = Talk!extractChannelAuthor(m.text) /\ w.status = m.status /\ w.code = m.code
    BY <1>1 DEF Message
  <1>3. CASE Talk!OnChannel /\ ~m.mine /\ m.text.author
    <2>1. d = w
      BY <1>3 DEF Talk!chatMessageFromRecord
    <2>2. Fair(w, Talk!OnChannel, acked)
      <3> HIDE DEF w
      <3> QED
        BY <1>2, <1>3 DEF Kept, Row, Fair, Copy
    <2> QED
      BY <1>2, <2>1, <2>2
  <1>4. CASE ~(Talk!OnChannel /\ ~m.mine /\ m.text.author)
    <2>1. d = m
      BY <1>4 DEF Talk!chatMessageFromRecord
    <2>2. CASE m.mine
      BY <2>1, <2>2 DEF Kept, Fair
    <2>3. CASE ~m.mine /\ ~Talk!OnChannel
      BY <2>1, <2>3 DEF Kept, Row, Fair, Copy
    <2>4. CASE ~m.mine /\ Talk!OnChannel /\ ~m.text.author
      <3>1. Row(m) /\ m.text = m.raw.text
        BY <2>4 DEF Kept, Row
      <3>2. ~m.text.spaced => Talk!extractChannelAuthor(m.text) = m.text
        <4>1. m.text \in Text
          BY DEF Message
        <4> QED
          BY <2>4, <4>1 DEF Talk!extractChannelAuthor, Talk!Trim, Text
      <3>3. Copy(m, Talk!OnChannel)
        BY <2>4, <3>1, <3>2 DEF Copy, Row
      <3> QED
        BY <2>1, <3>3 DEF Fair, Kept
    <2> QED
      BY <1>4, <2>2, <2>3, <2>4
  <1> QED
    BY <1>3, <1>4

\* A message is received.
LEMMA ChatReceive ==
  ASSUME ChatInv, NEW t \in Texts, NEW sec \in Nat, Talk!Receive(t, sec),
         UNCHANGED <<ch, history, msgs, seen, sender, out, aired, outs>>
  PROVE  ChatInv'
  <1> DEFINE raw == [text |-> t, sec |-> sec]
             m == Talk!incomingMessage(raw)
             d == Talk!Record(raw)
             ev == [message |-> m, ack |-> 0]
  <1>1. /\ now \in Nat /\ ins \in Nat /\ store \in Seq(Message) /\ heard \subseteq Message
        /\ history \in Seq(Message) /\ ch \in Seq(Event) /\ out \in Message
        /\ outs \in Nat /\ aired \subseteq Nat \ {0}
    BY DEF ChatInv, ChatTypes
  <1>0. t \in Text
    BY MCBackendAssumption DEF Text
  <1>2. /\ m \in Message /\ ~m.mine /\ m.status = "" /\ Copy(m, Talk!OnChannel)
        /\ d \in Message /\ ~d.mine /\ Row(d)
    BY <1>0, <1>1, ReceivedCopies
  <1>3. /\ ins' = ins + 1 /\ now' = now /\ acked' = acked /\ session' = session
        /\ store' = store \/ store' = Append(store, d)
        /\ heard' = (IF watch = "on" THEN heard \union {m} ELSE heard)
        /\ Talk!Publish(ev)
    BY DEF Talk!Receive, Talk!Persisted
  <1> HIDE DEF m, d
  <1>4. ev \in Event
    BY <1>2 DEF Event
  <1>5. /\ store' \in Seq(Message)
        /\ \A i \in 1..Len(store') :
             store'[i] = d \/ (i \in 1..Len(store) /\ store'[i] = store[i])
    <2>1. CASE store' = Append(store, d)
      <3>1. store \in Seq(Message) /\ d \in Message
        BY <1>1, <1>2
      <3>2. /\ Append(store, d) \in Seq(Message)
            /\ Append(store, d)[Len(store) + 1] = d
            /\ \A i \in 1..Len(Append(store, d)) :
                 i = Len(store) + 1 \/ (i \in 1..Len(store) /\ Append(store, d)[i] = store[i])
        BY <3>1, Appended
      <3> QED
        BY <2>1, <3>2, Zenon
    <2>2. CASE store' = store
      BY <1>1, <2>2
    <2> QED
      BY <1>3, <2>1, <2>2
  <1>6. heard \subseteq heard' /\ heard' \subseteq heard \union {m}
    BY <1>3
  <1>7. Talk!OnChannel' = Talk!OnChannel
    BY <1>3 DEF Talk!OnChannel
  <1>9. HeardInv'
    BY <1>2, <1>6, <1>7 DEF ChatInv, HeardInv
  <1>10. /\ ScreenOk(Talk!Shown, Talk!OnChannel', acked')
         /\ \A i \in 1..Len(history) : Fair(history[i], Talk!OnChannel', acked')
         /\ \A i \in 1..Len(store) : Kept(store[i], acked')
         /\ \A i \in 1..Len(feed) : EventOk(feed[i], heard', acked')
         /\ \A i \in 1..Len(ch) : EventOk(ch[i], heard', acked')
    BY <1>3, <1>6, GrowthKeepsChat
  <1>11. watch = "on" => EventOk(ev, heard', acked')
    BY <1>3 DEF EventOk
  <1>12. /\ feed' \in Seq(Event)
         /\ \A i \in 1..Len(feed') : EventOk(feed'[i], heard', acked')
    BY <1>3, <1>4, <1>10, <1>11, Published
  <1>13. ASSUME NEW i \in 1..Len(store') PROVE Kept(store'[i], acked')
    <2>1. CASE i \in 1..Len(store) /\ store'[i] = store[i]
      BY <1>10, <2>1
    <2>2. CASE store'[i] = d
      BY <1>2, <2>2 DEF Kept, Row
    <2> QED
      BY <1>5, <2>1, <2>2
  <1>14. StoreInv' /\ StreamInv'
    BY <1>10, <1>12, <1>13 DEF StoreInv, StreamInv
  <1>15. ScreenOk(Talk!Shown, Talk!OnChannel, acked)'
    BY <1>10 DEF Talk!Shown
  <1>16. OutInv'
    BY DEF ChatInv, OutInv
  <1>17. heard' \subseteq Message
    BY <1>1, <1>2, <1>6
  <1>18. ChatTypes'
    BY <1>1, <1>3, <1>5, <1>12, <1>17 DEF ChatTypes
  <1> QED
    BY <1>9, <1>14, <1>15, <1>16, <1>18 DEF ChatInv

\* The mesh confirms a code.
LEMMA ChatConfirm ==
  ASSUME ChatInv, NEW c, Talk!Confirm(c),
         UNCHANGED <<ch, history, msgs, seen, sender, out, aired, outs>>
  PROVE  ChatInv'
  <1> DEFINE New(i) == IF store[i].code = c THEN [store[i] EXCEPT !.status = "delivered"]
                       ELSE store[i]
             ev == [message |-> Talk!NoMsg, ack |-> c]
  <1>1. /\ now \in Nat /\ ins \in Nat /\ store \in Seq(Message) /\ heard \subseteq Message
        /\ history \in Seq(Message) /\ ch \in Seq(Event) /\ out \in Message
        /\ outs \in Nat /\ aired \subseteq Nat \ {0}
    BY DEF ChatInv, ChatTypes
  <1>2. /\ c \in aired /\ acked' = acked \union {c} /\ heard' = heard /\ now' = now /\ ins' = ins
        /\ session' = session
        /\ store' = [i \in 1..Len(store) |-> New(i)]
        /\ Talk!Publish(ev)
    BY <1>1 DEF Talk!Confirm
  <1>3. c \in Nat /\ c # 0
    BY <1>1, <1>2
  <1>4. ASSUME NEW i \in 1..Len(store)
        PROVE  /\ New(i) \in Message /\ New(i).mine = store[i].mine
               /\ New(i) = store[i] \/ (store[i].code = c /\ New(i).code = c)
    <2>1. store[i] \in Message /\ "delivered" \in Statuses
      BY <1>1 DEF Statuses
    <2> DEFINE w == [store[i] EXCEPT !.status = "delivered"]
    <2>2. w \in Message /\ w.mine = store[i].mine /\ w.code = store[i].code
      BY <2>1 DEF Message
    <2>3. New(i) = IF store[i].code = c THEN w ELSE store[i]
      OBVIOUS
    <2> HIDE DEF w, New
    <2> QED
      BY <2>1, <2>2, <2>3
  <1>5. ASSUME NEW i \in 1..Len(store), ~store[i].mine PROVE New(i) = store[i]
    <2>1. Kept(store[i], acked)
      BY DEF ChatInv, StoreInv
    <2>2. store[i].code = 0
      BY <1>5, <2>1 DEF Kept, Row
    <2> QED
      BY <1>3, <2>2
  <1> HIDE DEF New
  <1>6. /\ store' \in Seq(Message) /\ Len(store') = Len(store)
        /\ \A i \in 1..Len(store) : store'[i] = New(i)
    BY <1>1, <1>2, <1>4
  <1>7. Talk!OnChannel' = Talk!OnChannel
    BY <1>2 DEF Talk!OnChannel
  <1>8. /\ ScreenOk(Talk!Shown, Talk!OnChannel', acked')
        /\ \A i \in 1..Len(history) : Fair(history[i], Talk!OnChannel', acked')
        /\ \A i \in 1..Len(store) : Kept(store[i], acked')
        /\ \A i \in 1..Len(feed) : EventOk(feed[i], heard', acked')
        /\ \A i \in 1..Len(ch) : EventOk(ch[i], heard', acked')
    BY <1>2, GrowthKeepsChat
  <1>9. ev \in Event /\ EventOk(ev, heard', acked')
    BY <1>2, <1>3, NoMessage DEF Event, EventOk
  <1>10. /\ feed' \in Seq(Event)
         /\ \A i \in 1..Len(feed') : EventOk(feed'[i], heard', acked')
    BY <1>2, <1>8, <1>9, Published
  <1>11. ASSUME NEW i \in 1..Len(store') PROVE Kept(store'[i], acked')
    <2>1. i \in 1..Len(store) /\ store'[i] = New(i)
      BY <1>6
    <2>2. CASE New(i) = store[i]
      BY <1>8, <2>1, <2>2
    <2>3. CASE New(i) # store[i]
      <3>1. New(i).code = c /\ New(i).mine
        BY <1>4, <1>5, <2>1, <2>3
      <3> QED
        BY <1>2, <2>1, <3>1 DEF Kept
    <2> QED
      BY <2>2, <2>3
  <1>12. StoreInv' /\ StreamInv'
    BY <1>8, <1>10, <1>11 DEF StoreInv, StreamInv
  <1>13. ScreenOk(Talk!Shown, Talk!OnChannel, acked)'
    BY <1>8 DEF Talk!Shown
  <1>14. OutInv' /\ HeardInv'
    BY <1>2, <1>7 DEF ChatInv, OutInv, HeardInv
  <1>15. ChatTypes'
    BY <1>1, <1>2, <1>6, <1>10 DEF ChatTypes
  <1> QED
    BY <1>12, <1>13, <1>14, <1>15 DEF ChatInv

\* While nothing else changes, the stream and the screen may.
LEMMA ChatFrame ==
  ASSUME ChatInv, UNCHANGED <<session, store, heard, acked, ins>>,
         now' \in Nat, outs' \in Nat, history' \in Seq(Message),
         feed' \in Seq(Event), ch' \in Seq(Event), out' \in Message,
         aired' \subseteq Nat \ {0},
         \A i \in 1..Len(feed') : EventOk(feed'[i], heard, acked),
         \A i \in 1..Len(ch') : EventOk(ch'[i], heard, acked),
         \A i \in 1..Len(history') : Fair(history'[i], Talk!OnChannel, acked),
         OutInv', ScreenOk(Talk!Shown', Talk!OnChannel, acked)
  PROVE  ChatInv'
  <1>1. Talk!OnChannel' = Talk!OnChannel
    BY DEF Talk!OnChannel
  <1>2. ChatTypes'
    BY DEF ChatInv, ChatTypes
  <1>3. HeardInv'
    BY <1>1 DEF ChatInv, HeardInv
  <1>4. StreamInv'
    BY DEF StreamInv
  <1>5. StoreInv'
    BY <1>1 DEF ChatInv, StoreInv
  <1>6. ScreenOk(Talk!Shown, Talk!OnChannel, acked)'
    BY <1>1
  <1> QED
    BY <1>2, <1>3, <1>4, <1>5, <1>6 DEF ChatInv

\* The parts of the invariant a step starts from.
LEMMA ChatParts ==
  ASSUME ChatInv
  PROVE  /\ now \in Nat /\ ins \in Nat /\ outs \in Nat
         /\ store \in Seq(Message) /\ history \in Seq(Message)
         /\ feed \in Seq(Event) /\ ch \in Seq(Event)
         /\ heard \subseteq Message /\ out \in Message
         /\ aired \subseteq Nat \ {0}
         /\ \A i \in 1..Len(feed) : EventOk(feed[i], heard, acked)
         /\ \A i \in 1..Len(ch) : EventOk(ch[i], heard, acked)
         /\ \A i \in 1..Len(store) : Kept(store[i], acked)
         /\ \A i \in 1..Len(history) : Fair(history[i], Talk!OnChannel, acked)
         /\ OutInv /\ ScreenOk(Talk!Shown, Talk!OnChannel, acked)
  BY DEF ChatInv, ChatTypes, StreamInv, StoreInv

\* A step that leaves the stream, the store and the sender alone.
LEMMA ChatScreen ==
  ASSUME ChatInv,
         UNCHANGED <<session, store, heard, acked, ins, now, outs, feed, ch, out, aired, sender,
                     history>>,
         ScreenOk(Talk!Shown', Talk!OnChannel, acked)
  PROVE  ChatInv'
  <1>1. OutInv'
    BY ChatParts DEF OutInv
  <1> QED
    BY <1>1, ChatParts, ChatFrame

\* Shown is the screen.
LEMMA ShownRecord == /\ Talk!Shown = [msgs |-> Talk!Shown.msgs, seen |-> Talk!Shown.seen]
                     /\ Talk!Shown.msgs = msgs /\ Talk!Shown.seen = seen
  BY DEF Talk!Shown

\* A second passes.
LEMMA ChatTick ==
  ASSUME ChatInv, Talk!Tick,
         UNCHANGED <<ch, history, msgs, seen, sender, out, aired, outs>>
  PROVE  ChatInv'
  <1>1. now' \in Nat /\ UNCHANGED <<session, store, heard, feed, acked, ins>>
    BY ChatParts DEF Talk!Tick
  <1>2. OutInv'
    BY ChatParts DEF OutInv
  <1>3. Talk!Shown' = Talk!Shown
    BY DEF Talk!Shown
  <1> QED
    BY <1>1, <1>2, <1>3, ChatParts, ChatFrame

\* push adds a sound event to the stream or drops it.
LEMMA Pushed ==
  ASSUME ChatInv, NEW ev \in Event, EventOk(ev, heard, acked), Talk!push(ev)
  PROVE  ch' \in Seq(Event) /\ \A i \in 1..Len(ch') : EventOk(ch'[i], heard, acked)
  <1>1. ch \in Seq(Event) /\ \A i \in 1..Len(ch) : EventOk(ch[i], heard, acked)
    BY ChatParts
  <1>2. CASE ch' = ch
    BY <1>1, <1>2
  <1>3. CASE ch' = Append(ch, ev)
    BY <1>1, <1>3, Appended
  <1> QED
    BY <1>2, <1>3 DEF Talk!push

\* The watch opens, forwards an event or ends.
LEMMA ChatWatch ==
  ASSUME ChatInv, Talk!WatchOpens \/ Talk!Forward \/ Talk!WatchEnds,
         UNCHANGED <<session, now, store, heard, acked, ins, history, msgs, seen, sender, out,
                     aired, outs>>
  PROVE  ChatInv'
  <1>1. OutInv'
    BY ChatParts DEF OutInv
  <1>2. Talk!Shown' = Talk!Shown
    BY DEF Talk!Shown
  <1>3. /\ feed' \in Seq(Event) /\ ch' \in Seq(Event)
        /\ \A i \in 1..Len(feed') : EventOk(feed'[i], heard, acked)
        /\ \A i \in 1..Len(ch') : EventOk(ch'[i], heard, acked)
    <2>1. CASE Talk!WatchOpens
      BY <2>1, ChatParts DEF Talk!WatchOpens
    <2>2. CASE Talk!WatchEnds
      BY <2>2, ChatParts DEF Talk!WatchEnds
    <2>3. CASE Talk!Forward
      <3>1. feed # <<>> /\ feed' = Tail(feed) /\ Talk!push(Head(feed)) /\ feed \in Seq(Event)
        BY <2>3, ChatParts DEF Talk!Forward
      <3>2. /\ Tail(feed) \in Seq(Event) /\ Head(feed) \in Event
            /\ Head(feed) = feed[1] /\ 1 \in 1..Len(feed)
            /\ \A i \in 1..Len(Tail(feed)) : i + 1 \in 1..Len(feed) /\ Tail(feed)[i] = feed[i + 1]
        BY <3>1, Tailed
      <3>3. \A i \in 1..Len(feed) : EventOk(feed[i], heard, acked)
        BY ChatParts
      <3>4. EventOk(Head(feed), heard, acked)
        BY <3>2, <3>3
      <3>5. ch' \in Seq(Event) /\ \A i \in 1..Len(ch') : EventOk(ch'[i], heard, acked)
        BY <3>1, <3>2, <3>4, Pushed
      <3>6. \A i \in 1..Len(feed') : EventOk(feed'[i], heard, acked)
        BY <3>1, <3>2, <3>3
      <3> QED
        BY <3>1, <3>2, <3>5, <3>6
    <2> QED
      BY <2>1, <2>2, <2>3
  <1> QED
    BY <1>1, <1>2, <1>3, ChatParts, ChatFrame

\* The history is loaded, or its load fails.
LEMMA ChatLoad ==
  ASSUME ChatInv, Talk!Loads \/ Talk!LoadFails,
         UNCHANGED <<session, now, store, heard, acked, ins, feed, ch, aired>>
  PROVE  ChatInv'
  <1> DEFINE New(i) == Talk!chatMessageFromRecord(store[i])
  <1>0. store \in Seq(Message) /\ DOMAIN store = 1..Len(store) /\ Len(store) \in Nat
    BY ChatParts
  <1>1. /\ UNCHANGED <<sender, out, outs, msgs, seen>>
        /\ history' = [i \in 1..Len(store) |-> New(i)] \/ history' = history
    BY <1>0 DEF Talk!Loads, Talk!LoadFails, Talk!screen
  <1>2. OutInv'
    BY <1>1, ChatParts DEF OutInv
  <1>3. Talk!Shown' = Talk!Shown
    BY <1>1 DEF Talk!Shown
  <1>4. /\ history' \in Seq(Message)
        /\ \A i \in 1..Len(history') : Fair(history'[i], Talk!OnChannel, acked)
    <2>1. CASE history' = history
      BY <2>1, ChatParts
    <2>2. CASE history' = [i \in 1..Len(store) |-> New(i)]
      <3>1. \A i \in 1..Len(store) : New(i) \in Message /\ Fair(New(i), Talk!OnChannel, acked)
        <4> TAKE i \in 1..Len(store)
        <4>1. store[i] \in Message /\ Kept(store[i], acked)
          BY <1>0, ChatParts
        <4> QED
          BY <4>1, ConvertedIsFair
      <3> HIDE DEF New
      <3> QED
        BY <1>0, <2>2, <3>1
    <2> QED
      BY <1>1, <2>1, <2>2
  <1> QED
    BY <1>1, <1>2, <1>3, <1>4, ChatParts, ChatFrame

\* The history replaces what was shown.
LEMMA ChatApplyLoaded ==
  ASSUME ChatInv, Talk!ApplyLoaded,
         UNCHANGED <<session, now, store, heard, acked, ins, feed, ch, aired>>
  PROVE  ChatInv'
  <1> DEFINE s == [Talk!Shown EXCEPT !.msgs = <<>>]
             r == Talk!addHistory(s, history)
  <1>1. /\ UNCHANGED <<sender, out, outs>> /\ history' = <<>>
        /\ msgs' = r.msgs /\ seen' = r.seen
    BY DEF Talk!ApplyLoaded, Talk!Show
  <1>2. s.msgs = <<>>
    BY DEF Talk!Shown
  <1>3. ScreenOk(s, Talk!OnChannel, acked)
    BY <1>2 DEF ScreenOk
  <1>4. /\ history \in Seq(Message)
        /\ \A i \in 1..Len(history) : Fair(history[i], Talk!OnChannel, acked)
    BY ChatParts
  <1> HIDE DEF s
  <1>5. ScreenOk(r, Talk!OnChannel, acked)
    BY <1>3, <1>4, HistoryKeepsScreen
  <1> HIDE DEF r
  <1>6. Talk!Shown'.msgs = r.msgs /\ Talk!Shown'.seen = r.seen
    BY <1>1 DEF Talk!Shown
  <1>7. ScreenOk(Talk!Shown', Talk!OnChannel, acked)
    BY <1>5, <1>6 DEF ScreenOk
  <1>8. OutInv'
    BY <1>1, ChatParts DEF OutInv
  <1>9. /\ history' \in Seq(Message)
        /\ \A i \in 1..Len(history') : Fair(history'[i], Talk!OnChannel, acked)
    BY <1>1
  <1> QED
    BY <1>1, <1>7, <1>8, <1>9, ChatParts, ChatFrame

\* addMessage and addOrUpdateOutgoing return screens.
LEMMA ScreensStay ==
  ASSUME NEW s, s = [msgs |-> s.msgs, seen |-> s.seen], NEW m
  PROVE  /\ LET r == Talk!addMessage(s, m) IN r = [msgs |-> r.msgs, seen |-> r.seen]
         /\ LET r == Talk!addOrUpdateOutgoing(s, m) IN r = [msgs |-> r.msgs, seen |-> r.seen]
  <1>1. LET r == Talk!addMessage(s, m) IN r = [msgs |-> r.msgs, seen |-> r.seen]
    BY DEF Talk!addMessage
  <1>2. LET r == Talk!addOrUpdateOutgoing(s, m) IN r = [msgs |-> r.msgs, seen |-> r.seen]
    BY <1>1 DEF Talk!addOrUpdateOutgoing
  <1> QED
    BY <1>1, <1>2

\* applyStream keeps the screen in order.
LEMMA StreamKeepsScreen ==
  ASSUME ChatInv, NEW ev \in Event, EventOk(ev, heard, acked)
  PROVE  ScreenOk(Talk!applyStream(Talk!Shown, ev), Talk!OnChannel, acked)
  <1> DEFINE s == Talk!Shown
             m == ev.message
             r == IF m = Talk!NoMsg THEN s
                  ELSE IF m.mine THEN Talk!addOrUpdateOutgoing(s, m)
                  ELSE Talk!addMessage(s, m)
  <1>1. ScreenOk(s, Talk!OnChannel, acked) /\ s = [msgs |-> s.msgs, seen |-> s.seen]
    BY ChatParts, ShownRecord
  <1>2. m \in Message
    BY DEF Event
  <1>3. \/ m = Talk!NoMsg
        \/ ~m.mine /\ Fair(m, Talk!OnChannel, acked)
        \/ m.mine /\ Fair(m, Talk!OnChannel, acked)
    <2>1. CASE m \in heard
      <3>1. ~m.mine /\ m.status = "" /\ Copy(m, Talk!OnChannel)
        BY <2>1 DEF ChatInv, HeardInv
      <3> QED
        BY <3>1 DEF Fair
    <2>2. CASE m.mine /\ m.status = "sent"
      BY <2>2 DEF Fair
    <2> QED
      BY <2>1, <2>2 DEF EventOk
  <1>4. Talk!applyStream(s, ev) = Talk!Acknowledge(r, ev.ack)
    BY DEF Talk!applyStream
  <1>5. ev.ack = 0 \/ ev.ack \in acked
    BY DEF EventOk
  <1> HIDE DEF s, m
  <1>6. ScreenOk(r, Talk!OnChannel, acked)
    <2>1. CASE m = Talk!NoMsg
      BY <1>1, <2>1
    <2>2. CASE m # Talk!NoMsg /\ m.mine
      BY <1>1, <1>2, <1>3, <2>2, OutgoingKeepsScreen
    <2>3. CASE m # Talk!NoMsg /\ ~m.mine
      BY <1>1, <1>2, <1>3, <2>3, AddKeepsScreen
    <2> QED
      BY <2>1, <2>2, <2>3
  <1>7. r = [msgs |-> r.msgs, seen |-> r.seen]
    <2>1. CASE m = Talk!NoMsg
      BY <1>1, <2>1
    <2>2. CASE m # Talk!NoMsg /\ m.mine
      BY <1>1, <2>2, ScreensStay
    <2>3. CASE m # Talk!NoMsg /\ ~m.mine
      BY <1>1, <2>3, ScreensStay
    <2> QED
      BY <2>1, <2>2, <2>3
  <1> HIDE DEF r
  <1> QED
    BY <1>4, <1>5, <1>6, <1>7, AcknowledgeKeepsScreen DEF s

\* An event of the stream is shown.
LEMMA ChatApplyStream ==
  ASSUME ChatInv, Talk!ApplyStream,
         UNCHANGED <<session, now, store, heard, feed, acked, ins, aired>>
  PROVE  ChatInv'
  <1> DEFINE r == Talk!applyStream(Talk!Shown, Head(ch))
  <1>1. /\ UNCHANGED <<sender, out, outs, history>>
        /\ ch # <<>> /\ ch' = Tail(ch)
        /\ msgs' = r.msgs /\ seen' = r.seen
    BY DEF Talk!ApplyStream, Talk!Show, Talk!loading
  <1>2. ch \in Seq(Event) /\ \A i \in 1..Len(ch) : EventOk(ch[i], heard, acked)
    BY ChatParts
  <1>3. /\ Tail(ch) \in Seq(Event) /\ Head(ch) \in Event
        /\ Head(ch) = ch[1] /\ 1 \in 1..Len(ch)
        /\ \A i \in 1..Len(Tail(ch)) : i + 1 \in 1..Len(ch) /\ Tail(ch)[i] = ch[i + 1]
    BY <1>1, <1>2, Tailed
  <1>4. EventOk(Head(ch), heard, acked)
    BY <1>2, <1>3
  <1>5. ScreenOk(r, Talk!OnChannel, acked)
    BY <1>3, <1>4, StreamKeepsScreen
  <1> HIDE DEF r
  <1>6. Talk!Shown'.msgs = r.msgs /\ Talk!Shown'.seen = r.seen
    BY <1>1 DEF Talk!Shown
  <1>7. ScreenOk(Talk!Shown', Talk!OnChannel, acked)
    BY <1>5, <1>6 DEF ScreenOk
  <1>8. OutInv'
    BY <1>1, ChatParts DEF OutInv
  <1>9. ch' \in Seq(Event) /\ \A i \in 1..Len(ch') : EventOk(ch'[i], heard, acked)
    BY <1>1, <1>2, <1>3
  <1> QED
    BY <1>1, <1>7, <1>8, <1>9, ChatParts, ChatFrame

\* The stream is closed, or the user quits.
LEMMA ChatIdle ==
  ASSUME ChatInv, Talk!ApplyClosed \/ Talk!Quit,
         UNCHANGED <<session, now, store, heard, acked, ins, feed, ch, aired>>
  PROVE  ChatInv'
  <1>1. UNCHANGED <<sender, out, outs, history, msgs, seen>>
    BY DEF Talk!ApplyClosed, Talk!Quit, Talk!loading, Talk!screen
  <1>2. ScreenOk(Talk!Shown', Talk!OnChannel, acked)
    BY <1>1, ChatParts DEF Talk!Shown
  <1> QED
    BY <1>1, <1>2, ChatScreen

\* A message is typed.
LEMMA ChatType ==
  ASSUME ChatInv, NEW t \in Texts, Talk!Type(t),
         UNCHANGED <<session, now, store, heard, acked, ins, feed, ch, aired>>
  PROVE  ChatInv'
  <1> DEFINE m == Talk!Ours(Talk!Trim(t), now, outs + 1)
             r == Talk!addMessage(Talk!Shown, m)
  <1>1. now \in Nat /\ outs \in Nat
    BY ChatParts
  <1>2. /\ outs' = outs + 1 /\ out' = m /\ history' = history /\ sender' = "queue"
        /\ msgs' = r.msgs /\ seen' = r.seen
    BY DEF Talk!Type, Talk!Show, Talk!loading
  <1>3. m \in Message /\ m.mine /\ m.status = "queued" /\ m.id = outs + 1
    <2>1. "queued" \in Statuses /\ TRUE \in BOOLEAN /\ outs + 1 \in Nat
      BY <1>1 DEF Statuses
    <2>0. Talk!Trim(t) \in Text /\ Talk!NoRaw \in Raw
      BY MCBackendAssumption DEF Text, Talk!Trim, Talk!NoRaw, Talk!NoText, Talk!NoTime, Raw
    <2>2. m \in Message
      BY <1>1, <2>0, <2>1 DEF Talk!Ours, Message
    <2>3. m.mine /\ m.status = "queued" /\ m.id = outs + 1
      BY DEF Talk!Ours
    <2> QED
      BY <2>2, <2>3
  <1> HIDE DEF m
  <1>4. Fair(m, Talk!OnChannel, acked)
    BY <1>3 DEF Fair
  <1>5. ScreenOk(r, Talk!OnChannel, acked)
    BY <1>3, <1>4, ChatParts, AddKeepsScreen
  <1> HIDE DEF r
  <1>6. Talk!Shown'.msgs = r.msgs /\ Talk!Shown'.seen = r.seen
    BY <1>2 DEF Talk!Shown
  <1>7. ScreenOk(Talk!Shown', Talk!OnChannel, acked)
    BY <1>5, <1>6 DEF ScreenOk
  <1>8. out' \in Message /\ out'.mine /\ out'.status = "queued" /\ out'.id = outs + 1
    BY <1>2, <1>3
  <1>9. OutInv'
    BY <1>1, <1>2, <1>8 DEF OutInv
  <1>10. outs' \in Nat
    BY <1>1, <1>2
  <1> QED
    BY <1>2, <1>7, <1>8, <1>9, <1>10, ChatParts, ChatFrame

\* The program learns how a send went.
LEMMA ChatApplySent ==
  ASSUME ChatInv, Talk!ApplySent,
         UNCHANGED <<session, now, store, heard, acked, ins, feed, ch, aired>>
  PROVE  ChatInv'
  <1> DEFINE r == IF sender = "failed" THEN Talk!setOutgoingStatus(Talk!Shown, out.text, "failed")
                  ELSE Talk!Shown
  <1>1. /\ UNCHANGED <<out, outs, history>> /\ sender' = "idle"
        /\ msgs' = r.msgs /\ seen' = r.seen
    BY DEF Talk!ApplySent, Talk!Show, Talk!loading
  <1>2. ScreenOk(r, Talk!OnChannel, acked)
    BY ChatParts, ShownRecord, StatusKeepsScreen
  <1> HIDE DEF r
  <1>3. Talk!Shown'.msgs = r.msgs /\ Talk!Shown'.seen = r.seen
    BY <1>1 DEF Talk!Shown
  <1>4. ScreenOk(Talk!Shown', Talk!OnChannel, acked)
    BY <1>2, <1>3 DEF ScreenOk
  <1>5. OutInv'
    BY <1>1, ChatParts DEF OutInv
  <1> QED
    BY <1>1, <1>4, <1>5, ChatParts, ChatFrame

\* The store takes messages of ours, or changes them.
LEMMA ChatStored ==
  ASSUME ChatInv, UNCHANGED <<session, heard, acked, ins, now, outs, feed, history, msgs, seen>>,
         ch' \in Seq(Event), \A i \in 1..Len(ch') : EventOk(ch'[i], heard, acked),
         out' \in Message, aired' \subseteq Nat \ {0}, OutInv',
         store' \in Seq(Message),
         \A i \in 1..Len(store) : /\ i \in 1..Len(store')
                                  /\ ~store[i].mine => store'[i] = store[i],
         \A i \in 1..Len(store') :
           \/ i \in 1..Len(store) /\ store'[i] = store[i]
           \/ store'[i].mine /\ store'[i].status # "delivered"
  PROVE  ChatInv'
  <1>1. Talk!OnChannel' = Talk!OnChannel
    BY DEF Talk!OnChannel
  <1>2. ChatTypes'
    BY DEF ChatInv, ChatTypes
  <1>3. HeardInv'
    BY <1>1 DEF ChatInv, HeardInv
  <1>4. StreamInv'
    BY DEF ChatInv, StreamInv
  <1>5. ASSUME NEW i \in 1..Len(store') PROVE Kept(store'[i], acked)
    BY ChatParts DEF Kept
  <1>6. StoreInv'
    BY <1>1, <1>5 DEF ChatInv, StoreInv
  <1>7. ScreenOk(Talk!Shown, Talk!OnChannel, acked)'
    BY <1>1 DEF ChatInv, Talk!Shown
  <1> QED
    BY <1>2, <1>3, <1>4, <1>6, <1>7 DEF ChatInv

\* The backend stores what was typed.
LEMMA ChatQueues ==
  ASSUME ChatInv, Talk!Queues,
         UNCHANGED <<session, now, heard, feed, acked, ins, history, msgs, seen, outs>>
  PROVE  ChatInv'
  <1> DEFINE m == [out EXCEPT !.sec = now]
  <1>1. /\ sender = "queue" /\ sender' = "radio" /\ UNCHANGED <<out, aired, ch>>
        /\ store' = IF Talk!HasStore THEN Append(store, m) ELSE store
    BY DEF Talk!Queues
  <1>2. OutInv /\ out \in Message /\ now \in Nat /\ store \in Seq(Message)
    BY ChatParts
  <1>3. m \in Message /\ m.mine = out.mine /\ m.status = out.status
    BY <1>2 DEF Message
  <1>4. m.mine /\ m.status # "delivered"
    BY <1>1, <1>2, <1>3 DEF OutInv
  <1>5. OutInv'
    BY <1>1, <1>2 DEF OutInv
  <1> HIDE DEF m
  <1>6. CASE Talk!HasStore
    <2>1. store' = Append(store, m)
      BY <1>1, <1>6
    <2>2. /\ store' \in Seq(Message)
          /\ store'[Len(store) + 1] = m
          /\ \A i \in 1..Len(store') :
               i = Len(store) + 1 \/ (i \in 1..Len(store) /\ store'[i] = store[i])
          /\ \A i \in 1..Len(store) : i \in 1..Len(store') /\ store'[i] = store[i]
      BY <1>2, <1>3, <2>1, Appended
    <2>3. \A i \in 1..Len(store') :
           \/ i \in 1..Len(store) /\ store'[i] = store[i]
           \/ store'[i].mine /\ store'[i].status # "delivered"
      BY <1>4, <2>2
    <2> QED
      BY <1>1, <1>5, <2>2, <2>3, ChatParts, ChatStored
  <1>7. CASE ~Talk!HasStore
    BY <1>1, <1>5, <1>7, ChatParts, ChatStored
  <1> QED
    BY <1>6, <1>7

\* The radio takes the message or refuses it.
LEMMA ChatRadio ==
  ASSUME ChatInv, Talk!Accepts \/ Talk!Refuses,
         UNCHANGED <<session, now, heard, feed, acked, ins, history, msgs, seen, outs>>
  PROVE  ChatInv'
  <1>1. OutInv /\ out \in Message /\ sender = "radio" /\ ch' = ch /\ store \in Seq(Message)
    BY ChatParts DEF Talk!Accepts, Talk!Refuses
  <1>2. out.mine /\ out.id \in Nat /\ out.id # 0
    BY <1>1 DEF OutInv, Message
  <1>3. ASSUME NEW st \in {"sent", "failed"}, NEW c \in Nat, Talk!Stored(st, c)
        PROVE  /\ store' \in Seq(Message)
               /\ \A i \in 1..Len(store) : /\ i \in 1..Len(store')
                                           /\ ~store[i].mine => store'[i] = store[i]
               /\ \A i \in 1..Len(store') :
                    \/ i \in 1..Len(store) /\ store'[i] = store[i]
                    \/ store'[i].mine /\ store'[i].status # "delivered"
    <2> DEFINE New(i) == IF store[i].mine /\ store[i].id = out.id
                         THEN [store[i] EXCEPT !.status = st, !.code = c] ELSE store[i]
    <2>1. store' = [i \in 1..Len(store) |-> New(i)]
      <3>1. DOMAIN store = 1..Len(store)
        BY <1>1
      <3> QED
        BY <1>3, <3>1 DEF Talk!Stored
    <2>2. ASSUME NEW i \in 1..Len(store)
          PROVE  /\ New(i) \in Message
                 /\ \/ New(i) = store[i]
                    \/ store[i].mine /\ New(i).mine /\ New(i).status # "delivered"
      <3> DEFINE w == [store[i] EXCEPT !.status = st, !.code = c]
      <3>1. store[i] \in Message /\ st \in Statuses /\ st # "delivered"
        <4>1. store[i] \in Message
          BY <1>1
        <4>2. st \in Statuses /\ st # "delivered"
          BY DEF Statuses
        <4> QED
          BY <4>1, <4>2
      <3>2. w \in Message /\ w.mine = store[i].mine /\ w.status = st
        BY <3>1, <1>3 DEF Message
      <3>3. New(i) = IF store[i].mine /\ store[i].id = out.id THEN w ELSE store[i]
        OBVIOUS
      <3> HIDE DEF w, New
      <3> QED
        BY <3>1, <3>2, <3>3
    <2> HIDE DEF New
    <2>3. /\ store' \in Seq(Message) /\ Len(store') = Len(store)
          /\ \A i \in 1..Len(store) : store'[i] = New(i)
      BY <1>1, <2>1, <2>2
    <2> QED
      BY <2>2, <2>3
  <1>4. CASE Talk!Accepts
    <2> DEFINE c == IF Talk!OnChannel THEN 0 ELSE out.id
    <2>1. /\ out' = [out EXCEPT !.status = "sent", !.code = c] /\ sender' = "echo"
          /\ Talk!Stored("sent", c)
          /\ aired' = IF Talk!OnChannel THEN aired ELSE aired \union {c}
      BY <1>4 DEF Talk!Accepts
    <2>2. c \in Nat /\ "sent" \in Statuses
      BY <1>2 DEF Statuses
    <2>3. out' \in Message /\ out'.mine = out.mine /\ out'.id = out.id /\ out'.status = "sent"
      <3> HIDE DEF c
      <3> QED
        BY <1>1, <2>1, <2>2 DEF Message
    <2>4. OutInv'
      BY <1>2, <2>1, <2>3 DEF OutInv
    <2>5. aired' \subseteq Nat \ {0}
      BY <1>2, <2>1, ChatParts
    <2> QED
      BY <1>1, <1>3, <2>1, <2>2, <2>3, <2>4, <2>5, ChatParts, ChatStored
  <1>5. CASE Talk!Refuses
    <2>1. Talk!Stored("failed", 0) /\ sender' = "failed" /\ UNCHANGED <<out, aired>>
      BY <1>5 DEF Talk!Refuses
    <2>2. OutInv'
      BY <1>1, <2>1 DEF OutInv
    <2> QED
      BY <1>1, <1>3, <2>1, <2>2, ChatParts, ChatStored
  <1> QED
    BY <1>4, <1>5

\* The message sent is echoed.
LEMMA ChatEcho ==
  ASSUME ChatInv, Talk!Echo,
         UNCHANGED <<session, now, heard, feed, acked, ins, history, msgs, seen, outs>>
  PROVE  ChatInv'
  <1> DEFINE m == [out EXCEPT !.sec = now]
             ev == [message |-> m, ack |-> 0]
  <1>1. /\ sender = "echo" /\ sender' = "ok" /\ UNCHANGED <<out, aired, store>>
        /\ ch' = ch \/ Talk!push(ev)
    BY DEF Talk!Echo
  <1>2. OutInv /\ out \in Message /\ now \in Nat
    BY ChatParts
  <1>3. m \in Message /\ m.mine = out.mine /\ m.status = out.status
    BY <1>2 DEF Message
  <1>4. m.mine /\ m.status = "sent"
    BY <1>1, <1>2, <1>3 DEF OutInv
  <1> HIDE DEF m
  <1>5. ev \in Event /\ EventOk(ev, heard, acked)
    BY <1>3, <1>4 DEF Event, EventOk
  <1> HIDE DEF ev
  <1>6. ch' \in Seq(Event) /\ \A i \in 1..Len(ch') : EventOk(ch'[i], heard, acked)
    BY <1>1, <1>5, Pushed, ChatParts
  <1>7. OutInv'
    BY <1>1, <1>2 DEF OutInv
  <1>8. ScreenOk(Talk!Shown', Talk!OnChannel, acked)
    BY ChatParts DEF Talk!Shown
  <1> QED
    BY <1>1, <1>6, <1>7, <1>8, ChatParts, ChatFrame

\* The inductive step.
LEMMA StepChatInv ==
  ASSUME ChatInv, [Talk!Next]_(Talk!vars)
  PROVE  ChatInv'
  <1> USE DEF Talk!backend, Talk!stream, Talk!loading, Talk!screen
  <1>1. CASE UNCHANGED Talk!vars
    <2>1. UNCHANGED <<session, store, heard, acked, ins, now, outs, feed, ch, out, aired,
                      sender, history, msgs, seen>>
      BY <1>1 DEF Talk!vars
    <2>2. ScreenOk(Talk!Shown', Talk!OnChannel, acked)
      BY <2>1, ChatParts DEF Talk!Shown
    <2> QED
      BY <2>1, <2>2, ChatScreen
  <1>2. CASE Talk!Outside
    BY <1>2, ChatReceive, ChatConfirm, ChatTick DEF Talk!Outside
  <1>3. CASE Talk!Watching
    BY <1>3, ChatWatch DEF Talk!Watching
  <1>4. CASE Talk!Sending
    BY <1>4, ChatQueues, ChatRadio, ChatEcho DEF Talk!Sending
  <1>5. CASE Talk!Update
    BY <1>5, ChatType, ChatApplySent, ChatIdle, ChatApplyLoaded, ChatLoad DEF Talk!Update
  <1>6. CASE Talk!Quit
    BY <1>6, ChatIdle DEF Talk!Quit
  <1>7. CASE Talk!ApplyStream /\ UNCHANGED <<Talk!backend, aired>>
    BY <1>7, ChatApplyStream
  <1> QED
    BY <1>1, <1>2, <1>3, <1>4, <1>5, <1>6, <1>7 DEF Talk!Next

\* No received message whose stored and streamed copies agree is on the screen
\* twice, and a message marked delivered carries a code the mesh has confirmed,
\* for any texts, any stream and any number of messages (chatMessageFromRecord,
\* incomingChannelMessage, addMessage, addOrUpdateOutgoing, setOutgoingStatus,
\* applyStream).
THEOREM HonestScreen == MCSpec => []ScreenIsHonest
  <1>1. MCInit => ChatInv
    <2> SUFFICES ASSUME Talk!Init PROVE ChatInv
      BY DEF MCInit
    <2>1. /\ now = 1 /\ ins = 0 /\ outs = 0
          /\ store = <<>> \/ \E t \in Texts : store = <<Talk!Record([text |-> t, sec |-> now])>>
          /\ history = <<>> /\ feed = <<>> /\ ch = <<>> /\ heard = {} /\ out = Talk!NoMsg
          /\ aired = {} /\ msgs = <<>> /\ seen = {} /\ sender = "idle"
      BY DEF Talk!Init
    <2>3. store \in Seq(Message) /\ \A i \in 1..Len(store) : Kept(store[i], acked)
      <3>1. CASE store = <<>>
        BY <3>1
      <3>2. CASE \E t \in Texts : store = <<Talk!Record([text |-> t, sec |-> now])>>
        <4>1. PICK t \in Texts : store = <<Talk!Record([text |-> t, sec |-> now])>>
          BY <3>2
        <4> DEFINE old == Talk!Record([text |-> t, sec |-> now])
        <4>2. t \in Text /\ now \in Nat
          BY <2>1, MCBackendAssumption DEF Text
        <4>3. old \in Message /\ Row(old)
          BY <4>2, ReceivedCopies
        <4> HIDE DEF old
        <4>4. store = <<old>>
          BY <4>1 DEF old
        <4>5. Kept(old, acked)
          BY <4>3 DEF Kept, Row
        <4> QED
          BY <4>3, <4>4, <4>5
      <3> QED
        BY <2>1, <3>1, <3>2
    <2>4. ChatTypes
      BY <2>1, <2>3, NoMessage DEF ChatTypes
    <2>6. HeardInv
      BY <2>1 DEF HeardInv
    <2>8. StoreInv /\ StreamInv
      BY <2>1, <2>3 DEF StoreInv, StreamInv
    <2>9. OutInv
      BY <2>1 DEF OutInv, Talk!NoMsg, Talk!Theirs
    <2>10. ScreenOk(Talk!Shown, Talk!OnChannel, acked)
      BY <2>1 DEF ScreenOk, Talk!Shown
    <2> QED
      BY <2>4, <2>6, <2>8, <2>9, <2>10 DEF ChatInv
  <1>2. ChatInv /\ [MCNext]_mcVars => ChatInv'
    <2> SUFFICES ASSUME ChatInv, [MCNext]_mcVars PROVE ChatInv'
      OBVIOUS
    <2>1. [Talk!Next]_(Talk!vars)
      BY DEF MCNext, mcVars, talkVars, Talk!vars, Talk!backend, Talk!stream,
             Talk!loading, Talk!screen
    <2> QED
      BY <2>1, StepChatInv
  <1>3. ChatInv => ScreenIsHonest
    <2> SUFFICES ASSUME ChatInv PROVE Talk!ScreenIsHonest
      BY DEF ScreenIsHonest
    <2>1. msgs \in Seq(Message) /\ DOMAIN msgs = 1..Len(msgs)
      BY ChatParts, ShownRecord DEF ScreenOk
    <2>2. /\ \A i \in 1..Len(msgs) : Fair(msgs[i], Talk!OnChannel, acked)
          /\ \A i, j \in 1..Len(msgs) :
               ~msgs[i].mine /\ ~msgs[j].mine /\ Talk!Key(msgs[i]) = Talk!Key(msgs[j]) => i = j
      BY ChatParts, ShownRecord DEF ScreenOk
    <2>3. ASSUME NEW i \in 1..Len(msgs), NEW j \in 1..Len(msgs), ~msgs[i].mine, ~msgs[j].mine,
                 msgs[i].raw = msgs[j].raw, Talk!Plain(msgs[i].raw)
          PROVE  i = j
      <3>1. Copy(msgs[i], Talk!OnChannel) /\ Copy(msgs[j], Talk!OnChannel)
        BY <2>2, <2>3 DEF Fair
      <3>2. msgs[i].sec = msgs[j].sec /\ msgs[i].text = msgs[j].text
        BY <2>3, <3>1 DEF Copy, Talk!Plain, Talk!NoTime
      <3>3. Talk!Key(msgs[i]) = Talk!Key(msgs[j])
        <4>1. msgs[i].mine \in BOOLEAN /\ msgs[j].mine \in BOOLEAN
          <5>1. msgs[i] \in Message /\ msgs[j] \in Message
            BY <2>1
          <5> QED
            BY <5>1 DEF Message
        <4>2. msgs[i].mine = msgs[j].mine
          BY <2>3, <4>1, Zenon
        <4> QED
          BY <3>2, <4>2 DEF Talk!Key
      <3> QED
        BY <2>2, <2>3, <3>3
    <2>4. \A i \in 1..Len(msgs) : msgs[i].status = "delivered" => msgs[i].code \in acked
      BY <2>2 DEF Fair
    <2> QED
      BY <2>1, <2>3, <2>4 DEF Talk!ScreenIsHonest, Talk!Incoming
  <1> QED
    BY <1>1, <1>2, <1>3, PTL DEF MCSpec
=============================================================================
