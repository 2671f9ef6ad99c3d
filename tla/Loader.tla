------------------------------- MODULE Loader -------------------------------
(***************************************************************************)
(* rosetta_loader: a process that becomes the program (P) and a debugger   *)
(* (G) that attaches to it across its exec, plants two breakpoints in      *)
(* Rosetta's runtime, maps the x87 stub, swaps the exports it is about to  *)
(* use for those of the stub, and detaches.  An intermediate child (C)     *)
(* orphans the debugger.                                                   *)
(*                                                                         *)
(* The kernel is modelled from how the loader uses it: a stop of the       *)
(* traced program is a message on the debugger's exception port, and the   *)
(* program stays stopped until the message is answered.  A tracer that     *)
(* dies takes its tracee with it.                                          *)
(***************************************************************************)
EXTENDS Naturals, FiniteSets

CONSTANTS
    Dies,       \* steps of G that may fail, or at which G may be killed
    Timeouts,   \* waits whose time-out main does not look at, that may time out
    MaxSignals  \* signals other processes send to P
ASSUME SignalsAssumption == MaxSignals \in Nat

VARIABLES
    c,          \* C: "alive" or "gone"
    g,          \* G: its next step, "unborn" or "gone"
    p,          \* P: "read", "exec", "init", "fetch", "main"; "svc", "svcret" when diverted
    run,        \* P: "running", "stopped", "hung", "killed", "trapped"
    byte,       \* the pipe holds the byte
    writers,    \* processes with the write end open
    traced,
    pending,    \* signals P has not taken
    sent,       \* number of signals sent by others
    msg,        \* the stop message on the exception port, or "none"
    held,       \* haveHeld_, and what it holds: a message received and not answered
    soft,       \* who gets EXC_SOFTWARE of P's task: "none" or "ours"
    saved,      \* savedPorts_, or "unset"
    armed,      \* the thread's EXC_BREAKPOINT goes to our port
    brk, seen,  \* breakpoints in memory, and those an instruction fetch sees
    backup,     \* backupThreadState: where the thread was
    x19,        \* whose exports the runtime is about to fetch
    image       \* what has been written into P
vars == <<c, g, p, run, byte, writers, traced, pending, sent, msg, held, soft,
          saved, armed, brk, seen, backup, x19, image>>
Gs == <<held, soft, saved, armed, brk, seen, backup, x19, image>>
Ps == <<p, run, traced, pending, msg>>
Others == <<c, byte, writers, sent>>

Stub == {"scrubbed", "patched", "copied", "rebased", "protected", "filled"}
Alive == run \in {"running", "stopped", "hung"}

Init ==
    /\ c = "alive" /\ g = "unborn" /\ p = "read" /\ run = "running"
    /\ byte = FALSE /\ writers = {"C"} /\ traced = FALSE
    /\ pending = {} /\ sent = 0 /\ msg = "none" /\ held = "none"
    /\ soft = "none" /\ saved = "unset" /\ armed = FALSE
    /\ brk = {} /\ seen = {} /\ backup = "none" /\ x19 = "theirs" /\ image = {}

(***************************************************************************)
(* The intermediate child.                                                 *)
(***************************************************************************)
Fork ==
    /\ c = "alive" /\ g = "unborn"
    /\ \/ g' = "orphan" /\ writers' = writers \cup {"G"} /\ UNCHANGED c
       \/ "fork" \in Dies /\ g' = "gone" /\ c' = "gone" /\ writers' = {}
    /\ UNCHANGED <<byte, sent, Ps, Gs>>
ExitC ==
    /\ c = "alive" /\ g # "unborn"
    /\ c' = "gone" /\ writers' = writers \ {"C"}
    /\ UNCHANGED <<g, byte, sent, Ps, Gs>>

(***************************************************************************)
(* P: the read of the pipe ends with the byte, at its end, or interrupted  *)
(* by a stop; then exec, and the program.                                  *)
(***************************************************************************)
Ready == run = "running" /\ pending = {}
Read ==
    /\ Ready /\ p = "read" /\ (byte \/ writers = {})
    /\ p' = "exec"
    /\ UNCHANGED <<run, traced, pending, msg, g, Gs, Others>>

\* The exec of a traced process stops it; its exception ports may be reset.
Exec ==
    /\ Ready /\ p = "exec" /\ p' = "init"
    /\ IF traced THEN run' = "stopped" /\ msg' = "SIGTRAP" /\ soft' \in {soft, "none"}
       ELSE UNCHANGED <<run, msg, soft>>
    /\ UNCHANGED <<traced, pending, g, held, saved, armed, brk, seen, backup, x19, image, Others>>

\* One instruction: a breakpoint goes to the thread's port, or is fatal.
Onwards == [x \in {"init", "fetch", "svc", "svcret"} |->
             CASE x = "init" -> "fetch" [] x = "svc" -> "svcret" [] OTHER -> "main"]
Run ==
    /\ Ready /\ p \in DOMAIN Onwards
    /\ IF p \in seen
       THEN /\ IF armed THEN run' = "stopped" /\ msg' = "brk" ELSE run' = "trapped" /\ UNCHANGED msg
            /\ UNCHANGED p
       ELSE p' = Onwards[p] /\ UNCHANGED <<run, msg>>
    /\ UNCHANGED <<traced, pending, g, Gs, Others>>

Signal ==
    /\ sent < MaxSignals /\ Alive /\ pending' = pending \cup {"other"} /\ sent' = sent + 1
    /\ UNCHANGED <<p, run, traced, msg, g, Gs, c, byte, writers>>

\* A signal is taken: a stop for the tracer, else its default action.
Take ==
    /\ run = "running"
    /\ \E s \in pending :
        /\ pending' = pending \ {s}
        /\ \/ /\ traced /\ soft = "ours"
              /\ run' = "stopped" /\ msg' = s
           \/ /\ ~(traced /\ soft = "ours")
              /\ run' = IF s = "SIGSTOP" THEN "hung" ELSE run
              /\ UNCHANGED msg
    /\ UNCHANGED <<p, traced, g, Gs, Others>>

(***************************************************************************)
(* MachExceptionSession.                                                   *)
(***************************************************************************)
\* waitForEvent, which leaves the message unanswered.
Receive(ms) == msg \in ms /\ held' = msg /\ msg' = "none"
\* reply(0): the thread goes on, without the signal.  A read it was stopped
\* in may end early.
Resumed == run' = "running" /\ p' \in IF p = "read" THEN {"read", "exec"} ELSE {p}
Reply ==
    /\ IF held = "none" THEN UNCHANGED <<held, run, p>> ELSE held' = "none" /\ Resumed
    /\ UNCHANGED <<traced, pending, msg, soft, saved, armed, brk, seen, backup, x19, image, Others>>

\* swapPorts remembers the previous owner.  A port that exec left in place is
\* not swapped again.
swapPorts == soft' = "ours" /\ saved' = soft
MUT_reinstall == swapPorts
reinstall == IF soft = "ours" THEN UNCHANGED <<soft, saved>> ELSE swapPorts
restoreAndTearDown ==
    /\ armed' = FALSE
    /\ soft' = IF saved # "unset" /\ soft = "ours" THEN saved ELSE soft
    /\ saved' = "unset"

(***************************************************************************)
(* G: what main does, step by step.                                        *)
(***************************************************************************)
MUT_After ==
    [orphan |-> "install", install |-> "signal", signal |-> "attach", attach |-> "attached",
     attached |-> "resume", resume |-> "execwait", execwait |-> "reinstall",
     reinstall |-> "scrub", scrub |-> "scan", scan |-> "patch", patch |-> "arm1",
     arm1 |-> "plant1", plant1 |-> "go1", go1 |-> "wait1", wait1 |-> "unplant1",
     unplant1 |-> "disarm1", disarm1 |-> "macho", macho |-> "divert", divert |-> "arm2",
     arm2 |-> "plant2", plant2 |-> "go2", go2 |-> "wait2", wait2 |-> "unplant2",
     unplant2 |-> "disarm2", disarm2 |-> "restore", restore |-> "copy", copy |-> "rebase",
     rebase |-> "protect", protect |-> "fill", fill |-> "swap", swap |-> "stop",
     stop |-> "run_on", run_on |-> "stopwait", stopwait |-> "teardown",
     teardown |-> "detach", detach |-> "release", release |-> "watch"]
After ==
    [orphan |-> "install", install |-> "attach", attach |-> "attached", attached |-> "signal",
     signal |-> "resume", resume |-> "execwait", execwait |-> "reinstall",
     reinstall |-> "scrub", scrub |-> "scan", scan |-> "patch", patch |-> "arm1",
     arm1 |-> "plant1", plant1 |-> "go1", go1 |-> "wait1", wait1 |-> "unplant1",
     unplant1 |-> "disarm1", disarm1 |-> "macho", macho |-> "divert", divert |-> "arm2",
     arm2 |-> "plant2", plant2 |-> "go2", go2 |-> "wait2", wait2 |-> "unplant2",
     unplant2 |-> "disarm2", disarm2 |-> "restore", restore |-> "copy", copy |-> "rebase",
     rebase |-> "protect", protect |-> "fill", fill |-> "swap", swap |-> "stop",
     stop |-> "run_on", run_on |-> "stopwait", stopwait |-> "teardown",
     teardown |-> "detach", detach |-> "release", release |-> "watch"]
Steps == DOMAIN After
At(x) == g = x /\ g' = After[x]

\* G is orphaned before it attaches.
Orphan == At("orphan") /\ c = "gone" /\ UNCHANGED <<Ps, Gs, Others>>
Install ==
    /\ At("install") /\ swapPorts
    /\ UNCHANGED <<held, armed, brk, seen, backup, x19, image, Ps, Others>>
Attach ==
    /\ At("attach") /\ traced' = TRUE /\ pending' = pending \cup {"SIGSTOP"}
    /\ UNCHANGED <<p, run, msg, Gs, Others>>
SignalParent ==
    /\ At("signal") /\ byte' = TRUE /\ writers' = writers \ {"G"}
    /\ UNCHANGED <<c, sent, Ps, Gs>>
Reinstall ==
    /\ At("reinstall") /\ reinstall
    /\ UNCHANGED <<held, armed, brk, seen, backup, x19, image, Ps, Others>>
Resume == \E x \in {"resume", "go1", "go2", "run_on"} : At(x) /\ Reply

\* waitForStopped: signals other than the expected one are suppressed; the
\* stop of the attach takes the first that comes.
Suppress == msg' = "none" /\ Resumed /\ UNCHANGED <<g, held>>
Expected == [attached |-> {"SIGSTOP", "SIGTRAP", "other"}, execwait |-> {"SIGTRAP"}, stopwait |-> {"SIGSTOP"}]
waitForStopped ==
    /\ g \in DOMAIN Expected
    /\ \/ Receive(Expected[g] \cup {"brk"}) /\ At(g) /\ UNCHANGED <<run, p>>
       \/ msg \notin Expected[g] \cup {"brk", "none"} /\ Suppress
    /\ UNCHANGED <<traced, pending, soft, saved, armed, brk, seen, backup, x19, image, Others>>
MUT_waitForBreakpoint ==
    /\ g \in {"wait1", "wait2"}
    /\ Receive({"brk", "other"}) /\ At(g) /\ UNCHANGED <<run, p>>
    /\ UNCHANGED <<traced, pending, soft, saved, armed, brk, seen, backup, x19, image, Others>>
waitForBreakpoint ==
    /\ g \in {"wait1", "wait2"}
    /\ \/ Receive({"brk"}) /\ At(g) /\ UNCHANGED <<run, p>>
       \/ msg \notin {"brk", "none"} /\ Suppress
    /\ UNCHANGED <<traced, pending, soft, saved, armed, brk, seen, backup, x19, image, Others>>

\* main goes on whether the breakpoint was reached or not, and whether detach
\* reached its SIGSTOP or not.
TimeOut ==
    /\ g \in Timeouts /\ msg = "none"
    /\ \/ g \in {"wait1", "wait2"} /\ At(g)
       \/ g = "stopwait" /\ g' = "watch"
    /\ UNCHANGED <<Ps, Gs, Others>>

\* writeMemory of an instruction, and the flush that makes a fetch see it.
MUT_writeMemory(bs) == brk' = bs /\ seen' = seen \cup bs
writeMemory(bs) == brk' = bs /\ seen' = bs
SetBreakpoint ==
    /\ \/ At("plant1") /\ writeMemory(brk \cup {"fetch"})
       \/ At("plant2") /\ writeMemory(brk \cup {"svcret"})
       \/ At("unplant1") /\ writeMemory(brk \ {"fetch"})
       \/ At("unplant2") /\ writeMemory(brk \ {"svcret"})
    /\ UNCHANGED <<held, soft, saved, armed, backup, x19, image, Ps, Others>>
\* The thread armed is that of the last stop; without one the arming fails.
ArmThread ==
    /\ \/ \E x \in {"arm1", "arm2"} : At(x) /\ held # "none" /\ armed' = TRUE
       \/ \E x \in {"disarm1", "disarm2"} : At(x) /\ armed' = FALSE
    /\ UNCHANGED <<held, soft, saved, brk, seen, backup, x19, image, Ps, Others>>

\* The thread is sent through the runtime's mmap call and back.
Divert ==
    /\ \/ At("divert") /\ backup' = p /\ p' = "svc"
       \/ At("restore") /\ p' = backup /\ UNCHANGED backup
    /\ UNCHANGED <<run, traced, pending, msg, held, soft, saved, armed, brk, seen, x19, image, Others>>

\* What is read for and written into P: the environment and the runtime, then
\* the stub.  Copying a segment overwrites rebased pointers, and protected pages
\* take no more writes.
Look == (At("scan") \/ At("macho")) /\ UNCHANGED <<Ps, Gs, Others>>
Patch ==
    /\ \/ At("scrub") /\ image' = image \cup {"scrubbed"}
       \/ At("patch") /\ image' = image \cup {"patched"}
    /\ UNCHANGED <<held, soft, saved, armed, brk, seen, backup, x19, Ps, Others>>
MUT_MapStub ==
    /\ \/ At("copy") /\ image' = image \cup {"copied", "protected"}
       \/ At("rebase") /\ image' = IF "protected" \in image THEN image ELSE image \cup {"rebased"}
       \/ At("protect") /\ image' = image \cup {"protected"}
    /\ UNCHANGED <<held, soft, saved, armed, brk, seen, backup, x19, Ps, Others>>
MapStub ==
    /\ \/ At("copy") /\ image' = IF "protected" \in image THEN image ELSE (image \ {"rebased"}) \cup {"copied"}
       \/ At("rebase") /\ image' = IF "protected" \in image THEN image ELSE image \cup {"rebased"}
       \/ At("protect") /\ image' = image \cup {"protected"}
    /\ UNCHANGED <<held, soft, saved, armed, brk, seen, backup, x19, Ps, Others>>
\* Offsets, configuration, exports and imports go to the stub's data.
FillData ==
    /\ At("fill") /\ image' = image \cup {"filled"}
    /\ UNCHANGED <<held, soft, saved, armed, brk, seen, backup, x19, Ps, Others>>
SwapExports ==
    /\ At("swap") /\ x19' = "ours"
    /\ UNCHANGED <<held, soft, saved, armed, brk, seen, backup, image, Ps, Others>>

\* detach: PT_DETACH takes a tracee held in a SIGSTOP and nothing else.
Stop ==
    /\ At("stop") /\ pending' = pending \cup {"SIGSTOP"}
    /\ UNCHANGED <<p, run, traced, msg, Gs, Others>>
TearDown ==
    /\ At("teardown") /\ restoreAndTearDown
    /\ UNCHANGED <<held, brk, seen, backup, x19, image, Ps, Others>>
MUT_Detach ==
    /\ At("detach") /\ traced' = FALSE /\ held' = "none" /\ run' = run
    /\ UNCHANGED <<p, pending, msg, soft, saved, armed, brk, seen, backup, x19, image, Others>>
Detach ==
    /\ At("detach") /\ traced' = (traced /\ held # "SIGSTOP")
    /\ UNCHANGED <<p, run, pending, msg, Gs, Others>>
Release == At("release") /\ Reply

\* G gives up at a step it checks, or is killed: its tracee is killed, and a
\* stop nobody will answer any more ends.
Die ==
    /\ g \in Dies \cap Steps \/ (g = "arm2" /\ held = "none")
    /\ g' = "gone"
    /\ writers' = writers \ {"G"} /\ held' = "none" /\ restoreAndTearDown
    /\ run' = IF traced /\ Alive THEN "killed" ELSE IF run = "stopped" THEN "running" ELSE run
    /\ msg' = "none" /\ traced' = FALSE
    /\ UNCHANGED <<p, pending, brk, seen, backup, x19, image, c, byte, sent>>

Debugger ==
    \/ Orphan \/ Install \/ Attach \/ SignalParent \/ Resume \/ waitForStopped \/ Reinstall
    \/ waitForBreakpoint \/ TimeOut \/ SetBreakpoint \/ ArmThread \/ Divert \/ Look \/ Patch
    \/ MapStub \/ FillData \/ SwapExports \/ Stop \/ TearDown \/ Detach \/ Release
Program == Read \/ Exec \/ Run
Next == Fork \/ ExitC \/ Program \/ Signal \/ Take \/ Debugger \/ Die

\* The processes are scheduled and the kernel delivers; nothing has to fail.
Fairness ==
    /\ WF_vars(Fork) /\ WF_vars(ExitC)
    /\ WF_vars(Program) /\ WF_vars(Take) /\ WF_vars(Debugger)
Spec == Init /\ [][Next]_vars /\ Fairness

(***************************************************************************)
(* Properties.                                                             *)
(***************************************************************************)
Stops == {"SIGSTOP", "SIGTRAP", "other", "brk"}
\* P is stopped exactly while one stop message is on the port or held by the
\* debugger: never two, and none is lost (until G is gone).
TypeOK ==
    /\ c \in {"alive", "gone"} /\ g \in Steps \cup {"unborn", "watch", "gone"}
    /\ p \in {"read", "exec", "main"} \cup DOMAIN Onwards
    /\ run \in {"running", "stopped", "hung", "killed", "trapped"}
    /\ byte \in BOOLEAN /\ traced \in BOOLEAN /\ armed \in BOOLEAN
    /\ writers \subseteq {"C", "G"} /\ pending \subseteq {"SIGSTOP", "other"} /\ sent \in 0..MaxSignals
    /\ soft \in {"none", "ours"} /\ saved \in {"none", "ours", "unset"}
    /\ brk \subseteq DOMAIN Onwards /\ seen \subseteq DOMAIN Onwards
    /\ backup \in {"none"} \cup DOMAIN Onwards /\ x19 \in {"theirs", "ours"} /\ image \subseteq Stub
    /\ {msg, held} \in {{"none"}} \cup {{"none", s} : s \in Stops}
    /\ (run = "stopped") <=> (msg # held)

\* P never runs the program before the debugger has attached, unless there is
\* no debugger: the byte is written after the attach stop, and end of file
\* means that no process can still attach (main's pipe and read).
ExecCaught == p \notin {"read", "exec"} /\ ~traced => g \in {"release", "watch", "gone"}

\* P is not killed by a breakpoint: each one planted is met while our port is
\* armed, and is gone from memory and from the instruction cache before the
\* thread meets it again (the exit=133 flake of the comments).
NoStrayTrap == run # "trapped"

\* From the breakpoint to the detach P is stopped at it, its reply held, while
\* its memory and its thread are rewritten.
Patching ==
    [fetch  |-> {"unplant1", "disarm1", "macho", "divert", "copy", "rebase", "protect", "fill", "swap", "stop"},
     svc    |-> {"arm2", "plant2", "go2"},
     svcret |-> {"unplant2", "disarm2", "restore"}]
StoppedWhilePatched ==
    \A a \in DOMAIN Patching : g \in Patching[a] => run = "stopped" /\ held = "brk" /\ p = a

\* When the debugger has finished or is gone, a program that lives is free: it
\* is not traced or stopped, and no breakpoint and no port of ours is left.
CleanHandover ==
    g \in {"watch", "gone"} /\ Alive =>
        /\ ~traced /\ run = "running" /\ ~armed /\ soft # "ours"
        /\ brk = {} /\ seen = {} /\ p \notin {"svc", "svcret"}

\* The launch keeps the promise of Launch: untouched, with the whole stub, or
\* killed before it starts, and it comes to one of these.
Outcome ==
    CASE run = "killed" -> "killed"
      [] run = "running" /\ p = "main" /\ ~traced ->
            IF image = {} /\ x19 = "theirs" THEN "stock"
            ELSE IF image = Stub /\ x19 = "ours" THEN "accelerated" ELSE "broken"
      [] OTHER -> "waiting"
Promise == INSTANCE Launch WITH outcome <- Outcome
OneOutcome == Promise!Spec

\* Unless the debugger gives up or is killed, the program starts with the stub.
Accelerates == <>(g = "gone" \/ Outcome = "accelerated")
=============================================================================
