---------------------------- MODULE LoaderProofs ----------------------------
(***************************************************************************)
(* The launch protocol, whatever steps of the debugger may fail and        *)
(* however many signals others send.  Timeouts = {} is a hypothesis of the *)
(* theorems: with it no wait that main does not look at runs out of time.  *)
(***************************************************************************)
EXTENDS Loader, TLAPS

(***************************************************************************)
(* The debugger's steps by what it holds.                                  *)
(***************************************************************************)
Before == {"unborn", "orphan", "install", "attach"}
AttachStop == {"signal", "resume"}
ExecStop == {"reinstall", "scrub", "scan", "patch", "arm1", "plant1", "go1"}
AtFetch == {"unplant1", "disarm1", "macho", "divert"}
AtSvc == {"arm2", "plant2", "go2"}
AtSvcRet == {"unplant2", "disarm2", "restore"}
Back == {"copy", "rebase", "protect", "fill", "swap", "stop", "run_on"}
DetachStop == {"teardown", "detach", "release"}
Waits == {"attached", "execwait", "wait1", "wait2", "stopwait"}
Done == {"watch", "gone"}
Holding == AttachStop \cup ExecStop \cup AtFetch \cup AtSvc \cup AtSvcRet \cup Back \cup DetachStop

Types ==
    /\ c \in {"alive", "gone"} /\ g \in Before \cup Holding \cup Waits \cup Done
    /\ byte \in BOOLEAN /\ traced \in BOOLEAN /\ armed \in BOOLEAN
    /\ writers \subseteq {"C", "G"} /\ pending \subseteq {"SIGSTOP", "other"} /\ sent \in 0..MaxSignals

\* Every stop is held or on the port, and which one is known.
Stopped ==
    /\ g \in AttachStop => held \in {"SIGSTOP", "other"}
    /\ g \in ExecStop => held = "SIGTRAP"
    /\ g \in AtFetch \cup AtSvc \cup AtSvcRet \cup Back => held = "brk"
    /\ g \in DetachStop => held = "SIGSTOP"
    /\ g \notin Holding => held = "none"
    /\ g \in Holding => run = "stopped"
    /\ g \notin Waits => msg = "none"
    /\ g \in Before \cup {"watch"} => run = "running"
    /\ g = "gone" => run \in {"running", "killed"}
    /\ g \in Waits => run \in {"running", "stopped"} /\ (run = "stopped" <=> msg # "none")
    /\ g = "attached" => msg \in {"none", "SIGSTOP", "other"}
    /\ g = "execwait" => msg \in {"none", "SIGSTOP", "other", "SIGTRAP"} /\ (msg = "SIGTRAP" <=> p = "init")
    /\ g = "wait1" => msg \in {"none", "other", "brk"} /\ (msg = "brk" => p = "fetch")
    /\ g = "wait2" => msg \in {"none", "other", "brk"} /\ (msg = "brk" => p = "svcret")
    /\ g = "stopwait" => msg \in {"none", "other", "SIGSTOP"}

\* Where the program is.
Place ==
    /\ g \in Before \cup AttachStop \cup {"attached"} => p = "read"
    /\ g = "execwait" => p \in {"read", "exec", "init"}
    /\ g \in ExecStop => p = "init"
    /\ g = "wait1" => p \in {"init", "fetch"}
    /\ g \in AtFetch \cup Back \cup DetachStop \cup {"stopwait"} => p = "fetch"
    /\ g \in AtSvc => p = "svc"
    /\ g = "wait2" => p \in {"svc", "svcret"}
    /\ g \in AtSvcRet => p = "svcret"
    /\ g = "watch" => p \in {"fetch", "main"}
    /\ g = "gone" => p \in {"read", "exec", "init", "fetch", "main", "svc", "svcret"}
    /\ g = "gone" /\ run = "running" => p \in {"read", "exec", "init", "fetch", "main"}
    /\ backup \in {"none", "fetch"} /\ (g \in AtSvc \cup AtSvcRet \cup {"wait2"} => backup = "fetch")

\* A SIGSTOP is pending only where its stop is awaited.
Signals ==
    /\ "SIGSTOP" \in pending =>
          \/ g \in {"attached", "signal", "resume"}
          \/ g = "execwait" /\ p # "init"
          \/ g \in {"run_on", "stopwait"}
          \/ run = "killed"
    /\ g = "run_on" => "SIGSTOP" \in pending
    /\ g = "stopwait" => ("SIGSTOP" \in pending <=> msg # "SIGSTOP")

Unported == {"unborn", "orphan", "install", "detach", "release", "watch", "gone"}
Ports ==
    /\ soft \in {"none", "ours"}
    /\ saved = IF g \in Unported THEN "unset" ELSE "none"
    /\ g \in Unported => soft = "none"
    /\ g \notin Unported \cup {"execwait", "reinstall"} => soft = "ours"
    /\ g = "execwait" /\ p # "init" => soft = "ours"

Tracing == traced <=> g \notin Before \cup Done \cup {"release"}

Planted == IF g \in {"go1", "wait1", "unplant1"} THEN {"fetch"}
           ELSE IF g \in {"go2", "wait2", "unplant2"} THEN {"svcret"} ELSE {}
Arming == {"plant1", "go1", "wait1", "unplant1", "disarm1", "plant2", "go2", "wait2", "unplant2", "disarm2"}
Traps ==
    /\ seen = brk
    /\ g # "gone" => brk = Planted /\ (armed <=> g \in Arming)
    /\ g = "gone" => ~armed /\ brk \subseteq {"fetch", "svcret"} /\ (brk = {} \/ run = "killed")

Plain == Before \cup AttachStop \cup {"attached", "execwait", "reinstall", "scrub"}
Copying == {"arm1", "plant1", "go1", "wait1", "wait2", "copy"} \cup AtFetch \cup AtSvc \cup AtSvcRet
Full == {"swap", "stop", "run_on", "stopwait", "watch"} \cup DetachStop
Image ==
    /\ g \in Plain => image = {}
    /\ g \in {"scan", "patch"} => image = {"scrubbed"}
    /\ g \in Copying => image = {"scrubbed", "patched"}
    /\ g = "rebase" => image = {"scrubbed", "patched", "copied"}
    /\ g = "protect" => image = {"scrubbed", "patched", "copied", "rebased"}
    /\ g = "fill" => image = {"scrubbed", "patched", "copied", "rebased", "protected"}
    /\ g \in Full => image = Stub
    /\ g # "gone" => x19 = IF g \in Full \ {"swap"} THEN "ours" ELSE "theirs"
    /\ image \subseteq Stub /\ x19 \in {"theirs", "ours"}
    /\ g = "gone" /\ run = "running" => (image = {} /\ x19 = "theirs") \/ (image = Stub /\ x19 = "ours")

\* Until the attach nothing ends the read of the pipe.
Pipe ==
    /\ g = "unborn" => c = "alive" /\ writers = {"C"}
    /\ g \in (Before \ {"unborn"}) \cup {"attached", "signal"} => "G" \in writers
    /\ g \in Before \cup {"attached", "signal"} => ~byte

IInv == Types /\ Stopped /\ Place /\ Signals /\ Ports /\ Tracing /\ Traps /\ Image /\ Pipe

USE DEF Before, AttachStop, ExecStop, AtFetch, AtSvc, AtSvcRet, Back, DetachStop, Waits, Done, Holding

LEMMA InitIInv == Init => IInv
<1> SUFFICES ASSUME Init PROVE IInv OBVIOUS
<1> USE DEF Init
<1>1. Types
  <2>1. sent \in 0..MaxSignals BY SignalsAssumption
  <2> QED BY <2>1 DEF Types
<1>2. Stopped /\ Place /\ Signals BY DEF Stopped, Place, Signals
<1>3. Ports /\ Tracing /\ Pipe BY DEF Ports, Unported, Tracing, Pipe
<1>4. Traps BY DEF Traps, Planted, Arming
<1>5. Image BY DEF Image, Plain, Copying, Full, Stub
<1> QED BY <1>1, <1>2, <1>3, <1>4, <1>5 DEF IInv

LEMMA AfterIs ==
    /\ After["orphan"] = "install" /\ After["install"] = "attach" /\ After["attach"] = "attached"
    /\ After["attached"] = "signal" /\ After["signal"] = "resume" /\ After["resume"] = "execwait"
    /\ After["execwait"] = "reinstall" /\ After["reinstall"] = "scrub" /\ After["scrub"] = "scan"
    /\ After["scan"] = "patch" /\ After["patch"] = "arm1" /\ After["arm1"] = "plant1"
    /\ After["plant1"] = "go1" /\ After["go1"] = "wait1" /\ After["wait1"] = "unplant1"
    /\ After["unplant1"] = "disarm1" /\ After["disarm1"] = "macho" /\ After["macho"] = "divert"
    /\ After["divert"] = "arm2" /\ After["arm2"] = "plant2" /\ After["plant2"] = "go2"
    /\ After["go2"] = "wait2" /\ After["wait2"] = "unplant2" /\ After["unplant2"] = "disarm2"
    /\ After["disarm2"] = "restore" /\ After["restore"] = "copy" /\ After["copy"] = "rebase"
    /\ After["rebase"] = "protect" /\ After["protect"] = "fill" /\ After["fill"] = "swap"
    /\ After["swap"] = "stop" /\ After["stop"] = "run_on" /\ After["run_on"] = "stopwait"
    /\ After["stopwait"] = "teardown" /\ After["teardown"] = "detach" /\ After["detach"] = "release"
    /\ After["release"] = "watch"
BY DEF After

LEMMA ForkKeeps == ASSUME IInv, Fork PROVE IInv'
<1> USE DEF Fork, Gs, Ps, Others, IInv
<1>1. Types' /\ Stopped' /\ Place' /\ Signals'
  BY DEF Types, Stopped, Place, Signals
<1>2. Ports' /\ Tracing' /\ Traps' /\ Image'
  BY DEF Ports, Unported, Tracing, Traps, Planted, Arming, Image, Plain, Copying, Full, Stub
<1>3. Pipe'
  BY DEF Pipe
<1> QED BY <1>1, <1>2, <1>3

LEMMA ExitCKeeps == ASSUME IInv, ExitC PROVE IInv'
<1> USE DEF ExitC, Gs, Ps, Others, IInv
<1>1. Types' /\ Stopped' /\ Place' /\ Signals'
  BY DEF Types, Stopped, Place, Signals
<1>2. Ports' /\ Tracing' /\ Traps' /\ Image'
  BY DEF Ports, Unported, Tracing, Traps, Planted, Arming, Image, Plain, Copying, Full, Stub
<1>3. Pipe'
  BY DEF Pipe
<1> QED BY <1>1, <1>2, <1>3

LEMMA ReadKeeps == ASSUME IInv, Read PROVE IInv'
<1> USE DEF Read, Ready, Gs, Ps, Others, IInv
<1>1. Types' /\ Stopped' /\ Signals' /\ Ports'
  BY DEF Types, Stopped, Signals, Ports, Unported
<1>2. Tracing' /\ Traps' /\ Image' /\ Pipe'
  BY DEF Tracing, Traps, Planted, Arming, Image, Plain, Copying, Full, Stub, Pipe
<1>3. Place' BY DEF Place, Stopped, Pipe
<1> QED BY <1>1, <1>2, <1>3

LEMMA ExecKeeps == ASSUME IInv, Exec PROVE IInv'
<1> USE DEF Exec, Ready, Gs, Ps, Others, IInv
<1>1. Types' /\ Place' /\ Tracing' /\ Traps'
  BY DEF Types, Place, Tracing, Traps, Planted, Arming
<1>2. Image' /\ Pipe'
  BY DEF Image, Plain, Copying, Full, Stub, Pipe
<1>3. Stopped' BY DEF Stopped, Types, Place, Tracing
<1>4. Signals' BY DEF Signals, Stopped
<1>5. Ports' BY DEF Ports, Unported, Types, Place, Tracing
<1> QED BY <1>1, <1>2, <1>3, <1>4, <1>5

\* The program runs into a breakpoint only while it is awaited.
LEMMA RunKeeps == ASSUME IInv, Run PROVE IInv'
<1> USE DEF Run, Ready, Onwards, Gs, Ps, Others, IInv
<1>1. Types' /\ Tracing' /\ Traps' /\ Image'
  BY DEF Types, Tracing, Traps, Planted, Arming, Image, Plain, Copying, Full, Stub
<1>2. Pipe'
  BY DEF Pipe
<1>3. Stopped' BY DEF Stopped, Traps, Planted, Arming
<1>4. Place' BY DEF Place, Stopped, Signals, Traps, Planted, Arming
<1>5. Signals' BY DEF Signals, Stopped
<1>6. Ports' BY DEF Ports, Unported, Stopped
<1> QED BY <1>1, <1>2, <1>3, <1>4, <1>5, <1>6

LEMMA SignalKeeps == ASSUME IInv, Signal PROVE IInv'
<1> USE DEF Signal, Alive, Gs, Ps, Others, IInv
<1>1. Stopped' /\ Place' /\ Signals' /\ Ports'
  BY DEF Stopped, Place, Signals, Ports, Unported
<1>2. Tracing' /\ Traps' /\ Image' /\ Pipe'
  BY DEF Tracing, Traps, Planted, Arming, Image, Plain, Copying, Full, Stub, Pipe
<1>3. Types'
  <2>1. sent' \in 0..MaxSignals BY SignalsAssumption DEF Types
  <2> QED BY <2>1 DEF Types
<1> QED BY <1>1, <1>2, <1>3

\* A signal becomes a stop where one is awaited and is harmless elsewhere.
LEMMA TakeKeeps == ASSUME IInv, Take PROVE IInv'
<1> USE DEF Take, Gs, Ps, Others, IInv
<1>1. Types' /\ Place' /\ Ports' /\ Tracing'
  BY DEF Types, Place, Ports, Unported, Tracing
<1>2. Traps' /\ Image' /\ Pipe'
  BY DEF Traps, Planted, Arming, Image, Plain, Copying, Full, Stub, Pipe
<1>3. Stopped' BY DEF Stopped, Types, Signals, Ports, Unported, Tracing
<1>4. Signals' BY DEF Signals, Types, Stopped, Ports, Unported, Tracing
<1> QED BY <1>1, <1>2, <1>3, <1>4

LEMMA OrphanKeeps == ASSUME IInv, Orphan PROVE IInv'
<1> USE AfterIs DEF Orphan, At, Gs, Ps, Others, IInv
<1>1. Types' /\ Stopped' /\ Place' /\ Signals'
  BY DEF Types, Stopped, Place, Signals
<1>2. Ports' /\ Tracing' /\ Traps' /\ Image'
  BY DEF Ports, Unported, Tracing, Traps, Planted, Arming, Image, Plain, Copying, Full, Stub
<1>3. Pipe'
  BY DEF Pipe
<1> QED BY <1>1, <1>2, <1>3

LEMMA InstallKeeps == ASSUME IInv, Install PROVE IInv'
<1> USE AfterIs DEF Install, At, swapPorts, Gs, Ps, Others, IInv
<1>1. Types' /\ Stopped' /\ Place' /\ Signals'
  BY DEF Types, Stopped, Place, Signals
<1>2. Ports' /\ Tracing' /\ Traps' /\ Image'
  BY DEF Ports, Unported, Tracing, Traps, Planted, Arming, Image, Plain, Copying, Full, Stub
<1>3. Pipe'
  BY DEF Pipe
<1> QED BY <1>1, <1>2, <1>3

LEMMA AttachKeeps == ASSUME IInv, Attach PROVE IInv'
<1> USE AfterIs DEF Attach, At, Gs, Ps, Others, IInv
<1>1. Types' /\ Stopped' /\ Place' /\ Signals'
  BY DEF Types, Stopped, Place, Signals
<1>2. Ports' /\ Tracing' /\ Traps' /\ Image'
  BY DEF Ports, Unported, Tracing, Traps, Planted, Arming, Image, Plain, Copying, Full, Stub
<1>3. Pipe'
  BY DEF Pipe
<1> QED BY <1>1, <1>2, <1>3

LEMMA SignalParentKeeps == ASSUME IInv, SignalParent PROVE IInv'
<1> USE AfterIs DEF SignalParent, At, Gs, Ps, Others, IInv
<1>1. Types' /\ Stopped' /\ Place' /\ Signals'
  BY DEF Types, Stopped, Place, Signals
<1>2. Ports' /\ Tracing' /\ Traps' /\ Image'
  BY DEF Ports, Unported, Tracing, Traps, Planted, Arming, Image, Plain, Copying, Full, Stub
<1>3. Pipe'
  BY DEF Pipe
<1> QED BY <1>1, <1>2, <1>3

LEMMA ReinstallKeeps == ASSUME IInv, Reinstall PROVE IInv'
<1> USE AfterIs DEF Reinstall, At, reinstall, swapPorts, Gs, Ps, Others, IInv
<1>1. Types' /\ Stopped' /\ Place' /\ Signals'
  BY DEF Types, Stopped, Place, Signals
<1>2. Ports' /\ Tracing' /\ Traps' /\ Image'
  BY DEF Ports, Unported, Tracing, Traps, Planted, Arming, Image, Plain, Copying, Full, Stub
<1>3. Pipe'
  BY DEF Pipe
<1> QED BY <1>1, <1>2, <1>3

LEMMA ResumeKeeps == ASSUME IInv, Resume PROVE IInv'
<1> USE AfterIs DEF Resume, At, Reply, Resumed, Gs, Ps, Others, IInv
<1>1. Types' /\ Place' /\ Ports' /\ Tracing'
  BY DEF Types, Place, Ports, Unported, Tracing
<1>2. Traps' /\ Image' /\ Pipe'
  BY DEF Traps, Planted, Arming, Image, Plain, Copying, Full, Stub, Pipe
<1>3. Stopped' BY DEF Stopped, Place
<1>4. Signals' BY DEF Signals, Stopped, Place
<1> QED BY <1>1, <1>2, <1>3, <1>4

LEMMA waitForStoppedKeeps == ASSUME IInv, waitForStopped PROVE IInv'
<1> USE AfterIs DEF waitForStopped, At, Expected, Receive, Suppress, Resumed, Gs, Ps, Others, IInv
<1>1. Types' /\ Stopped' /\ Ports' /\ Tracing'
  BY DEF Types, Stopped, Ports, Unported, Tracing
<1>2. Traps' /\ Image' /\ Pipe'
  BY DEF Traps, Planted, Arming, Image, Plain, Copying, Full, Stub, Pipe
<1>3. Place' BY DEF Place, Stopped
<1>4. Signals' BY DEF Signals, Stopped, Place
<1> QED BY <1>1, <1>2, <1>3, <1>4

LEMMA waitForBreakpointKeeps == ASSUME IInv, waitForBreakpoint PROVE IInv'
<1> USE AfterIs DEF waitForBreakpoint, At, Receive, Suppress, Resumed, Gs, Ps, Others, IInv
<1>1. Types' /\ Stopped' /\ Ports' /\ Tracing'
  BY DEF Types, Stopped, Ports, Unported, Tracing
<1>2. Traps' /\ Image' /\ Pipe'
  BY DEF Traps, Planted, Arming, Image, Plain, Copying, Full, Stub, Pipe
<1>3. Place' BY DEF Place, Stopped
<1>4. Signals' BY DEF Signals, Stopped
<1> QED BY <1>1, <1>2, <1>3, <1>4

LEMMA SetBreakpointKeeps == ASSUME IInv, SetBreakpoint PROVE IInv'
<1> USE AfterIs DEF SetBreakpoint, At, writeMemory, Gs, Ps, Others, IInv
<1>1. Types' /\ Stopped' /\ Place' /\ Signals'
  BY DEF Types, Stopped, Place, Signals
<1>2. Ports' /\ Tracing' /\ Traps' /\ Image'
  BY DEF Ports, Unported, Tracing, Traps, Planted, Arming, Image, Plain, Copying, Full, Stub
<1>3. Pipe'
  BY DEF Pipe
<1> QED BY <1>1, <1>2, <1>3

LEMMA ArmThreadKeeps == ASSUME IInv, ArmThread PROVE IInv'
<1> USE AfterIs DEF ArmThread, At, Gs, Ps, Others, IInv
<1>1. Stopped' /\ Place' /\ Signals' /\ Ports'
  BY DEF Stopped, Place, Signals, Ports, Unported
<1>2. Tracing' /\ Traps' /\ Image' /\ Pipe'
  BY DEF Tracing, Traps, Planted, Arming, Image, Plain, Copying, Full, Stub, Pipe
<1>3. Types'
  <2>1. armed' \in BOOLEAN OBVIOUS
  <2> QED BY <2>1 DEF Types
<1> QED BY <1>1, <1>2, <1>3

LEMMA DivertKeeps == ASSUME IInv, Divert PROVE IInv'
<1> USE AfterIs DEF Divert, At, Gs, Ps, Others, IInv
<1>1. Types' /\ Stopped' /\ Place' /\ Signals'
  BY DEF Types, Stopped, Place, Signals
<1>2. Ports' /\ Tracing' /\ Traps' /\ Image'
  BY DEF Ports, Unported, Tracing, Traps, Planted, Arming, Image, Plain, Copying, Full, Stub
<1>3. Pipe'
  BY DEF Pipe
<1> QED BY <1>1, <1>2, <1>3

LEMMA LookKeeps == ASSUME IInv, Look PROVE IInv'
<1> USE AfterIs DEF Look, At, Gs, Ps, Others, IInv
<1>1. Types' /\ Stopped' /\ Place' /\ Signals'
  BY DEF Types, Stopped, Place, Signals
<1>2. Ports' /\ Tracing' /\ Traps' /\ Image'
  BY DEF Ports, Unported, Tracing, Traps, Planted, Arming, Image, Plain, Copying, Full, Stub
<1>3. Pipe'
  BY DEF Pipe
<1> QED BY <1>1, <1>2, <1>3

LEMMA PatchKeeps == ASSUME IInv, Patch PROVE IInv'
<1> USE AfterIs DEF Patch, At, Gs, Ps, Others, IInv
<1>1. Types' /\ Stopped' /\ Place' /\ Signals'
  BY DEF Types, Stopped, Place, Signals
<1>2. Ports' /\ Tracing' /\ Traps' /\ Image'
  BY DEF Ports, Unported, Tracing, Traps, Planted, Arming, Image, Plain, Copying, Full, Stub
<1>3. Pipe'
  BY DEF Pipe
<1> QED BY <1>1, <1>2, <1>3

LEMMA MapStubKeeps == ASSUME IInv, MapStub PROVE IInv'
<1> USE AfterIs DEF MapStub, At, Gs, Ps, Others, IInv
<1>1. Types' /\ Stopped' /\ Place' /\ Signals'
  BY DEF Types, Stopped, Place, Signals
<1>2. Ports' /\ Tracing' /\ Traps' /\ Image'
  BY DEF Ports, Unported, Tracing, Traps, Planted, Arming, Image, Plain, Copying, Full, Stub
<1>3. Pipe'
  BY DEF Pipe
<1> QED BY <1>1, <1>2, <1>3

LEMMA FillDataKeeps == ASSUME IInv, FillData PROVE IInv'
<1> USE AfterIs DEF FillData, At, Gs, Ps, Others, IInv
<1>1. Types' /\ Stopped' /\ Place' /\ Signals'
  BY DEF Types, Stopped, Place, Signals
<1>2. Ports' /\ Tracing' /\ Traps' /\ Image'
  BY DEF Ports, Unported, Tracing, Traps, Planted, Arming, Image, Plain, Copying, Full, Stub
<1>3. Pipe'
  BY DEF Pipe
<1> QED BY <1>1, <1>2, <1>3

LEMMA SwapExportsKeeps == ASSUME IInv, SwapExports PROVE IInv'
<1> USE AfterIs DEF SwapExports, At, Gs, Ps, Others, IInv
<1>1. Types' /\ Stopped' /\ Place' /\ Signals'
  BY DEF Types, Stopped, Place, Signals
<1>2. Ports' /\ Tracing' /\ Traps' /\ Image'
  BY DEF Ports, Unported, Tracing, Traps, Planted, Arming, Image, Plain, Copying, Full, Stub
<1>3. Pipe'
  BY DEF Pipe
<1> QED BY <1>1, <1>2, <1>3

LEMMA StopKeeps == ASSUME IInv, Stop PROVE IInv'
<1> USE AfterIs DEF Stop, At, Gs, Ps, Others, IInv
<1>1. Types' /\ Stopped' /\ Place' /\ Signals'
  BY DEF Types, Stopped, Place, Signals
<1>2. Ports' /\ Tracing' /\ Traps' /\ Image'
  BY DEF Ports, Unported, Tracing, Traps, Planted, Arming, Image, Plain, Copying, Full, Stub
<1>3. Pipe'
  BY DEF Pipe
<1> QED BY <1>1, <1>2, <1>3

LEMMA TearDownKeeps == ASSUME IInv, TearDown PROVE IInv'
<1> USE AfterIs DEF TearDown, At, restoreAndTearDown, Gs, Ps, Others, IInv
<1>1. Types' /\ Stopped' /\ Place' /\ Signals'
  BY DEF Types, Stopped, Place, Signals
<1>2. Ports' /\ Tracing' /\ Traps' /\ Image'
  BY DEF Ports, Unported, Tracing, Traps, Planted, Arming, Image, Plain, Copying, Full, Stub
<1>3. Pipe'
  BY DEF Pipe
<1> QED BY <1>1, <1>2, <1>3

LEMMA DetachKeeps == ASSUME IInv, Detach PROVE IInv'
<1> USE AfterIs DEF Detach, At, Gs, Ps, Others, IInv
<1>1. Types' /\ Stopped' /\ Place' /\ Signals'
  BY DEF Types, Stopped, Place, Signals
<1>2. Ports' /\ Traps' /\ Image' /\ Pipe'
  BY DEF Ports, Unported, Traps, Planted, Arming, Image, Plain, Copying, Full, Stub, Pipe
<1>3. Tracing' BY DEF Tracing, Stopped
<1> QED BY <1>1, <1>2, <1>3

LEMMA ReleaseKeeps == ASSUME IInv, Release PROVE IInv'
<1> USE AfterIs DEF Release, At, Reply, Resumed, Gs, Ps, Others, IInv
<1>1. Types' /\ Stopped' /\ Place' /\ Ports'
  BY DEF Types, Stopped, Place, Ports, Unported
<1>2. Tracing' /\ Traps' /\ Image' /\ Pipe'
  BY DEF Tracing, Traps, Planted, Arming, Image, Plain, Copying, Full, Stub, Pipe
<1>3. Signals' BY DEF Signals, Stopped
<1> QED BY <1>1, <1>2, <1>3

\* A debugger that fails leaves a program that is killed or untouched.
LEMMA DieKeeps == ASSUME IInv, Die PROVE IInv'
<1> USE DEF Die, restoreAndTearDown, Alive, Gs, Ps, Others, IInv
<1>1. Types' /\ Ports' /\ Tracing' /\ Pipe'
  BY DEF Types, Ports, Unported, Tracing, Pipe
<1>2. Stopped' BY DEF Stopped, Types
<1>3. Place' BY DEF Place, Types, Stopped, Tracing
<1>4. Signals' BY DEF Signals, Stopped, Tracing
<1>5. Traps' BY DEF Traps, Planted, Arming, Stopped, Tracing
<1>6. Image' BY DEF Image, Plain, Copying, Full, Stub, Stopped, Tracing
<1> QED BY <1>1, <1>2, <1>3, <1>4, <1>5, <1>6

LEMMA Inductive ==
    ASSUME Timeouts = {}, IInv, [Next]_vars PROVE IInv'
<1>1. CASE Fork \/ ExitC \/ Program \/ Signal \/ Take \/ Die
  BY <1>1, ForkKeeps, ExitCKeeps, ReadKeeps, ExecKeeps, RunKeeps, SignalKeeps, TakeKeeps, DieKeeps
  DEF Program
<1>2. CASE Debugger
  <2>1. ~TimeOut BY DEF TimeOut
  <2> QED BY <1>2, <2>1, OrphanKeeps, InstallKeeps, AttachKeeps, SignalParentKeeps,
      ReinstallKeeps, ResumeKeeps, waitForStoppedKeeps, waitForBreakpointKeeps,
      SetBreakpointKeeps, ArmThreadKeeps, DivertKeeps, LookKeeps, PatchKeeps, MapStubKeeps,
      FillDataKeeps, SwapExportsKeeps, StopKeeps, TearDownKeeps, DetachKeeps, ReleaseKeeps
      DEF Debugger
<1>3. CASE UNCHANGED vars
  <2> USE <1>3 DEF vars, IInv
  <2>1. Types' /\ Stopped' /\ Place' BY DEF Types, Stopped, Place
  <2>2. Signals' /\ Ports' /\ Tracing' BY DEF Signals, Ports, Tracing
  <2>3. Traps' /\ Image' /\ Pipe' BY DEF Traps, Planted, Image, Pipe
  <2> QED BY <2>1, <2>2, <2>3
<1> QED BY <1>1, <1>2, <1>3 DEF Next

LEMMA Invariance == Timeouts = {} /\ Spec => []IInv
<1> SUFFICES ASSUME Timeouts = {} PROVE Spec => []IInv OBVIOUS
<1>1. IInv /\ [Next]_vars => IInv' BY Inductive
<1> QED BY <1>1, InitIInv, PTL DEF Spec

\* Every stop of the program is one message, on the port or held.
THEOREM TypeCorrect == Timeouts = {} /\ Spec => []TypeOK
<1>1. IInv => TypeOK
  <2> SUFFICES ASSUME IInv PROVE TypeOK OBVIOUS
  <2> USE DEF IInv
  <2>1. g \in Steps \cup {"unborn", "watch", "gone"} BY DEF Types, Steps, After
  <2>2. p \in {"read", "exec", "main"} \cup DOMAIN Onwards BY DEF Types, Place, Onwards
  <2>3. run \in {"running", "stopped", "hung", "killed", "trapped"} /\ (run = "stopped" <=> msg # held)
    BY DEF Types, Stopped
  <2>4. brk \subseteq DOMAIN Onwards /\ seen \subseteq DOMAIN Onwards
    BY DEF Traps, Planted, Onwards
  <2>5. backup \in {"none"} \cup DOMAIN Onwards BY DEF Place, Onwards
  <2>6. {msg, held} \in {{"none"}} \cup {{"none", s} : s \in Stops}
    <3>1. msg \in Stops \cup {"none"} /\ held \in Stops \cup {"none"} /\ (msg = "none" \/ held = "none")
      BY DEF Types, Stopped, Stops
    <3> QED BY <3>1
  <2>7. soft \in {"none", "ours"} /\ saved \in {"none", "ours", "unset"} /\ x19 \in
      {"theirs", "ours"} /\ image \subseteq Stub
    BY DEF Ports, Image
  <2> QED BY <2>1, <2>2, <2>3, <2>4, <2>5, <2>6, <2>7 DEF TypeOK, Types
<1> QED BY <1>1, Invariance, PTL

\* The pipe lets no program run before the debugger has it, unless there is no
\* debugger.
THEOREM Caught == Timeouts = {} /\ Spec => []ExecCaught
<1>1. IInv => ExecCaught BY DEF IInv, Types, Place, Tracing, ExecCaught
<1> QED BY <1>1, Invariance, PTL

\* No breakpoint kills the program.
THEOREM NoTrap == Timeouts = {} /\ Spec => []NoStrayTrap
<1>1. IInv => NoStrayTrap BY DEF IInv, Types, Stopped, NoStrayTrap
<1> QED BY <1>1, Invariance, PTL

\* The held reply keeps the program at its breakpoint while it is patched.
THEOREM Patches == Timeouts = {} /\ Spec => []StoppedWhilePatched
<1>1. IInv => StoppedWhilePatched
  <2> SUFFICES ASSUME IInv, NEW a \in DOMAIN Patching, g \in Patching[a]
               PROVE  run = "stopped" /\ held = "brk" /\ p = a
    BY DEF StoppedWhilePatched
  <2> USE DEF IInv, Stopped, Place
  <2>1. CASE a = "fetch" BY <2>1 DEF Patching
  <2>2. CASE a = "svc" BY <2>2 DEF Patching
  <2>3. CASE a = "svcret" BY <2>3 DEF Patching
  <2> QED BY <2>1, <2>2, <2>3 DEF Patching
<1> QED BY <1>1, Invariance, PTL

\* A program that outlives the debugger's work is free of it.
THEOREM Handover == Timeouts = {} /\ Spec => []CleanHandover
<1>1. IInv => CleanHandover
  BY DEF IInv, Stopped, Place, Ports, Unported, Tracing, Traps, Planted, Arming, CleanHandover, Alive
<1> QED BY <1>1, Invariance, PTL

(***************************************************************************)
(* The launch implements the safety of Launch.                             *)
(***************************************************************************)
LEMMA NeverBroken ==
    ASSUME IInv PROVE Outcome \in Promise!Outcomes \cup {"waiting"}
<1>1. CASE run = "killed" BY <1>1 DEF Outcome, Promise!Outcomes
<1>2. CASE run = "running" /\ p = "main" /\ ~traced
  <2>1. g \in Done BY <1>2 DEF IInv, Types, Place
  <2>2. (image = {} /\ x19 = "theirs") \/ (image = Stub /\ x19 = "ours")
    BY <1>2, <2>1 DEF IInv, Image, Full
  <2>3. Stub # {} BY DEF Stub
  <2>4. Outcome \in {"stock", "accelerated"} BY <1>2, <2>2, <2>3 DEF Outcome
  <2> QED BY <2>4 DEF Promise!Outcomes
<1>3. CASE run # "killed" /\ ~(run = "running" /\ p = "main" /\ ~traced)
  BY <1>3 DEF Outcome
<1> QED BY <1>1, <1>2, <1>3

\* Nobody but the program itself moves once the outcome is known.
LEMMA StaysSettled ==
    ASSUME IInv, Next, Outcome # "waiting" PROVE UNCHANGED Outcome
<1>1. run = "killed" \/ (run = "running" /\ p = "main" /\ ~traced) BY DEF Outcome
<1>2. g \in Done /\ (g = "watch" => p = "main")
  BY <1>1 DEF IInv, Types, Stopped, Place
<1>3. "SIGSTOP" \notin pending \/ run = "killed" BY <1>2 DEF IInv, Signals
<1>4. ~Debugger
  BY <1>2 DEF Debugger, At, Orphan, Install, Attach, SignalParent, Reinstall, Resume,
      waitForStopped, waitForBreakpoint, SetBreakpoint, ArmThread, Divert, Look, Patch,
      MapStub, FillData, SwapExports, Stop, TearDown, Detach, Release, TimeOut, Expected
<1>5. ~Die BY <1>2 DEF Die, Steps, After
<1>6. ~Fork BY <1>2 DEF Fork
<1>7. UNCHANGED <<run, p, traced, image, x19>>
  <2>1. CASE ExitC BY <2>1 DEF ExitC, Ps, Gs
  <2>2. CASE Program BY <2>2, <1>1 DEF Program, Read, Exec, Run, Ready, Onwards
  <2>3. CASE Signal BY <2>3 DEF Signal, Gs
  <2>4. CASE Take BY <2>4, <1>1, <1>3, <1>2 DEF Take, Gs
  <2> QED BY <2>1, <2>2, <2>3, <2>4, <1>4, <1>5, <1>6 DEF Next
<1> QED BY <1>7 DEF Outcome

\* A launch comes to one outcome only, and never starts a program half patched,
\* whichever step the debugger fails at.
THEOREM Launches == Timeouts = {} /\ Spec => Promise!Init /\ [][Promise!Settle]_Outcome
<1> SUFFICES ASSUME Timeouts = {} PROVE Spec => Promise!Init /\ [][Promise!Settle]_Outcome
  OBVIOUS
<1>1. Init => Promise!Init BY DEF Init, Promise!Init, Outcome
<1> DEFINE Known == Outcome \in Promise!Outcomes \cup {"waiting"}
<1>2. IInv /\ Known' /\ [Next]_vars => [Promise!Settle]_Outcome
  <2> SUFFICES ASSUME IInv, Known', [Next]_vars, Outcome' # Outcome PROVE Promise!Settle
    OBVIOUS
  <2>1. Next BY DEF vars, Outcome
  <2>2. Outcome = "waiting" BY <2>1, StaysSettled
  <2> QED BY <2>2 DEF Promise!Settle
<1>3. Spec => []IInv BY Invariance
<1>4. IInv => Known BY NeverBroken
<1> HIDE DEF Known
<1> QED BY <1>1, <1>2, <1>3, <1>4, PTL DEF Spec
=============================================================================
