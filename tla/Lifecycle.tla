------------------------------ MODULE Lifecycle ------------------------------
(***************************************************************************)
(* The life of the program from gadget.sh start to gadget.sh stop, run     *)
(* after run: main() and shutdown(), the USB gadget they set up and tear   *)
(* down, the mount, and the writes that are still coming in meanwhile.     *)
(* The process may be killed at any moment; what the kernel holds, the     *)
(* gadget and the mount, survives it.                                      *)
(*                                                                         *)
(* What the goroutines do between CloseWrites and writer.Wait is in        *)
(* WritePipeline; here it is one step that may take for ever.              *)
(***************************************************************************)
EXTENDS USBGadget

CONSTANTS
    MaxStarts,      \* bound: how often the script starts the program
    MaxFaults       \* bound: the configfs and mount calls that fail

ASSUME BoundAssumption == MaxStarts \in Nat /\ MaxFaults \in Nat

VARIABLES
    main,       \* where main() is; "none": there is no process
    step,       \* the step of Setup or Teardown it is at
    after,      \* where Teardown returns to: "setup" or "unmount"
    gadget,     \* configfs
    mount,      \* the mount point: "none", "live", or "dead" without its process
    other,      \* another local process has disk.img open
    closing,    \* p.closing
    closed,     \* p.writes is closed
    write,      \* the Write() in progress: "idle", or "checked" after p.closing
    sender,     \* there is a fallback sender
    script,     \* gadget.sh: "idle", "starting" or "stopping"
    pidfile,    \* PIDFILE exists
    starts,     \* history: the number of starts so far
    faults,     \* history: the number of calls that failed so far
    run         \* history of this run: what went wrong, a subset of
                \* {"remove", "write", "unmount", "other", "panic", "died"}

program == <<main, step, after>>
io == <<closing, closed, write, sender>>
shell == <<script, pidfile>>
vars == <<program, gadget, mount, other, io, shell, starts, faults, run>>

Init ==
    /\ main = "none" /\ step = 1 /\ after = "setup"
    /\ gadget = NoGadget /\ mount = "none" /\ other = FALSE
    /\ closing = FALSE /\ closed = FALSE /\ write = "idle" /\ sender = FALSE
    /\ script = "idle" /\ pidfile = FALSE
    /\ starts = 0 /\ faults = 0 /\ run = {}

Goto(pc) == main' = pc /\ step' = 1 /\ UNCHANGED after
Fault == faults < MaxFaults /\ faults' = faults + 1

\* The process is gone: the mount is dead and nothing of the program is left.
Ends ==
    /\ main' = "none" /\ step' = 1 /\ UNCHANGED after
    /\ mount' = IF mount = "live" THEN "dead" ELSE mount
    /\ closing' = FALSE /\ closed' = FALSE /\ write' = "idle" /\ sender' = FALSE

-----------------------------------------------------------------------------
(***************************************************************************)
(* main(): from the open image to the signal.                              *)
(***************************************************************************)

\* NewSHMDisk, NewNTFS and mountDiskFS; main() ends if one of them fails.
Mount ==
    /\ main = "boot"
    /\ \/ /\ mount' = "live"
          /\ Goto("listen") /\ UNCHANGED <<io, faults>>
       \/ Fault /\ Ends
    /\ UNCHANGED <<gadget, other, shell, starts, run>>

\* The workers are started, newStreamServer listens; if it cannot, main() unmounts
\* and takes everything down without a gadget.
Listen ==
    /\ main = "listen"
    /\ \/ /\ main' = "teardown" /\ step' = 1 /\ after' = "setup" /\ UNCHANGED faults
       \/ Fault /\ Goto("unmount")
    /\ UNCHANGED <<gadget, mount, other, io, shell, starts, run>>

\* Mutant: Setup's error is not returned.
SetupStepGoesOn ==
    /\ main = "setup" /\ step <= Len(SetupSteps)
    /\ LET s == SetupSteps[step]
       IN \/ /\ ~Refused(gadget, s)
             /\ gadget' = Done(gadget, s) /\ UNCHANGED <<faults, run>>
          \/ /\ Refused(gadget, s) \/ faults < MaxFaults
             /\ faults' = IF Refused(gadget, s) THEN faults ELSE faults + 1
             /\ run' = IF s.op = "write" THEN run \cup {"write"} ELSE run
             /\ UNCHANGED gadget
    /\ step' = step + 1
    /\ UNCHANGED <<main, after, mount, other, io, shell, starts>>

\* Mutant: after an error of Setup main() unmounts at once, without shutdown()'s Teardown.
SetupStepUnmounts ==
    /\ main = "setup" /\ step <= Len(SetupSteps)
    /\ LET s == SetupSteps[step]
       IN \/ /\ ~Refused(gadget, s)
             /\ gadget' = Done(gadget, s) /\ step' = step + 1
             /\ UNCHANGED <<main, after, faults, run>>
          \/ /\ s.op # "write" /\ Fault
             /\ main' = "unmount" /\ step' = 1 /\ after' = "unmount"
             /\ UNCHANGED <<gadget, run>>
    /\ UNCHANGED <<mount, other, io, shell, starts>>

\* One call of Setup.  writeFile only logs its error; any other error ends Setup,
\* and main() runs shutdown().
SetupStep ==
    /\ main = "setup" /\ step <= Len(SetupSteps)
    /\ LET s == SetupSteps[step]
       IN \/ /\ ~Refused(gadget, s)
             /\ gadget' = Done(gadget, s) /\ step' = step + 1
             /\ UNCHANGED <<main, after, faults, run>>
          \/ /\ Refused(gadget, s) \/ faults < MaxFaults
             /\ faults' = IF Refused(gadget, s) THEN faults ELSE faults + 1
             /\ IF s.op = "write"
                THEN step' = step + 1 /\ run' = run \cup {"write"} /\ UNCHANGED <<main, after>>
                ELSE main' = "teardown" /\ step' = 1 /\ after' = "unmount" /\ UNCHANGED run
             /\ UNCHANGED gadget
    /\ UNCHANGED <<mount, other, io, shell, starts>>

SetupReturns ==
    /\ main = "setup" /\ step > Len(SetupSteps)
    /\ Goto("running")
    /\ UNCHANGED <<gadget, mount, other, io, shell, starts, faults, run>>

\* Mutant: Teardown finds nothing to remove.
TeardownSkips ==
    /\ main = "teardown" /\ step <= Len(TeardownSteps)
    /\ Goto(after)
    /\ UNCHANGED <<gadget, mount, other, io, shell, starts, faults, run>>

\* One removal of Teardown; its error is ignored.
TeardownStep ==
    /\ main = "teardown" /\ step <= Len(TeardownSteps)
    /\ IF step = 1 /\ "gadget" \notin gadget.dirs
       THEN Goto(after) /\ UNCHANGED <<gadget, faults, run>>
       ELSE /\ \/ gadget' \in Removals(gadget, TeardownSteps[step]) /\ UNCHANGED <<faults, run>>
               \/ Fault /\ run' = run \cup {"remove"} /\ UNCHANGED gadget
            /\ step' = step + 1 /\ UNCHANGED <<main, after>>
    /\ UNCHANGED <<mount, other, io, shell, starts>>

TeardownReturns ==
    /\ main = "teardown" /\ step > Len(TeardownSteps)
    /\ Goto(after)
    /\ UNCHANGED <<gadget, mount, other, io, shell, starts, faults, run>>

-----------------------------------------------------------------------------
(***************************************************************************)
(* shutdown() after Teardown, and the same steps of main() when it cannot  *)
(* listen.                                                                 *)
(***************************************************************************)

\* The kernel does not unmount a file system that somebody has a file open in.
Held == gadget.lun = "this" \/ other

\* server.Unmount(): an error is only logged.
Unmount ==
    /\ main = "unmount" /\ (Held \/ write = "idle")
    /\ Goto("closing")
    /\ IF Held THEN /\ run' = run \cup {"unmount"} \cup (IF other THEN {"other"} ELSE {})
                    /\ UNCHANGED mount
               ELSE mount' = "none" /\ UNCHANGED run
    /\ UNCHANGED <<gadget, other, io, shell, starts, faults>>

\* CloseWrites: the flag, the wait for the fallback senders, the close.
SetClosing ==
    /\ main = "closing"
    /\ closing' = TRUE /\ Goto("senders")
    /\ UNCHANGED <<gadget, mount, other, closed, write, sender, shell, starts, faults, run>>

\* Mutant: submitWG.Wait() is missing.
WaitSendersNot ==
    /\ main = "senders"
    /\ Goto("close")
    /\ UNCHANGED <<gadget, mount, other, io, shell, starts, faults, run>>

WaitSenders ==
    /\ main = "senders" /\ ~sender
    /\ Goto("close")
    /\ UNCHANGED <<gadget, mount, other, io, shell, starts, faults, run>>

CloseWrites ==
    /\ main = "close"
    /\ closed' = TRUE /\ Goto("drain")
    /\ UNCHANGED <<gadget, mount, other, closing, write, sender, shell, starts, faults, run>>

\* The waits for the sniffer, the reconciler, the dispatcher and the writer, the
\* last sync, and the end of the HTTP server and of the hub.
Drain ==
    /\ main = "drain"
    /\ Goto("closeSHM")
    /\ UNCHANGED <<gadget, mount, other, io, shell, starts, faults, run>>

\* shm.Close(), and main() returns or calls log.Fatalf.
CloseSHM ==
    /\ main = "closeSHM"
    /\ Ends
    /\ UNCHANGED <<gadget, other, shell, starts, faults, run>>

-----------------------------------------------------------------------------
(***************************************************************************)
(* FUSE Write() of the host behind the gadget, or of the other process.    *)
(***************************************************************************)
HostWrites == mount = "live" /\ (other \/ (gadget.bound /\ gadget.lun = "this"))

\* SubmitWrite looks at p.closing ...
WriteChecks ==
    /\ HostWrites /\ write = "idle" /\ ~closing
    /\ write' = "checked"
    /\ UNCHANGED <<program, gadget, mount, other, closing, closed, sender, shell,
                   starts, faults, run>>

\* ... and sends, or leaves it to a goroutine if the channel is full.  A send to a
\* closed channel panics, which Write() recovers from.
WriteSends ==
    /\ write = "checked"
    /\ write' = "idle"
    /\ sender' \in IF closed THEN {sender} ELSE {sender, TRUE}
    /\ UNCHANGED <<program, gadget, mount, other, closing, closed, shell, starts,
                   faults, run>>

FallbackSends ==
    /\ sender /\ ~closed
    /\ sender' = FALSE
    /\ UNCHANGED <<program, gadget, mount, other, closing, closed, write, shell,
                   starts, faults, run>>

\* Nothing recovers from the panic of a fallback sender.
FallbackPanics ==
    /\ sender /\ closed
    /\ Ends /\ run' = run \cup {"panic"}
    /\ UNCHANGED <<gadget, other, shell, starts, faults>>

\* Another process opens the disk, or closes it between two writes.
OtherOpens ==
    /\ mount = "live" /\ ~other
    /\ other' = TRUE
    /\ UNCHANGED <<program, gadget, mount, io, shell, starts, faults, run>>

OtherCloses ==
    /\ other /\ write = "idle"
    /\ other' = FALSE
    /\ UNCHANGED <<program, gadget, mount, io, shell, starts, faults, run>>

-----------------------------------------------------------------------------
(***************************************************************************)
(* gadget.sh, and the end of the process by a signal.  A killed process    *)
(* does nothing more.  The kernel may take a while to release what it had, *)
(* and stop does not wait for that after SIGKILL: the mount is "dead" from *)
(* the signal on, and what the script sees of a dead mount is open.        *)
(***************************************************************************)

\* fuse_mounted.  mountpoint -q looks at the attributes of the mount point: of a
\* dead mount the kernel may have them still, or find no process to ask.
FuseMounted ==
    CASE mount = "live" -> {TRUE} [] mount = "none" -> {FALSE} [] OTHER -> BOOLEAN

\* A LUN that has a file of the mount open when the mount goes away.
Detached == [gadget EXCEPT !.lun = IF @ = "this" THEN "stale" ELSE @]

\* start, unless it refuses: the program runs, or there is a dead mount that
\* fuse_mounted does not see (mkdir -p then fails) or that is in use.
ScriptStart ==
    /\ script = "idle" /\ starts < MaxStarts
    /\ main = "none"
    /\ mount = "none" \/ (TRUE \in FuseMounted /\ ~Held)
    /\ main' = "boot" /\ step' = 1 /\ after' = "setup"
    /\ mount' = "none" /\ script' = "starting" /\ pidfile' = TRUE
    /\ starts' = starts + 1 /\ run' = {}
    /\ UNCHANGED <<gadget, other, io, faults>>

\* start has seen disk.img, or has waited long enough.
ScriptStarted ==
    /\ script = "starting" /\ (mount = "live" \/ main # "none")
    /\ script' = "idle"
    /\ UNCHANGED <<program, gadget, mount, other, io, pidfile, starts, faults, run>>

\* start finds no disk.img and no process.
ScriptGivesUp ==
    /\ script = "starting" /\ mount # "live" /\ main = "none"
    /\ script' = "idle" /\ pidfile' = FALSE
    /\ UNCHANGED <<program, gadget, mount, other, io, starts, faults, run>>

\* stop sends SIGTERM.  main() asks for the signal only when all is set up: before
\* that it kills the process; during shutdown() nobody reads signalCh.
ScriptTerminates ==
    /\ script = "idle" /\ pidfile
    /\ script' = "stopping"
    /\ \/ /\ main = "running"
          /\ main' = "teardown" /\ step' = 1 /\ after' = "unmount"
          /\ UNCHANGED <<mount, io, run>>
       \/ /\ main \in {"boot", "listen", "setup"} \/ (main = "teardown" /\ after = "setup")
          /\ Ends /\ run' = run \cup {"died"}
       \/ /\ main \in {"none", "unmount", "closing", "senders", "close", "drain", "closeSHM"}
             \/ (main = "teardown" /\ after = "unmount")
          /\ UNCHANGED <<program, mount, io, run>>
    /\ UNCHANGED <<gadget, other, pidfile, starts, faults>>

\* SIGKILL: from stop after fifteen seconds, or from anybody at any time.
Killed ==
    /\ main # "none"
    /\ Ends /\ run' = run \cup {"died"}
    /\ UNCHANGED <<gadget, other, shell, starts, faults>>

\* stop, once the process is gone or killed: the pid file, and the mount if
\* fuse_mounted sees it, lazily if need be; an error is ignored.
ScriptStops ==
    /\ script = "stopping" /\ main = "none"
    /\ script' = "idle" /\ pidfile' = FALSE
    /\ \E seen \in FuseMounted :
          \/ /\ seen /\ mount' = "none" /\ gadget' = Detached /\ other' = FALSE
             /\ UNCHANGED faults
          \/ seen /\ Fault /\ UNCHANGED <<mount, gadget, other>>
          \/ ~seen /\ UNCHANGED <<mount, gadget, other, faults>>
    /\ UNCHANGED <<program, io, starts, run>>

Next ==
    \/ Mount \/ Listen \/ SetupStep \/ SetupReturns \/ TeardownStep \/ TeardownReturns
    \/ Unmount \/ SetClosing \/ WaitSenders \/ CloseWrites \/ Drain \/ CloseSHM
    \/ WriteChecks \/ WriteSends \/ FallbackSends \/ FallbackPanics
    \/ OtherOpens \/ OtherCloses
    \/ ScriptStart \/ ScriptStarted \/ ScriptGivesUp \/ ScriptTerminates \/ ScriptStops
    \/ Killed

Spec == Init /\ [][Next]_vars

-----------------------------------------------------------------------------
(***************************************************************************)
(* Properties.                                                             *)
(***************************************************************************)

(***************************************************************************)
(* Setup is not stopped by what an earlier run left behind, wherever it    *)
(* was killed: the link it makes is there already, or the gadget bound,    *)
(* only if a removal of its own Teardown failed.                           *)
(***************************************************************************)
SetupStartsClean ==
    main = "setup" /\ step <= Len(SetupSteps) /\ Refused(gadget, SetupSteps[step])
        => "remove" \in run

(***************************************************************************)
(* When main() says "USB gadget active", the host really sees the disk of  *)
(* this run: linked, bound, and backed by the file of the present mount    *)
(* and not of an earlier one.  Only a failed writeFile, which Setup does   *)
(* not report, can make that untrue.                                       *)
(***************************************************************************)
ActiveIsBound ==
    main = "running" =>
        \/ "link" \in gadget.dirs /\ gadget.bound /\ gadget.lun = "this"
        \/ "write" \in run

(***************************************************************************)
(* "Unmount first.  After it returns, Write() cannot begin another         *)
(* request, which makes it safe for CloseWrites()" (shutdown in main.go):  *)
(* a fallback sender meets a closed channel, which ends the program in a   *)
(* panic, only if the unmount failed and main() went on.                   *)
(***************************************************************************)
PanicOnlyIfHeld == "panic" \in run => "unmount" \in run

(***************************************************************************)
(* The program takes down what it has set up: when shutdown() has come to  *)
(* its end and no call failed, the gadget is gone, the mount point is      *)
(* free, and no sender is left.                                            *)
(***************************************************************************)
CleanEnd ==
    main = "closeSHM" /\ after = "unmount" /\ run \cap {"remove", "unmount"} = {} =>
        gadget = NoGadget /\ mount = "none" /\ ~sender /\ write = "idle"

(***************************************************************************)
(* A program that ends by itself leaves a mount behind, which makes the    *)
(* next start refuse, only if shutdown() could not unmount, and for one of *)
(* two reasons: a removal of Teardown failed, or another process had the   *)
(* disk open.  Its own gadget never holds the mount: Teardown comes first  *)
(* on every path.  Any other dead mount is of a run that a signal killed.  *)
(***************************************************************************)
DeadMountExplained ==
    mount = "dead" =>
        \/ "died" \in run
        \/ "unmount" \in run /\ run \cap {"remove", "other"} # {}

-----------------------------------------------------------------------------
(***************************************************************************)
(* The inductive invariant behind these properties.                        *)
(***************************************************************************)
Shutdown == {"unmount", "closing", "senders", "close", "drain", "closeSHM"}
MainPC == {"none", "boot", "listen", "teardown", "setup", "running"} \cup Shutdown

TypeOK ==
    /\ main \in MainPC /\ step \in 1..9 /\ after \in {"setup", "unmount"}
    /\ gadget \in Gadget /\ mount \in {"none", "live", "dead"} /\ other \in BOOLEAN
    /\ closing \in BOOLEAN /\ closed \in BOOLEAN
    /\ write \in {"idle", "checked"} /\ sender \in BOOLEAN
    /\ script \in {"idle", "starting", "stopping"} /\ pidfile \in BOOLEAN
    /\ starts \in Nat /\ faults \in Nat
    /\ run \subseteq {"remove", "write", "unmount", "other", "panic", "died"}

\* Nothing lies outside of the gadget's directory, which Setup makes first.
GadgetInv ==
    /\ "gadget" \notin gadget.dirs => gadget = NoGadget
    /\ main = "setup" /\ step > 1 => "gadget" \in gadget.dirs

\* What is gone after each step of Teardown, and after it, if no removal failed.
TeardownInv ==
    /\ main \in {"boot", "listen"} => after = "setup"
    /\ "remove" \notin run =>
          /\ main = "teardown" /\ step > 1 => "link" \notin gadget.dirs /\ ~gadget.bound
          /\ main = "teardown" /\ step > 5 => gadget = NoGadget
          /\ main = "setup" /\ step < 7 => "link" \notin gadget.dirs
          /\ main = "setup" /\ step < 9 => ~gadget.bound
          /\ main \in Shutdown /\ after = "unmount" => gadget = NoGadget

\* What is there after each step of Setup, if no writeFile failed.
SetupInv ==
    "write" \notin run =>
        /\ (main = "setup" /\ step > 5) \/ main = "running" => gadget.lun = "this"
        /\ (main = "setup" /\ step > 6) \/ main = "running" => "link" \in gadget.dirs
        /\ (main = "setup" /\ step > 8) \/ main = "running" => gadget.bound

\* Who may still write: nobody before the mount and, if the unmount did not fail,
\* nobody after it.
WriteInv ==
    /\ main \in {"none", "boot"} => mount # "live" /\ write = "idle" /\ ~sender
    /\ closed <=> main \in {"drain", "closeSHM"}
    /\ main \in Shutdown \ {"unmount"} /\ "unmount" \notin run =>
          /\ mount = "none" /\ write = "idle"
          /\ main \in {"close", "drain", "closeSHM"} => ~sender
    /\ PanicOnlyIfHeld

\* The mount is live from mountDiskFS to the unmount, and after it only if the
\* unmount failed.  No LUN has a file of it open before Setup, or once it is gone.
MountInv ==
    /\ main \in {"listen", "teardown", "setup", "running", "unmount"} => mount = "live"
    /\ main \in Shutdown \ {"unmount"} /\ mount = "live" =>
          "unmount" \in run /\ run \cap {"remove", "other"} # {}
    /\ mount = "none" \/ (main \in {"boot", "listen", "teardown", "unmount"} /\ after = "setup")
          => gadget.lun # "this"
    /\ DeadMountExplained

IndInv == TypeOK /\ GadgetInv /\ TeardownInv /\ SetupInv /\ WriteInv /\ MountInv
=============================================================================
