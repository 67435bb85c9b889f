--------------------------- MODULE LifecycleProofs ---------------------------
(***************************************************************************)
(* Proofs about Lifecycle, for any number of starts and of failing calls.  *)
(* What each call of Setup and Teardown does to the gadget is in two       *)
(* lemmas; the steps of the program are then split by action.              *)
(***************************************************************************)
EXTENDS Lifecycle, TLAPS

\* What the calls of Setup do, by their number, and when the kernel refuses them.
LEMMA SetupFacts ==
  ASSUME NEW g \in Gadget, NEW i \in 1..8
  PROVE  LET s == SetupSteps[i]
         IN  /\ Done(g, s) \in Gadget
             /\ Done(g, s).lun = IF i = 5 THEN "this" ELSE g.lun
             /\ i = 8 => Done(g, s).bound
             /\ i < 8 => Done(g, s).bound = g.bound
             /\ "gadget" \in Done(g, s).dirs <=> i = 1 \/ "gadget" \in g.dirs
             /\ "link" \in Done(g, s).dirs <=> i = 6 \/ "link" \in g.dirs
             /\ Refused(g, s) <=> (i = 6 /\ "link" \in g.dirs) \/ (i = 8 /\ g.bound)
             /\ s.op = "write" <=> i \in {5, 8}
  <1>1. CASE i = 1
    <2>1. SetupSteps[i] = [op |-> "mkdir", node |-> "gadget"]
      BY <1>1 DEF SetupSteps
    <2>2. Done(g, SetupSteps[i]) = [dirs |-> g.dirs \cup {"gadget"}, lun |-> g.lun, bound |-> g.bound]
      BY <2>1 DEF Done
    <2>3. Done(g, SetupSteps[i]) \in Gadget
      BY <2>2 DEF Gadget, Nodes
    <2> QED BY <1>1, <2>1, <2>2, <2>3 DEF Refused
  <1>2. CASE i = 2
    <2>1. SetupSteps[i] = [op |-> "mkdir", node |-> "strings"]
      BY <1>2 DEF SetupSteps
    <2>2. Done(g, SetupSteps[i]) = [dirs |-> g.dirs \cup {"strings"}, lun |-> g.lun, bound |-> g.bound]
      BY <2>1 DEF Done
    <2>3. Done(g, SetupSteps[i]) \in Gadget
      BY <2>2 DEF Gadget, Nodes
    <2> QED BY <1>2, <2>1, <2>2, <2>3 DEF Refused
  <1>3. CASE i = 3
    <2>1. SetupSteps[i] = [op |-> "mkdir", node |-> "config"]
      BY <1>3 DEF SetupSteps
    <2>2. Done(g, SetupSteps[i]) = [dirs |-> g.dirs \cup {"config"}, lun |-> g.lun, bound |-> g.bound]
      BY <2>1 DEF Done
    <2>3. Done(g, SetupSteps[i]) \in Gadget
      BY <2>2 DEF Gadget, Nodes
    <2> QED BY <1>3, <2>1, <2>2, <2>3 DEF Refused
  <1>4. CASE i = 4
    <2>1. SetupSteps[i] = [op |-> "mkdir", node |-> "function"]
      BY <1>4 DEF SetupSteps
    <2>2. Done(g, SetupSteps[i]) = [dirs |-> g.dirs \cup {"function"}, lun |-> g.lun, bound |-> g.bound]
      BY <2>1 DEF Done
    <2>3. Done(g, SetupSteps[i]) \in Gadget
      BY <2>2 DEF Gadget, Nodes
    <2> QED BY <1>4, <2>1, <2>2, <2>3 DEF Refused
  <1>5. CASE i = 5
    <2>1. SetupSteps[i] = [op |-> "write", node |-> "file"]
      BY <1>5 DEF SetupSteps
    <2>2. Done(g, SetupSteps[i]) = [dirs |-> g.dirs, lun |-> "this", bound |-> g.bound]
      BY <2>1 DEF Done
    <2>3. Done(g, SetupSteps[i]) \in Gadget
      BY <2>2 DEF Gadget, Nodes
    <2> QED BY <1>5, <2>1, <2>2, <2>3 DEF Refused
  <1>6. CASE i = 6
    <2>1. SetupSteps[i] = [op |-> "symlink", node |-> "link"]
      BY <1>6 DEF SetupSteps
    <2>2. Done(g, SetupSteps[i]) = [dirs |-> g.dirs \cup {"link"}, lun |-> g.lun, bound |-> g.bound]
      BY <2>1 DEF Done
    <2>3. Done(g, SetupSteps[i]) \in Gadget
      BY <2>2 DEF Gadget, Nodes
    <2> QED BY <1>6, <2>1, <2>2, <2>3 DEF Refused
  <1>7. CASE i = 7
    <2>1. SetupSteps[i] = [op |-> "findUDC", node |-> "udc"]
      BY <1>7 DEF SetupSteps
    <2>2. Done(g, SetupSteps[i]) = [dirs |-> g.dirs, lun |-> g.lun, bound |-> g.bound]
      BY <2>1 DEF Done
    <2>3. Done(g, SetupSteps[i]) \in Gadget
      BY <2>2 DEF Gadget, Nodes
    <2> QED BY <1>7, <2>1, <2>2, <2>3 DEF Refused
  <1>8. CASE i = 8
    <2>1. SetupSteps[i] = [op |-> "write", node |-> "UDC"]
      BY <1>8 DEF SetupSteps
    <2>2. Done(g, SetupSteps[i]) = [dirs |-> g.dirs, lun |-> g.lun, bound |-> TRUE]
      BY <2>1 DEF Done
    <2>3. Done(g, SetupSteps[i]) \in Gadget
      BY <2>2 DEF Gadget, Nodes
    <2> QED BY <1>8, <2>1, <2>2, <2>3 DEF Refused
  <1> QED BY <1>1, <1>2, <1>3, <1>4, <1>5, <1>6, <1>7, <1>8

\* What a removal of Teardown leaves, by its number.
LEMMA TeardownFacts ==
  ASSUME NEW g \in Gadget, NEW i \in 1..5, NEW h \in Removals(g, TeardownSteps[i])
  PROVE  /\ h \in Gadget
         /\ i = 1 \/ "link" \notin g.dirs => "link" \notin h.dirs
         /\ i = 1 \/ ~g.bound => ~h.bound
         /\ i = 5 /\ "link" \notin g.dirs => h = NoGadget
         /\ i = 5 => h = NoGadget \/ "gadget" \in h.dirs
         /\ i < 5 /\ "gadget" \in g.dirs => "gadget" \in h.dirs
         /\ g = NoGadget => h = NoGadget
         /\ g.lun # "this" => h.lun # "this"
  <1> USE DEF NoGadget, Gadget, Nodes
  <1>1. CASE i = 1
    <2>1. TeardownSteps[i] = "link"
      BY <1>1 DEF TeardownSteps
    <2>2. h = [dirs |-> g.dirs \ {"link"}, lun |-> g.lun, bound |-> FALSE]
      BY <2>1 DEF Removals, Removed
    <2>3. {} \ {"link"} = {}
      OBVIOUS
    <2>4. g = NoGadget => h = NoGadget
      BY <2>2, <2>3
    <2>5. h \in Gadget /\ "link" \notin h.dirs /\ ~h.bound
      BY <2>2
    <2>6. ("gadget" \in g.dirs => "gadget" \in h.dirs) /\ h.lun = g.lun
      BY <2>2
    <2> HIDE DEF NoGadget, Gadget
    <2> QED BY <1>1, <2>4, <2>5, <2>6
  <1>2. CASE i = 2
    <2>1. TeardownSteps[i] = "function"
      BY <1>2 DEF TeardownSteps
    <2> QED BY <1>2, <2>1 DEF Removals, Removed
  <1>3. CASE i = 3
    <2>1. TeardownSteps[i] = "config"
      BY <1>3 DEF TeardownSteps
    <2>2. h = [dirs |-> g.dirs \ {"config", "link"}, lun |-> g.lun, bound |-> FALSE]
      BY <2>1 DEF Removals, Removed
    <2>3. {} \ {"config", "link"} = {}
      OBVIOUS
    <2>4. g = NoGadget => h = NoGadget
      BY <2>2, <2>3
    <2>5. h \in Gadget /\ "link" \notin h.dirs /\ ~h.bound
      BY <2>2
    <2>6. ("gadget" \in g.dirs => "gadget" \in h.dirs) /\ h.lun = g.lun
      BY <2>2
    <2> HIDE DEF NoGadget, Gadget
    <2> QED BY <1>3, <2>4, <2>5, <2>6
  <1>4. CASE i = 4
    <2>1. TeardownSteps[i] = "strings"
      BY <1>4 DEF TeardownSteps
    <2> QED BY <1>4, <2>1 DEF Removals, Removed
  <1>5. CASE i = 5
    <2>1. TeardownSteps[i] = "gadget"
      BY <1>5 DEF TeardownSteps
    <2>2. CASE h = NoGadget
      BY <1>5, <2>2
    <2>3. CASE h # NoGadget
      <3>1. /\ {"link", "function"} \subseteq g.dirs
            /\ h = [dirs |-> {"gadget", "function"}, lun |-> g.lun, bound |-> FALSE]
        BY <2>1, <2>3 DEF Removals
      <3>2. "link" \in g.dirs
        BY <3>1
      <3> QED BY <1>5, <3>1, <3>2
    <2> QED BY <2>2, <2>3
  <1> QED BY <1>1, <1>2, <1>3, <1>4, <1>5
-----------------------------------------------------------------------------
(***************************************************************************)
(* The invariant is inductive.                                             *)
(***************************************************************************)

\* The invariant holds at the start.
LEMMA InitIndInv == Init => IndInv
  <1> SUFFICES ASSUME Init PROVE IndInv
    OBVIOUS
  <1>a. NoGadget \in Gadget
    BY DEF NoGadget, Gadget
  <1>b. main \in MainPC
    BY DEF Init, MainPC
  <1>c. starts \in Nat /\ faults \in Nat /\ step \in 1..9
    BY DEF Init
  <1>1. TypeOK
    BY <1>a, <1>b, <1>c DEF Init, TypeOK
  <1>2. GadgetInv /\ TeardownInv /\ SetupInv
    BY DEF Init, GadgetInv, TeardownInv, SetupInv, NoGadget, Shutdown
  <1>3. WriteInv /\ MountInv
    BY DEF Init, WriteInv, MountInv, PanicOnlyIfHeld, DeadMountExplained, Shutdown, NoGadget
  <1> QED BY <1>1, <1>2, <1>3 DEF IndInv

\* A call of Setup keeps the invariant.
LEMMA SetupKeeps == ASSUME IndInv, SetupStep PROVE IndInv'
  <1> DEFINE s == SetupSteps[step]
  <1>1. Len(SetupSteps) = 8
    BY DEF SetupSteps
  <1>2. main = "setup" /\ step \in 1..8 /\ gadget \in Gadget
    BY <1>1 DEF SetupStep, IndInv, TypeOK
  <1>3. UNCHANGED <<mount, other, closing, closed, write, sender, script, pidfile, starts>>
    BY DEF SetupStep, io, shell
  <1>4. /\ Done(gadget, s) \in Gadget
        /\ Done(gadget, s).lun = IF step = 5 THEN "this" ELSE gadget.lun
        /\ step = 8 => Done(gadget, s).bound
        /\ step < 8 => Done(gadget, s).bound = gadget.bound
        /\ "gadget" \in Done(gadget, s).dirs <=> step = 1 \/ "gadget" \in gadget.dirs
        /\ "link" \in Done(gadget, s).dirs <=> step = 6 \/ "link" \in gadget.dirs
        /\ Refused(gadget, s) <=> (step = 6 /\ "link" \in gadget.dirs) \/ (step = 8 /\ gadget.bound)
        /\ s.op = "write" <=> step \in {5, 8}
    BY <1>2, SetupFacts
  <1> DEFINE d == Done(gadget, s)
             refused == Refused(gadget, s)
             isWrite == s.op = "write"
  <1>5. \/ /\ ~refused /\ gadget' = d /\ step' = step + 1
           /\ UNCHANGED <<main, after, faults, run>>
        \/ /\ isWrite /\ step' = step + 1 /\ run' = run \cup {"write"}
           /\ UNCHANGED <<main, after, gadget>>
           /\ faults' \in {faults, faults + 1}
        \/ /\ main' = "teardown" /\ step' = 1 /\ after' = "unmount" /\ UNCHANGED <<run, gadget>>
           /\ faults' \in {faults, faults + 1}
    BY DEF SetupStep
  <1> HIDE DEF d, refused, isWrite, s
  <1> USE DEF IndInv, TypeOK, GadgetInv, TeardownInv, SetupInv, WriteInv, MountInv,
              PanicOnlyIfHeld, DeadMountExplained, Shutdown, MainPC
  <1>6. CASE /\ ~refused /\ gadget' = d /\ step' = step + 1
             /\ UNCHANGED <<main, after, faults, run>>
    <2>1. TypeOK'
      BY <1>2, <1>3, <1>4, <1>6 DEF d
    <2>2. GadgetInv'
      BY <1>2, <1>4, <1>6 DEF d
    <2>3. TeardownInv'
      BY <1>2, <1>4, <1>6 DEF d, refused
    <2>4. SetupInv'
      BY <1>2, <1>4, <1>6 DEF d
    <2>5. WriteInv' /\ MountInv'
      BY <1>2, <1>3, <1>4, <1>6 DEF d
    <2> QED BY <2>1, <2>2, <2>3, <2>4, <2>5 DEF IndInv
  <1>7. CASE /\ isWrite /\ step' = step + 1 /\ run' = run \cup {"write"}
             /\ UNCHANGED <<main, after, gadget>>
             /\ faults' \in {faults, faults + 1}
    BY <1>2, <1>3, <1>4, <1>7 DEF d, refused, isWrite
  <1>8. CASE /\ main' = "teardown" /\ step' = 1 /\ after' = "unmount" /\ UNCHANGED <<run, gadget>>
             /\ faults' \in {faults, faults + 1}
    BY <1>2, <1>3, <1>4, <1>8
  <1> QED BY <1>5, <1>6, <1>7, <1>8

\* A removal of Teardown keeps the invariant.
LEMMA TeardownKeeps == ASSUME IndInv, TeardownStep PROVE IndInv'
  <1>1. Len(TeardownSteps) = 5
    BY DEF TeardownSteps
  <1>2. main = "teardown" /\ step \in 1..5 /\ gadget \in Gadget
    BY <1>1 DEF TeardownStep, IndInv, TypeOK
  <1>3. UNCHANGED <<mount, other, closing, closed, write, sender, script, pidfile, starts, after>>
    BY DEF TeardownStep, Goto, io, shell
  <1>4. \/ /\ step = 1 /\ "gadget" \notin gadget.dirs
           /\ main' = after /\ step' = 1 /\ UNCHANGED <<gadget, faults, run>>
        \/ /\ step = 1 => "gadget" \in gadget.dirs
           /\ gadget' \in Removals(gadget, TeardownSteps[step])
           /\ step' = step + 1 /\ UNCHANGED <<main, faults, run>>
        \/ /\ run' = run \cup {"remove"} /\ faults' = faults + 1
           /\ step' = step + 1 /\ UNCHANGED <<main, gadget>>
    BY DEF TeardownStep, Goto, Fault
  <1> USE DEF IndInv, TypeOK, GadgetInv, TeardownInv, SetupInv, WriteInv, MountInv,
              PanicOnlyIfHeld, DeadMountExplained, Shutdown, MainPC
  <1>5. CASE /\ step = 1 /\ "gadget" \notin gadget.dirs
             /\ main' = after /\ step' = 1 /\ UNCHANGED <<gadget, faults, run>>
    <2>1. "link" \notin gadget.dirs /\ ~gadget.bound /\ gadget = NoGadget
      BY <1>5 DEF NoGadget
    <2> QED BY <1>2, <1>3, <1>5, <2>1
  <1>6. CASE /\ step = 1 => "gadget" \in gadget.dirs
             /\ gadget' \in Removals(gadget, TeardownSteps[step])
             /\ step' = step + 1 /\ UNCHANGED <<main, faults, run>>
    <2>1. /\ gadget' \in Gadget
          /\ step = 1 \/ "link" \notin gadget.dirs => "link" \notin gadget'.dirs
          /\ step = 1 \/ ~gadget.bound => ~gadget'.bound
          /\ step = 5 /\ "link" \notin gadget.dirs => gadget' = NoGadget
          /\ step = 5 => gadget' = NoGadget \/ "gadget" \in gadget'.dirs
          /\ step < 5 /\ "gadget" \in gadget.dirs => "gadget" \in gadget'.dirs
          /\ gadget = NoGadget => gadget' = NoGadget
          /\ gadget.lun # "this" => gadget'.lun # "this"
      BY <1>2, <1>6, TeardownFacts
    <2>2. TypeOK'
      BY <1>2, <1>3, <1>6, <2>1
    <2>3. GadgetInv'
      BY <1>2, <1>6, <2>1
    <2>4. TeardownInv'
      BY <1>2, <1>6, <2>1
    <2>5. SetupInv' /\ WriteInv'
      BY <1>2, <1>3, <1>6
    <2>6. MountInv'
      BY <1>2, <1>3, <1>6, <2>1
    <2> QED BY <2>2, <2>3, <2>4, <2>5, <2>6 DEF IndInv
  <1>7. CASE /\ run' = run \cup {"remove"} /\ faults' = faults + 1
             /\ step' = step + 1 /\ UNCHANGED <<main, gadget>>
    BY <1>2, <1>3, <1>7
  <1> QED BY <1>4, <1>5, <1>6, <1>7

\* What a lazy unmount does to a LUN.
LEMMA DetachedFacts ==
  ASSUME gadget \in Gadget
  PROVE  /\ Detached \in Gadget
         /\ Detached.dirs = gadget.dirs /\ Detached.bound = gadget.bound
         /\ gadget = NoGadget => Detached = NoGadget
         /\ Detached.lun # "this"
  <1>1. /\ Detached \in Gadget
        /\ Detached.dirs = gadget.dirs /\ Detached.bound = gadget.bound
        /\ Detached.lun # "this"
    BY DEF Detached, Gadget
  <1>2. gadget = NoGadget => Detached = NoGadget
    BY DEF Detached, NoGadget
  <1> QED BY <1>1, <1>2

\* The types of what the end of the process changes.
LEMMA EndsTypes ==
  ASSUME TypeOK, Ends
  PROVE  /\ main' \in MainPC /\ step' \in 1..9 /\ after' \in {"setup", "unmount"}
         /\ mount' \in {"none", "live", "dead"} /\ write' \in {"idle", "checked"}
         /\ closing' \in BOOLEAN /\ closed' \in BOOLEAN /\ sender' \in BOOLEAN
  <1>1. main' \in MainPC /\ step' \in 1..9 /\ after' \in {"setup", "unmount"}
    BY DEF TypeOK, Ends, MainPC
  <1>2. mount' \in {"none", "live", "dead"} /\ write' \in {"idle", "checked"}
    BY DEF TypeOK, Ends
  <1>3. closing' \in BOOLEAN /\ closed' \in BOOLEAN /\ sender' \in BOOLEAN
    BY DEF TypeOK, Ends
  <1> QED BY <1>1, <1>2, <1>3

\* Every step keeps the type invariant.
LEMMA TypeStep == ASSUME IndInv, [Next]_vars PROVE TypeOK'
  <1>a. TypeOK
    BY DEF IndInv
  <1>b. CASE SetupStep \/ TeardownStep
    BY <1>b, SetupKeeps, TeardownKeeps DEF IndInv
  <1>c. CASE Unmount
    <2>1. main' \in MainPC /\ step' \in 1..9 /\ after' \in {"setup", "unmount"}
      BY <1>a, <1>c DEF TypeOK, Unmount, Goto, MainPC, Shutdown
    <2>2. run' \subseteq {"remove", "write", "unmount", "other", "panic", "died"}
      BY <1>a, <1>c DEF TypeOK, Unmount
    <2>3. mount' \in {"none", "live", "dead"}
      BY <1>a, <1>c DEF TypeOK, Unmount
    <2> QED BY <1>a, <1>c, <2>1, <2>2, <2>3 DEF TypeOK, Unmount, io, shell
  <1>d. CASE CloseSHM \/ Killed
    BY <1>a, <1>d, EndsTypes DEF TypeOK, CloseSHM, Killed, shell
  <1>e. CASE FallbackPanics
    BY <1>a, <1>e, EndsTypes DEF TypeOK, FallbackPanics, shell
  <1>f. CASE ScriptTerminates
    <2>1. CASE Ends
      BY <1>a, <1>f, <2>1, EndsTypes DEF TypeOK, ScriptTerminates
    <2>2. CASE ~Ends
      <3>1. main' \in MainPC /\ step' \in 1..9 /\ after' \in {"setup", "unmount"}
        BY <1>a, <1>f, <2>2 DEF TypeOK, ScriptTerminates, program, MainPC
      <3> QED BY <1>a, <1>f, <2>2, <3>1 DEF TypeOK, ScriptTerminates, io
    <2> QED BY <2>1, <2>2
  <1>g. CASE Mount
    <2>1. CASE Ends
      BY <1>a, <1>g, <2>1, EndsTypes DEF TypeOK, Mount, Fault, Goto, io, shell
    <2>2. CASE ~Ends
      BY <1>a, <1>g, <2>2 DEF TypeOK, Mount, Goto, io, shell, MainPC
    <2> QED BY <2>1, <2>2
  <1> USE <1>a DEF TypeOK, Shutdown, MainPC, program, io, shell, Goto, Fault
  <1>1. CASE Listen
    BY <1>1 DEF Listen
  <1>2. CASE SetupReturns
    BY <1>2 DEF SetupReturns
  <1>3. CASE TeardownReturns
    BY <1>3 DEF TeardownReturns
  <1>4. CASE SetClosing
    BY <1>4 DEF SetClosing
  <1>5. CASE WaitSenders
    BY <1>5 DEF WaitSenders
  <1>6. CASE CloseWrites
    BY <1>6 DEF CloseWrites
  <1>7. CASE Drain
    BY <1>7 DEF Drain
  <1>8. CASE WriteChecks
    BY <1>8 DEF WriteChecks
  <1>9. CASE WriteSends
    <2>1. sender' \in {sender, TRUE}
      BY <1>9 DEF WriteSends
    <2>2. sender' \in BOOLEAN
      BY <2>1
    <2> QED BY <1>9, <2>2 DEF WriteSends
  <1>10. CASE FallbackSends
    BY <1>10 DEF FallbackSends
  <1>11. CASE OtherOpens \/ OtherCloses
    BY <1>11 DEF OtherOpens, OtherCloses
  <1>12. CASE ScriptStart
    BY <1>12 DEF ScriptStart
  <1>13. CASE ScriptStarted \/ ScriptGivesUp
    BY <1>13 DEF ScriptStarted, ScriptGivesUp
  <1>14. CASE ScriptStops
    <2>1. /\ gadget' \in {gadget, Detached} /\ mount' \in {mount, "none"}
          /\ other' \in {other, FALSE} /\ faults' \in {faults, faults + 1}
      BY <1>14 DEF ScriptStops
    <2>2. gadget' \in Gadget
      BY <2>1, DetachedFacts
    <2>3. other' \in BOOLEAN
      BY <2>1
    <2>4. mount' \in {"none", "live", "dead"} /\ faults' \in Nat
      BY <2>1
    <2> QED BY <1>14, <2>2, <2>3, <2>4 DEF ScriptStops
  <1>15. CASE UNCHANGED vars
    BY <1>15 DEF vars
  <1> HIDE DEF TypeOK
  <1> QED
    BY <1>b, <1>c, <1>d, <1>e, <1>f, <1>g, <1>1, <1>2, <1>3, <1>4, <1>5, <1>6, <1>7, <1>8, <1>9, <1>10, <1>11, <1>12, <1>13, <1>14, <1>15
    DEF Next

\* Every step keeps the invariant.
LEMMA NextIndInv == ASSUME IndInv, [Next]_vars PROVE IndInv'
  <1> USE DEF IndInv, TypeOK, GadgetInv, TeardownInv, SetupInv, WriteInv, MountInv,
              PanicOnlyIfHeld, DeadMountExplained, Shutdown, MainPC, program, io, shell, Goto, Fault, Ends
  <1>a. TypeOK'
    BY TypeStep
  <1>1. CASE Mount
    <2>1. GadgetInv' /\ TeardownInv' /\ SetupInv'
      BY <1>1 DEF Mount
    <2>2. WriteInv' /\ MountInv'
      BY <1>1 DEF Mount
    <2> QED BY <1>a, <2>1, <2>2 DEF IndInv
  <1>2. CASE Listen
    <2>1. GadgetInv' /\ TeardownInv' /\ SetupInv'
      BY <1>2 DEF Listen
    <2>2. WriteInv' /\ MountInv'
      BY <1>2 DEF Listen
    <2> QED BY <1>a, <2>1, <2>2 DEF IndInv
  <1>3. CASE SetupReturns
    <2>1. step > 8
      BY <1>3 DEF SetupReturns, SetupSteps
    <2> QED BY <1>3, <2>1 DEF SetupReturns
  <1>4. CASE TeardownReturns
    <2>1. step > 5
      BY <1>4 DEF TeardownReturns, TeardownSteps
    <2>2. NoGadget.dirs = {} /\ ~NoGadget.bound
      BY DEF NoGadget
    <2> QED BY <1>4, <2>1, <2>2 DEF TeardownReturns
  <1>5. CASE Unmount
    <2>1. GadgetInv' /\ TeardownInv' /\ SetupInv'
      BY <1>5 DEF Unmount
    <2>2. WriteInv'
      BY <1>5 DEF Unmount
    <2>3. ASSUME Held PROVE MountInv'
      <3>1. gadget.lun = "this" => "remove" \in run
        BY <1>5 DEF Unmount, NoGadget
      <3>2. run' \cap {"remove", "other"} # {} /\ "unmount" \in run'
        BY <1>5, <2>3, <3>1 DEF Unmount, Held
      <3> QED BY <1>5, <2>3, <3>2 DEF Unmount
    <2>4. ASSUME ~Held PROVE MountInv'
      BY <1>5, <2>4 DEF Unmount, Held
    <2> QED BY <1>a, <2>1, <2>2, <2>3, <2>4 DEF IndInv
  <1>6. CASE SetClosing
    BY <1>6 DEF SetClosing
  <1>7. CASE WaitSenders
    BY <1>7 DEF WaitSenders
  <1>8. CASE CloseWrites
    BY <1>8 DEF CloseWrites
  <1>9. CASE Drain
    BY <1>9 DEF Drain
  <1>10. CASE CloseSHM
    <2>1. GadgetInv' /\ TeardownInv' /\ SetupInv'
      BY <1>10 DEF CloseSHM
    <2>2. WriteInv' /\ MountInv'
      BY <1>10 DEF CloseSHM
    <2> QED BY <1>a, <2>1, <2>2 DEF IndInv
  <1>11. CASE WriteChecks
    BY <1>11 DEF WriteChecks, HostWrites
  <1>12. CASE WriteSends
    <2>1. GadgetInv' /\ TeardownInv' /\ SetupInv'
      BY <1>12 DEF WriteSends
    <2>2. WriteInv' /\ MountInv'
      BY <1>12 DEF WriteSends
    <2> QED BY <1>a, <2>1, <2>2 DEF IndInv
  <1>13. CASE FallbackSends
    <2>1. GadgetInv' /\ TeardownInv' /\ SetupInv'
      BY <1>13 DEF FallbackSends
    <2>2. WriteInv' /\ MountInv'
      BY <1>13 DEF FallbackSends
    <2> QED BY <1>a, <2>1, <2>2 DEF IndInv
  <1>14. CASE FallbackPanics
    <2>1. GadgetInv' /\ TeardownInv' /\ SetupInv'
      BY <1>14 DEF FallbackPanics
    <2>2. WriteInv' /\ MountInv'
      BY <1>14 DEF FallbackPanics
    <2> QED BY <1>a, <2>1, <2>2 DEF IndInv
  <1>15. CASE OtherOpens \/ OtherCloses
    <2>1. GadgetInv' /\ TeardownInv' /\ SetupInv'
      BY <1>15 DEF OtherOpens, OtherCloses
    <2>2. WriteInv' /\ MountInv'
      BY <1>15 DEF OtherOpens, OtherCloses
    <2> QED BY <1>a, <2>1, <2>2 DEF IndInv
  <1>16. CASE ScriptStart
    <2>1. gadget.lun # "this" /\ UNCHANGED gadget
      BY <1>16 DEF ScriptStart, Held
    <2> QED BY <1>16, <2>1 DEF ScriptStart
  <1>17. CASE ScriptStarted
    BY <1>17 DEF ScriptStarted
  <1>18. CASE ScriptGivesUp
    BY <1>18 DEF ScriptGivesUp
  <1>19. CASE ScriptTerminates
    <2>1. GadgetInv' /\ TeardownInv' /\ SetupInv'
      BY <1>19 DEF ScriptTerminates
    <2>2. WriteInv' /\ MountInv'
      BY <1>19 DEF ScriptTerminates
    <2> QED BY <1>a, <2>1, <2>2 DEF IndInv
  <1>20. CASE ScriptStops
    <2>1. GadgetInv' /\ TeardownInv' /\ SetupInv'
      BY <1>20, DetachedFacts DEF ScriptStops
    <2>2. WriteInv'
      BY <1>20 DEF ScriptStops
    <2>3. \/ mount' = "none" /\ gadget'.lun # "this"
          \/ mount' = mount /\ gadget' = gadget
      BY <1>20, DetachedFacts DEF ScriptStops
    <2>4. MountInv'
      BY <1>20, <2>3 DEF ScriptStops
    <2> QED BY <1>a, <2>1, <2>2, <2>4 DEF IndInv
  <1>21. CASE Killed
    <2>1. GadgetInv' /\ TeardownInv' /\ SetupInv'
      BY <1>21 DEF Killed
    <2>2. WriteInv' /\ MountInv'
      BY <1>21 DEF Killed
    <2> QED BY <1>a, <2>1, <2>2 DEF IndInv
  <1>22. CASE UNCHANGED vars
    BY <1>22 DEF vars
  <1> HIDE DEF IndInv
  <1> QED
    BY <1>1, <1>2, <1>3, <1>4, <1>5, <1>6, <1>7, <1>8, <1>9, <1>10, <1>11, <1>12, <1>13,
       <1>14, <1>15, <1>16, <1>17, <1>18, <1>19, <1>20, <1>21, <1>22,
       SetupKeeps, TeardownKeeps DEF Next

-----------------------------------------------------------------------------
(***************************************************************************)
(* The theorems.                                                           *)
(***************************************************************************)

\* The invariant behind the properties: where main() is says what is left of the
\* gadget, who may still write, and what has become of the mount.
THEOREM Inductive == Spec => []IndInv
  <1>1. Init => IndInv
    BY InitIndInv
  <1>2. IndInv /\ [Next]_vars => IndInv'
    BY NextIndInv
  <1> QED BY <1>1, <1>2, PTL DEF Spec

\* Wherever an earlier run was killed, Setup finds the gadget as it needs it, unless
\* one of its own removals failed.
THEOREM SetupIsNotStopped == Spec => []SetupStartsClean
  <1>1. IndInv => SetupStartsClean
    <2> SUFFICES ASSUME IndInv, main = "setup", step <= Len(SetupSteps),
                        Refused(gadget, SetupSteps[step]), "remove" \notin run
                 PROVE  FALSE
      BY DEF SetupStartsClean
    <2>1. step \in 1..8 /\ gadget \in Gadget
      BY DEF IndInv, TypeOK, SetupSteps
    <2>2. (step = 6 /\ "link" \in gadget.dirs) \/ (step = 8 /\ gadget.bound)
      BY <2>1, SetupFacts
    <2> QED BY <2>2 DEF IndInv, TeardownInv
  <1> QED BY <1>1, Inductive, PTL

\* "USB gadget active" is true, unless a writeFile of Setup failed.
THEOREM ActiveGadgetIsBound == Spec => []ActiveIsBound
  <1>1. IndInv => ActiveIsBound
    BY DEF IndInv, SetupInv, ActiveIsBound
  <1> QED BY <1>1, Inductive, PTL

\* Shutdown ends in a panic only if the unmount failed.
THEOREM NoPanicAfterUnmount == Spec => []PanicOnlyIfHeld
  <1>1. IndInv => PanicOnlyIfHeld
    BY DEF IndInv, WriteInv
  <1> QED BY <1>1, Inductive, PTL

\* shutdown() leaves neither gadget nor mount nor sender behind.
THEOREM ShutdownIsClean == Spec => []CleanEnd
  <1>1. IndInv => CleanEnd
    BY DEF IndInv, TeardownInv, WriteInv, Shutdown, CleanEnd
  <1> QED BY <1>1, Inductive, PTL

\* A mount is left dead only by a run that a signal killed, or that could not unmount
\* because a removal of Teardown failed or another process had the disk open.
THEOREM DeadMountHasCause == Spec => []DeadMountExplained
  <1>1. IndInv => DeadMountExplained
    BY DEF IndInv, MountInv
  <1> QED BY <1>1, Inductive, PTL
=============================================================================
