------------------------------ MODULE USBGadget ------------------------------
(***************************************************************************)
(* What Setup and Teardown do to the gadget's directories in configfs, one *)
(* call to the kernel at a time.  The kernel keeps the directories across  *)
(* runs of the program, holds the LUN's file open, and has rules of its    *)
(* own: a function that is linked into a configuration cannot be removed,  *)
(* a link cannot be made twice, and a gadget that loses its link is        *)
(* unbound from its controller.                                            *)
(***************************************************************************)
EXTENDS Integers, Sequences

(***************************************************************************)
(* dirs are the directories below and including gadgetPath, by their last  *)
(* part ("config" with its strings), and "link" is the symbolic link.  lun *)
(* is the file the LUN has open: the one of the present mount ("this"), of *)
(* an earlier one ("stale"), or none.                                      *)
(***************************************************************************)
Nodes == {"gadget", "strings", "config", "function", "link"}
Gadget == [dirs : SUBSET Nodes, lun : {"none", "this", "stale"}, bound : BOOLEAN]
NoGadget == [dirs |-> {}, lun |-> "none", bound |-> FALSE]

\* Setup after its Teardown.  The writes of attributes that nothing depends on
\* (identifiers, strings, LUN flags) are left out.
SetupSteps ==
    <<[op |-> "mkdir", node |-> "gadget"], [op |-> "mkdir", node |-> "strings"],
      [op |-> "mkdir", node |-> "config"], [op |-> "mkdir", node |-> "function"],
      [op |-> "write", node |-> "file"], [op |-> "symlink", node |-> "link"],
      [op |-> "findUDC", node |-> "udc"], [op |-> "write", node |-> "UDC"]>>

TeardownSteps == <<"link", "function", "config", "strings", "gadget">>

-----------------------------------------------------------------------------
(***************************************************************************)
(* The kernel's part.                                                      *)
(***************************************************************************)

\* The call fails whatever the fault model says.
Refused(g, s) ==
    \/ s.op = "symlink" /\ "link" \in g.dirs
    \/ s.op = "write" /\ s.node = "UDC" /\ g.bound

\* What a call of Setup does if it succeeds.
Done(g, s) ==
    [dirs  |-> IF s.op \in {"mkdir", "symlink"} THEN g.dirs \cup {s.node} ELSE g.dirs,
     lun   |-> IF s.op = "write" /\ s.node = "file" THEN "this" ELSE g.lun,
     bound |-> IF s.op = "write" /\ s.node = "UDC" THEN TRUE ELSE g.bound]

\* What the removal of a directory leaves of the others: a function that is linked
\* cannot be removed, and the link goes with its configuration.
Removed(g, node) ==
    IF node = "function" /\ "link" \in g.dirs THEN g
    ELSE [dirs  |-> g.dirs \ (IF node = "config" THEN {"config", "link"} ELSE {node}),
          lun   |-> IF node = "function" THEN "none" ELSE g.lun,
          bound |-> IF node \in {"link", "config"} THEN FALSE ELSE g.bound]

\* os.RemoveAll goes into the directories it cannot remove at once, in the order
\* readdir has, so a function is gone with the gadget only if its link was removed
\* before it was tried.
Removals(g, node) ==
    IF node # "gadget" THEN {Removed(g, node)}
    ELSE {NoGadget} \cup (IF {"link", "function"} \subseteq g.dirs
                          THEN {[dirs |-> {"gadget", "function"}, lun |-> g.lun, bound |-> FALSE]}
                          ELSE {})
=============================================================================
