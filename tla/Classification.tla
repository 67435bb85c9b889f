--------------------------- MODULE Classification ---------------------------
(***************************************************************************)
(* What the MPEG-TS scanner promises of the writes it is fed: which of     *)
(* them it takes as the continuation of the last one, from where captured  *)
(* cells can come, and where its buffer starts afterwards.  Whether a      *)
(* probe succeeds and which of the buffered cells are captured is open.    *)
(* TSScanner implements it, and StagedDisk builds on it.                   *)
(***************************************************************************)
EXTENDS DiskCells, Sequences

VARIABLES
    scanner,    \* TSScanner without its bytes
    observed    \* what the sniffer said of each write it was fed

snifVars == <<scanner, observed>>

\* ObservedWrite without its event, and TSScanner.
Observation == [ts : BOOLEAN, captures : SUBSET Cells]
ScannerState == [detected : BOOLEAN, haveExpected : BOOLEAN,
                 expected : 0..Size, bufferStart : 0..Size]

ClassInit ==
    /\ scanner = [detected |-> FALSE, haveExpected |-> FALSE, expected |-> 0, bufferStart |-> 0]
    /\ observed = <<>>

\* emit: some of the cells between the start of the buffer and where it
\* starts afterwards are captured.  A successful probe captures some.
Emit(from, end, probed) ==
    \E start \in from..end :
        /\ scanner' = [detected |-> TRUE, haveExpected |-> TRUE,
                       expected |-> end, bufferStart |-> start]
        /\ \E cells \in SUBSET Span(from, start) :
              /\ probed => cells # {}
              /\ observed' = Append(observed, [ts |-> TRUE, captures |-> cells])

NotTS == observed' = Append(observed, [ts |-> FALSE, captures |-> {}])

\* Feed: a detected stream goes on without a probe; any other write is
\* probed, after the bytes kept of its predecessor if it continues it.
Classify(r) ==
    LET contiguous == scanner.haveExpected /\ r.start = scanner.expected
        from == IF contiguous THEN scanner.bufferStart ELSE r.start
    IN  \/ scanner.detected /\ contiguous /\ Emit(from, r.end, FALSE)
        \/ ~(scanner.detected /\ contiguous) /\ Emit(from, r.end, TRUE)
        \/ scanner.detected /\ ~contiguous /\ NotTS /\ UNCHANGED scanner
        \/ /\ ~scanner.detected /\ NotTS
           /\ \E start \in from..(r.end - 1) :
                 scanner' = [detected |-> FALSE, haveExpected |-> TRUE,
                             expected |-> r.end, bufferStart |-> start]

ClassSpec == ClassInit /\ [][\E r \in Ranges : Classify(r)]_snifVars
=============================================================================
