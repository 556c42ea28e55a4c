--------------------------- MODULE MCEvidenceLog ---------------------------
(***************************************************************************)
(* EvidenceLog over three processes, the third of which takes up the       *)
(* process id of one that has died, the logs it may start from, and the    *)
(* logs that long histories have left behind.                              *)
(***************************************************************************)
EXTENDS EvidenceLog

CONSTANTS a, b, c, k1, k2, e1, e2

MCProcs  == {a, b, c}
MCPidOf  == (a :> 1) @@ (b :> 2) @@ (c :> 1)
MCKeys   == {k1, k2}
MCEpochs == {e1, e2}

\* A new store; one that a crash tore before its genesis was complete, and one
\* that it tore later; one with a record that does not parse before one that does.
MCInitialLogs ==
  {<<>>, <<Torn>>, <<Genesis(e1), Torn>>,
   <<Genesis(e1), Event(0, k1, {}), Bad, Event(0, k2, {})>>}

MCLongest == 5

\* The histories of n events that AppendEvent can write, each superseding one
\* earlier event at most.
MCHistories[n \in 0..MCLongest] ==
  IF n = 0 THEN {<<Genesis(e1)>>}
  ELSE {Append(h, Event(n, k, s)) : h \in MCHistories[n - 1], k \in Keys,
                                   s \in {{}} \cup {{i} : i \in 1..(n - 1)}}

\* Those, or a store whose writers are gone, with such a history in it.
MCInit ==
  \/ Init
  \/ /\ owner = NoProc
     /\ life = [p \in Procs |-> "dead"]
     /\ pc = [p \in Procs |-> "idle"]
     /\ op = [p \in Procs |-> NoOp]
     /\ log \in UNION {MCHistories[n] : n \in 1..MCLongest}
     /\ disk = log
     /\ files = {}
     /\ issued = 0
     /\ acked = {}
     /\ snapshot = [p \in Procs |-> <<>>]
     /\ ackedBefore = [p \in Procs |-> {}]

MCSpec == MCInit /\ [][Next]_vars
=============================================================================
