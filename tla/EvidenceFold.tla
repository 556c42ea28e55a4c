---------------------------- MODULE EvidenceFold ----------------------------
(***************************************************************************)
(* src/core/evidence/fold.ts: what a reader makes of the lines of the      *)
(* evidence log.  A line is a record; "torn" is a line without its newline *)
(* and "bad" a terminated line that does not parse.                        *)
(***************************************************************************)
EXTENDS Naturals, Sequences, SequencesExt

Torn == [kind |-> "torn"]
Bad  == [kind |-> "bad"]
Genesis(epoch) == [kind |-> "genesis", epoch |-> epoch]
Event(id, key, supersedes) ==
  [kind |-> "event", id |-> id, key |-> key, supersedes |-> supersedes]

ParsesOk(line) == line.kind \in {"genesis", "event"}

Terminated(log) == log # <<>> => log[Len(log)] # Torn

\* findCorruptTail: the number of lines before the first that does not parse.
ValidLineCount(log) ==
  LET corrupt == {i \in DOMAIN log : ~ParsesOk(log[i])}
  IN  IF corrupt = {} THEN Len(log)
      ELSE (CHOOSE i \in corrupt : \A j \in corrupt : i <= j) - 1

Clean(log) == ValidLineCount(log) = Len(log)

ValidLines(log) == SubSeq(log, 1, ValidLineCount(log))

CorruptLines(log) == SubSeq(log, ValidLineCount(log) + 1, Len(log))

\* The members of a sequence that are in S, in their order.
Filter(seq, S) ==
  LET kept[n \in 0..Len(seq)] ==
        IF n = 0 THEN <<>>
        ELSE IF seq[n] \in S THEN Append(kept[n - 1], seq[n]) ELSE kept[n - 1]
  IN  kept[Len(seq)]

EventsOf(lines) == Filter(lines, {r \in ToSet(lines) : r.kind = "event"})

\* Mutant: a later duplicate replaces the first occurrence.
DedupedLastWins(events) ==
  FoldLeft(LAMBDA kept, e :
             Append(SelectSeq(kept, LAMBDA k : k.key # e.key), e),
           <<>>, events)

\* The first loop of foldAcceptedEvents: the first event of each key wins.
Deduped(events) ==
  LET kept[n \in 0..Len(events)] ==
        IF n = 0 THEN <<>>
        ELSE IF \E i \in DOMAIN kept[n - 1] : kept[n - 1][i].key = events[n].key
               THEN kept[n - 1] ELSE Append(kept[n - 1], events[n])
  IN  kept[Len(events)]

\* The rest of it: drop what any surviving event supersedes.
FoldAcceptedEvents(events) ==
  LET deduped == Deduped(events)
      supersededIds == UNION {deduped[i].supersedes : i \in DOMAIN deduped}
  IN  Filter(deduped, {e \in ToSet(deduped) : e.id \notin supersededIds})

=============================================================================
