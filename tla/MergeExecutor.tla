--------------------------- MODULE MergeExecutor ---------------------------
(***************************************************************************)
(* src/effects/publication/merge-executor.ts: merging one pull request on  *)
(* the provider.  Each run reads and refuses, or sends one merge request   *)
(* and then reads until it can say what became of it.  Runs of the same    *)
(* pull request may overlap, other people merge, push, close and relax the *)
(* branch protection, answers get lost or are errors although the merge    *)
(* was made, and the read model lags behind ("a read model can lag the     *)
(* merge response").                                                       *)
(*                                                                         *)
(* An answer, an error too, comes once the provider has settled the        *)
(* request; a call that ends sooner is one without an answer.              *)
(*                                                                         *)
(* What the checks look at besides the state, head and base of the pull    *)
(* request and the strictness of the protection is fixed by nothing here:  *)
(* each of them may refuse.                                                *)
(***************************************************************************)
EXTENDS Naturals, Sequences

CONSTANTS
  Runs,          \* calls of executePublicationMerge for the pull request
  Bases, Heads,  \* commits the base branch and the pull request may be at
  ExpectedBase, ExpectedHead,   \* what the runs were asked to merge
  MaxAttempts    \* how often the readback is tried; the length of READBACK_DELAYS_MS, plus one

ASSUME MergeAssumption ==
  /\ ExpectedBase \in Bases /\ ExpectedHead \in Heads
  /\ MaxAttempts \in Nat \ {0}

VARIABLES
  pull,      \* the pull request: its state, head, base and the parents of its merge commit
  shown,     \* the pull request as the read model shows it
  strict,    \* whether the base branch demands, of admins too, that a head is tested on its tip
  step,      \* what each run does next
  batch,     \* which runs were asked for a batch merge commit
  request,   \* what has become of each run's merge request
  attempts,  \* readbacks that each run has made
  exit       \* the exit code of each run, once it has ended

provider  == <<pull, shown, strict>>
mergeVars == <<provider, step, batch, request, attempts, exit>>

Reads    == {"readTarget", "checkBatch", "readPolicy", "checkProtection",
             "assessReadiness", "rereadTarget"}
Steps    == {"idle", "send", "awaitAnswer", "readBack", "prove", "readCommit", "ended"} \cup Reads
NoExit   == 7    \* a run that has not ended, or that died without an answer
Parents  == {<<>>} \cup {<<b>> : b \in Bases} \cup {<<b, h>> : b \in Bases, h \in Heads}
Pulls    == [state : {"OPEN", "CLOSED", "MERGED"}, head : Heads, base : Bases, parents : Parents]

Open(view) ==
  /\ view.state = "OPEN"
  /\ view.head = ExpectedHead
  /\ view.base = ExpectedBase

MergeInit ==
  /\ pull = [state |-> "OPEN", head |-> ExpectedHead, base |-> ExpectedBase, parents |-> <<>>]
  /\ shown = pull
  /\ strict \in {"on", "off"}
  /\ step = [r \in Runs |-> "idle"]
  /\ batch \in [Runs -> BOOLEAN]
  /\ request = [r \in Runs |-> "none"]
  /\ attempts = [r \in Runs |-> 0]
  /\ exit = [r \in Runs |-> NoExit]

Proceed(r, label) == step' = [step EXCEPT ![r] = label]

EndWith(r, code) ==
  /\ Proceed(r, "ended")
  /\ exit' = [exit EXCEPT ![r] = code]

-----------------------------------------------------------------------------
(* prepareMerge: any of its reads may refuse or fail *)

Select(r) ==
  /\ step[r] = "idle"
  /\ Proceed(r, "readTarget")
  /\ UNCHANGED <<provider, batch, request, attempts, exit>>

Refuse(r) ==
  /\ step[r] \in Reads
  /\ \E code \in {3, 4} :
       /\ code = 3 => step[r] = "readPolicy"   \* acceptance_merge_off
       /\ EndWith(r, code)
  /\ UNCHANGED <<provider, batch, request, attempts>>

ReadTarget(r) ==
  /\ step[r] = "readTarget"
  /\ Proceed(r, IF batch[r] THEN "checkBatch" ELSE "readPolicy")
  /\ UNCHANGED <<provider, batch, request, attempts, exit>>

CheckBatch(r) ==
  /\ step[r] = "checkBatch"
  /\ Proceed(r, "readPolicy")
  /\ UNCHANGED <<provider, batch, request, attempts, exit>>

ReadPolicy(r) ==
  /\ step[r] = "readPolicy"
  /\ Proceed(r, "checkProtection")
  /\ UNCHANGED <<provider, batch, request, attempts, exit>>

\* Mutant: the protection of the base branch is not looked at.
ProtectedEnough == TRUE

\* "Strict status checks turn a moved base into a provider-side rejection."
BaseProtected == strict = "on"

CheckProtection(r) ==
  /\ step[r] = "checkProtection"
  /\ BaseProtected
  /\ Proceed(r, "assessReadiness")
  /\ UNCHANGED <<provider, batch, request, attempts, exit>>

AssessReadiness(r) ==
  /\ step[r] = "assessReadiness"
  /\ Open(shown)
  /\ Proceed(r, "rereadTarget")
  /\ UNCHANGED <<provider, batch, request, attempts, exit>>

RereadTarget(r) ==
  /\ step[r] = "rereadTarget"
  /\ Open(shown)
  /\ Proceed(r, "send")
  /\ UNCHANGED <<provider, batch, request, attempts, exit>>

-----------------------------------------------------------------------------
(* sendMerge and readBackAfterError *)

SendMerge(r) ==
  /\ step[r] = "send"
  /\ request' = [request EXCEPT ![r] = "inFlight"]
  /\ Proceed(r, "awaitAnswer")
  /\ UNCHANGED <<provider, batch, attempts, exit>>

\* No answer, or none that can be understood: the request may yet arrive.
NoAnswer(r) ==
  /\ step[r] = "awaitAnswer"
  /\ EndWith(r, 5)
  /\ UNCHANGED <<provider, batch, request, attempts>>

AnswerMerged(r) ==
  /\ step[r] = "awaitAnswer"
  /\ request[r] = "merged"
  /\ Proceed(r, "prove")
  /\ UNCHANGED <<provider, batch, request, attempts, exit>>

\* Mutant: an error response is taken for a rejection.
RejectUnread(r) ==
  /\ step[r] = "awaitAnswer"
  /\ request[r] \in {"merged", "rejected"}
  /\ EndWith(r, 6)
  /\ UNCHANGED <<provider, batch, request, attempts>>

\* "An error response is not proof of a rejection."
AnswerErrors(r) ==
  /\ step[r] = "awaitAnswer"
  /\ request[r] \in {"merged", "rejected"}
  /\ Proceed(r, "readBack")
  /\ UNCHANGED <<provider, batch, request, attempts, exit>>

\* Open at the expected head, wherever the base is.
ReadBackOpen(r) ==
  /\ step[r] = "readBack"
  /\ shown.state = "OPEN"
  /\ shown.head = ExpectedHead
  /\ EndWith(r, 6)
  /\ UNCHANGED <<provider, batch, request, attempts>>

ReadBackMerged(r) ==
  /\ step[r] = "readBack"
  /\ shown.state = "MERGED"
  /\ Proceed(r, "prove")
  /\ UNCHANGED <<provider, batch, request, attempts, exit>>

\* The read fails, or shows the pull request closed or at another head.
ReadBackUnclear(r) ==
  /\ step[r] = "readBack"
  /\ EndWith(r, 5)
  /\ UNCHANGED <<provider, batch, request, attempts>>

-----------------------------------------------------------------------------
(* proveMerge: only reads repeat *)

ExpectedParents(r) ==
  IF batch[r] THEN <<ExpectedBase, ExpectedHead>> ELSE <<ExpectedBase>>

ProveMerged(r) ==
  /\ step[r] = "prove"
  /\ shown.state = "MERGED"
  /\ shown.head = ExpectedHead
  /\ Proceed(r, "readCommit")
  /\ UNCHANGED <<provider, batch, request, attempts, exit>>

Proven(r) ==
  /\ step[r] = "readCommit"
  /\ pull.parents = ExpectedParents(r)
  /\ EndWith(r, 0)
  /\ UNCHANGED <<provider, batch, request, attempts>>

Contradicted(r) ==
  /\ step[r] = "readCommit"
  /\ pull.parents # ExpectedParents(r)
  /\ EndWith(r, 5)
  /\ UNCHANGED <<provider, batch, request, attempts>>

\* Mutant: the attempts are not counted.
Counted(r) == attempts

CountedOnce(r) == [attempts EXCEPT ![r] = @ + 1]

\* Mutant: one attempt more than there are delays for.
OneAttemptMore(r) == attempts[r] + 1 <= MaxAttempts

AttemptsLeft(r) == attempts[r] + 1 < MaxAttempts

\* The read model is behind, or a read failed: try again while attempts are left.
ReadBackAgain(r) ==
  /\ step[r] \in {"prove", "readCommit"}
  /\ AttemptsLeft(r)
  /\ attempts' = CountedOnce(r)
  /\ Proceed(r, "prove")
  /\ UNCHANGED <<provider, batch, request, exit>>

\* No attempt is left, or the window is over.
WindowOver(r) ==
  /\ step[r] \in {"prove", "readCommit"}
  /\ EndWith(r, 5)
  /\ UNCHANGED <<provider, batch, request, attempts>>

\* The process of the run dies; a request it has sent lives on.
RunDies(r) ==
  /\ step[r] \notin {"idle", "ended"}
  /\ Proceed(r, "ended")
  /\ UNCHANGED <<provider, batch, request, attempts, exit>>

-----------------------------------------------------------------------------
(* The provider and the other people *)

\* The expected head is merged onto the tip; strict checks refuse another tip.
ApplyRequest(r) ==
  /\ request[r] = "inFlight"
  /\ pull.state = "OPEN"
  /\ pull.head = ExpectedHead
  /\ strict = "on" => pull.base = ExpectedBase
  /\ request' = [request EXCEPT ![r] = "merged"]
  /\ pull' = [pull EXCEPT !.state = "MERGED",
                          !.parents = IF batch[r] THEN <<pull.base, ExpectedHead>> ELSE <<pull.base>>]
  /\ UNCHANGED <<shown, strict, step, batch, attempts, exit>>

\* For these reasons or others: a failed check, a conflict, a missing right.
RejectRequest(r) ==
  /\ request[r] = "inFlight"
  /\ request' = [request EXCEPT ![r] = "rejected"]
  /\ UNCHANGED <<provider, step, batch, attempts, exit>>

Push ==
  /\ pull.state # "MERGED"
  /\ \E h \in Heads \ {pull.head} : pull' = [pull EXCEPT !.head = h]
  /\ UNCHANGED <<shown, strict, step, batch, request, attempts, exit>>

\* Another pull request is merged into the base branch.
BaseMoves ==
  /\ pull.base = ExpectedBase
  /\ \E b \in Bases \ {ExpectedBase} : pull' = [pull EXCEPT !.base = b]
  /\ UNCHANGED <<shown, strict, step, batch, request, attempts, exit>>

CloseOrReopen ==
  /\ \/ pull.state = "OPEN" /\ pull' = [pull EXCEPT !.state = "CLOSED"]
     \/ pull.state = "CLOSED" /\ pull' = [pull EXCEPT !.state = "OPEN"]
  /\ UNCHANGED <<shown, strict, step, batch, request, attempts, exit>>

MergedByOthers ==
  /\ pull.state = "OPEN"
  /\ \E parents \in {<<pull.base>>, <<pull.base, pull.head>>} :
       pull' = [pull EXCEPT !.state = "MERGED", !.parents = parents]
  /\ UNCHANGED <<shown, strict, step, batch, request, attempts, exit>>

RelaxProtection ==
  /\ strict = "on"
  /\ strict' = "relaxed"
  /\ UNCHANGED <<pull, shown, step, batch, request, attempts, exit>>

CatchUp ==
  /\ shown # pull
  /\ shown' = pull
  /\ UNCHANGED <<pull, strict, step, batch, request, attempts, exit>>

-----------------------------------------------------------------------------
Prepare(r) ==
  \/ Select(r) \/ Refuse(r) \/ ReadTarget(r) \/ CheckBatch(r) \/ ReadPolicy(r)
  \/ CheckProtection(r) \/ AssessReadiness(r) \/ RereadTarget(r)

Conclude(r) ==
  \/ NoAnswer(r) \/ AnswerMerged(r) \/ AnswerErrors(r)
  \/ ReadBackOpen(r) \/ ReadBackMerged(r) \/ ReadBackUnclear(r)
  \/ ProveMerged(r) \/ Proven(r) \/ Contradicted(r) \/ ReadBackAgain(r) \/ WindowOver(r)

Provider == \/ \E r \in Runs : ApplyRequest(r) \/ RejectRequest(r)
            \/ CatchUp

Others == Push \/ BaseMoves \/ CloseOrReopen \/ MergedByOthers \/ RelaxProtection

MergeNext ==
  \/ \E r \in Runs : Prepare(r) \/ SendMerge(r) \/ Conclude(r) \/ RunDies(r)
  \/ Provider
  \/ Others

\* A run that has sent its request goes on: every call it makes has a time limit.
MergeFairness == \A r \in Runs : WF_mergeVars(Conclude(r))

MergeSpec == MergeInit /\ [][MergeNext]_mergeVars /\ MergeFairness

-----------------------------------------------------------------------------
(* Properties *)

\* Every variable has its type.
MergeTypeOK ==
  /\ pull \in Pulls /\ shown \in Pulls
  /\ strict \in {"on", "off", "relaxed"}
  /\ step \in [Runs -> Steps]
  /\ batch \in [Runs -> BOOLEAN]
  /\ request \in [Runs -> {"none", "inFlight", "merged", "rejected"}]
  /\ attempts \in [Runs -> 0..(MaxAttempts - 1)]
  /\ exit \in [Runs -> {0, 3, 4, 5, 6, NoExit}]

\* Exit 0 tells the truth: the pull request is merged, at the expected head, by
\* a commit with exactly the parents that the run was to give it, whoever else
\* pushed, merged or relaxed the protection in between (proveMerge).
ProvenIsMerged ==
  \A r \in Runs :
    exit[r] = 0 =>
      /\ pull.state = "MERGED" /\ pull.head = ExpectedHead
      /\ pull.parents = IF batch[r] THEN <<ExpectedBase, ExpectedHead>> ELSE <<ExpectedBase>>

\* Exits 3 and 4 do: nothing of that run has reached the provider, nor ever will.
RefusedNeverSends == \A r \in Runs : exit[r] \in {3, 4} => request[r] = "none"

\* The executor merges onto a base that has moved only when the protection was
\* relaxed after it was checked: the provider pins the head alone, and the base
\* may move after every read of it.
MovedBaseNeedsRelaxing ==
  \A r \in Runs :
    request[r] = "merged" /\ pull.parents[1] # ExpectedBase => strict = "relaxed"

\* The executor merges what it was asked to, and says so: the three above.
MergesAreAsAsked == ProvenIsMerged /\ RefusedNeverSends /\ MovedBaseNeedsRelaxing

\* A rejection is never reported for a request that has merged or may still
\* do so, if the read model was up to date when it was read.
RejectionIsTrue ==
  [][\A r \in Runs : exit[r] # 6 /\ exit'[r] = 6 /\ shown = pull => request[r] = "rejected"]_mergeVars

\* A run that has sent its request ends with an answer, unless it dies: the
\* readback does not go on for ever against a read model that never catches up.
SentRunsEnd == \A r \in Runs : (step[r] = "awaitAnswer") ~> (step[r] = "ended")
=============================================================================
