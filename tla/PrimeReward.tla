------------------------------- MODULE PrimeReward ------------------------------
(***************************************************************************)
(* verify of the PRIME reward manager: every row of a batch is scored by a *)
(* pool of processes, each under a timeout, and the scores are listed in   *)
(* the order of the rows.  Row i's verdict is the number i, so that a score *)
(* tells whose it is.                                                      *)
(*                                                                         *)
(* All the timers are set when the rows are submitted, so they run out     *)
(* together, whether a row is running by then or still waiting for a       *)
(* process.  The pool (concurrent.futures) and the event loop (asyncio)    *)
(* are not part of the repository and modelled from how they are used.     *)
(* A definition whose name has an underscore and a capital after it is a   *)
(* wrong version of the one that follows it.                               *)
(***************************************************************************)
EXTENDS Integers, Sequences, FiniteSets

CONSTANTS
  NumRows,     \* completions to score
  Processes    \* num_processes

ASSUME PrimeAssumption == NumRows \in Nat \ {0} /\ Processes \in Nat \ {0}

VARIABLES
  kind,      \* what evaluation_func does with each row
  call,      \* the row's call in the pool
  result,    \* the row's coroutine: waiting, or what it returned
  deadline,  \* the timers have run out
  broken,    \* a process of the pool has died
  answered,  \* the rows with a result, in the order they got it
  stage,
  scores

primeVars == <<kind, call, result, deadline, broken, answered, stage, scores>>

Completions == 1 .. NumRows

\* An evaluation ends with a number, with a dict (math_dapo does), or with an
\* exception; or it never ends.
Kinds == {"number", "dict", "raises", "hangs"}
None == 0
Waiting == -1
Dict == NumRows + 1

PrimeTypeOK ==
  /\ kind \in [Completions -> Kinds]
  /\ call \in [Completions -> {"pending", "queued", "running", "ended", "dropped"}]
  /\ result \in [Completions -> {Waiting, None, Dict} \cup Completions]
  /\ \A i \in Completions : result[i] \in {Waiting, None, Dict, i}
  /\ deadline \in BOOLEAN /\ broken \in BOOLEAN
  /\ answered \in Seq(Completions)
  /\ Len(answered) = Cardinality({i \in Completions : result[i] # Waiting})
  /\ stage \in {"gathering", "closing", "returned"}
  /\ scores \in {<<>>} \cup [Completions -> 0 .. NumRows]

InPool(state) == {i \in Completions : call[i] = state}

PrimeInit ==
  /\ kind \in [Completions -> Kinds]
  /\ call = [i \in Completions |-> "pending"]
  /\ result = [i \in Completions |-> Waiting]
  /\ deadline = FALSE /\ broken = FALSE
  /\ answered = <<>> /\ stage = "gathering" /\ scores = <<>>

-----------------------------------------------------------------------------
(* The pool                                                                    *)

Move(i, state) ==
  /\ call' = [call EXCEPT ![i] = state]
  /\ UNCHANGED <<kind, result, deadline, broken, answered, stage, scores>>

\* Calls are handed over in order to a queue with room for one more of them than
\* there are processes; a call that is handed over can no longer be cancelled.
HandOver(i) ==
  /\ call[i] = "pending" /\ \A j \in InPool("pending") : i <= j
  /\ Cardinality(InPool("queued")) <= Processes
  /\ Move(i, "queued")

Start(i) ==
  /\ call[i] = "queued" /\ \A j \in InPool("queued") : i <= j
  /\ Cardinality(InPool("running")) < Processes
  /\ Move(i, "running")

End(i) == call[i] = "running" /\ kind[i] # "hangs" /\ Move(i, "ended")

\* A process dies: every call that has not ended fails, and no process is left.
Break ==
  /\ InPool("running") # {} /\ ~ broken
  /\ broken' = TRUE
  /\ call' = [i \in Completions |-> IF call[i] = "ended" THEN "ended" ELSE "dropped"]
  /\ UNCHANGED <<kind, result, deadline, answered, stage, scores>>

-----------------------------------------------------------------------------
(* single_compute_score                                                        *)

\* What the row's coroutine returns once its call has ended or failed.
Outcome(i) ==
  IF call[i] # "ended" \/ kind[i] = "raises" THEN None
  ELSE IF kind[i] = "dict" THEN Dict ELSE i

GetResult(i, res) ==
  /\ result[i] = Waiting
  /\ result' = [result EXCEPT ![i] = res]
  /\ answered' = Append(answered, i)

Answer(i) ==
  /\ stage = "gathering" /\ (call[i] = "ended" \/ broken)
  /\ GetResult(i, Outcome(i))
  /\ UNCHANGED <<kind, call, deadline, broken, stage, scores>>

Deadline ==
  /\ ~ deadline /\ stage = "gathering" /\ deadline' = TRUE
  /\ UNCHANGED <<kind, call, result, broken, answered, stage, scores>>

\* wait_for gives up on the call: one that is still pending is cancelled, any
\* other goes on.
Cancelled(i) == [call EXCEPT ![i] = IF @ = "pending" THEN "dropped" ELSE @]

\* Which calls wait_for may give up on.
Expired_Running(i) == deadline /\ call[i] = "running"
Expired(i) == deadline

\* The exception of a timeout is caught here, so gather never sees it.
TimeOut(i) ==
  /\ stage = "gathering" /\ Expired(i)
  /\ GetResult(i, None)
  /\ call' = Cancelled(i)
  /\ UNCHANGED <<kind, deadline, broken, stage, scores>>

-----------------------------------------------------------------------------
(* parallel_compute_score_async and verify                                     *)

\* asyncio.gather returns the results in the order of the rows.
Results_AsTheyCame == [i \in Completions |-> result[answered[i]]]
Results == result

AllDone_WithoutErrors == \A i \in Completions : result[i] \in {Dict, i}
AllDone == Len(answered) = NumRows

Gather ==
  /\ stage = "gathering" /\ AllDone
  /\ stage' = "closing"
  /\ UNCHANGED <<kind, call, result, deadline, broken, answered, scores>>

\* A number is the row's score and None counts as 0.  A dict has no element 0:
\* the exception goes through to verify, which sets all the scores to 0.
VerdictScores ==
  [i \in Completions |->
    IF \E j \in Completions : Results[j] = Dict THEN 0 ELSE Results[i]]

\* Leaving "with ProcessPoolExecutor" waits for the calls that are under way.
Close ==
  /\ stage = "closing" /\ \A i \in Completions : call[i] \in {"ended", "dropped"}
  /\ stage' = "returned"
  /\ scores' = VerdictScores
  /\ UNCHANGED <<kind, call, result, deadline, broken, answered>>

PrimeNext ==
  \/ Break \/ Deadline \/ Gather \/ Close
  \/ \E i \in Completions : HandOver(i) \/ Start(i) \/ End(i) \/ Answer(i) \/ TimeOut(i)

\* Timers run out, the event loop and the pool go on, and a process that computes
\* a verdict or an exception gets there; nobody has to die.
Fairness ==
  /\ WF_primeVars(Deadline) /\ WF_primeVars(Gather) /\ WF_primeVars(Close)
  /\ \A i \in Completions :
       /\ WF_primeVars(HandOver(i)) /\ WF_primeVars(Start(i)) /\ WF_primeVars(End(i))
       /\ WF_primeVars(Answer(i)) /\ WF_primeVars(TimeOut(i))

PrimeSpec == PrimeInit /\ [][PrimeNext]_primeVars /\ Fairness

-----------------------------------------------------------------------------
(* Properties                                                                  *)

\* A row gets its own verdict, never another row's, in whatever order the calls
\* end and the timers run out.  It loses it to 0 only when its evaluation raises,
\* the timers run out, a process dies, or a row of the batch has a dict.
EachRowItsOwnScore ==
  stage = "returned" =>
    \A i \in Completions :
      \/ scores[i] = i /\ kind[i] = "number"
      \/ scores[i] = 0 /\ (\/ kind[i] = "raises" \/ deadline \/ broken
                           \/ \E j \in Completions : kind[j] = "dict")

\* The timeout bounds the wait for the scores: every row gets a result, however
\* many evaluations never end and however many rows wait behind them.
EveryRowGetsAResult == <>(stage # "gathering")

\* Where every evaluation ends, the scores are returned.
ReturnsIfEveryCallEnds ==
  (\A i \in Completions : kind[i] # "hangs") => <>(stage = "returned")

===============================================================================
