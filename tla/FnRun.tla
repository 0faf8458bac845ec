-------------------------------- MODULE FnRun --------------------------------
(***************************************************************************)
(* One invocation of a Go function: AsMain or Execute of go/fn/run.go,     *)
(* around a chain of processors.                                           *)
(*                                                                         *)
(* A processor is a Runner wrapped by WithContext, which is first given    *)
(* the functionConfig, or a ResourceListProcessorFunc, which may do what   *)
(* it likes with the ResourceList.  Each returns whether it passed and may *)
(* return an error; both kinds of failure are reported only after the      *)
(* output has been written.  Of the ResourceList we keep the results.      *)
(***************************************************************************)
EXTENDS Integers, Sequences, SequencesExt

CONSTANTS Entries,         \* entry points: a subset of {"AsMain", "Execute"}
          Arguments,       \* what they are called with
          Processors,      \* kinds of processor in the chain
          MaxChain,        \* bound: processors
          MaxIncoming,     \* bound: results of the input
          MaxLogged        \* bound: results the chain adds

\* What a Runner is: no Runner at all, a struct rather than a pointer to one, a
\* pointer to one without and with a field of type map[string]string.
Runners == {"nil", "struct", "plain", "mapped"}

Processes == {"WithContext", "ResourceListProcessorFunc"}

ASSUME EntriesAssumption == Entries \subseteq {"AsMain", "Execute"}
ASSUME ArgumentsAssumption ==
  Arguments \subseteq Processes \cup {"ResourceListProcessor", "Runner"}
ASSUME ProcessorsAssumption ==
  Processors \subseteq Runners \cup {"func", "selector"}
ASSUME BoundsAssumption ==
  MaxChain \in Nat /\ MaxIncoming \in Nat /\ MaxLogged \in Nat

VARIABLES entry,      \* the entry point
          argument,   \* what it was called with
          config,     \* what the input has for a functionConfig
          incoming,   \* the results of the input
          chain,      \* the kinds of the processors
          phase,      \* what is running
          results,    \* rl.Results
          fresh,      \* the results of a Runner or of ApplyFnBySelector so far
          verdicts,   \* what the processors run so far have returned
          logged,     \* all results they have added
          success,    \* the variable of Chain
          fnErr,      \* has Process returned an error?
          output,     \* the results written, and whether any output was
          returned    \* what the entry point has returned

input == <<entry, argument, config, incoming, chain>>
resourceList == <<results, fresh, logged>>
outcome == <<verdicts, success, fnErr>>
vars == <<input, phase, resourceList, outcome, output, returned>>

Severities == {"error", "warning", "info"}
Result == [by : Nat, severity : Severities]

\* The functionConfig: absent, kpt's placeholder, a ConfigMap without and with
\* data, of the kind of one of the runners, malformed, of another kind.
FunctionConfigs == {"none", "placeholder", "noData", "data", "plain", "mapped",
                    "malformed", "unknown"}
Phases == {"refused", "read", "process", "runner", "func", "encode", "exited"}
Verdict == [passed : BOOLEAN, err : BOOLEAN]

\* No error (or nothing yet), the error of the function, the error that stands
\* for a verdict of false, any other error or a panic.
Returnable == {"nil", "fnErr", "failure", "other"}

current == Len(verdicts) + 1

By(severity) == [by |-> current, severity |-> severity]

-----------------------------------------------------------------------------
\* The arguments other than a ResourceListProcessorFunc are one processor.
Init ==
  /\ entry \in Entries
  /\ argument \in Arguments
  /\ config \in FunctionConfigs
  /\ \E n \in 0..MaxIncoming :
       incoming \in [1..n -> [by : {0}, severity : Severities]]
  /\ \E n \in 0..MaxChain : chain \in [1..n -> Processors]
  /\ argument \in {"WithContext", "Runner"} =>
       Len(chain) = 1 /\ chain[1] \in Runners
  /\ argument = "ResourceListProcessor" =>
       Len(chain) = 1 /\ chain[1] \notin Runners
  /\ entry = "Execute" => argument # "Runner"
  /\ phase = "read"
  /\ results = <<>> /\ fresh = <<>> /\ logged = <<>>
  /\ verdicts = <<>> /\ success = TRUE /\ fnErr = FALSE
  /\ output = [written |-> FALSE, results |-> <<>>]
  /\ returned = "nil"

\* AsMain refuses what is neither of Processes; Execute runs any processor.
Accepted == entry = "AsMain" => argument \in Processes

Refuse ==
  /\ phase = "read" /\ ~Accepted
  /\ phase' = "refused"
  /\ returned' = "other"
  /\ UNCHANGED <<input, resourceList, outcome, output>>

(***************************************************************************)
(* ParseResourceList takes the results over from the input; Read does not, *)
(* and needs a functionConfig.                                             *)
(***************************************************************************)
Parse ==
  /\ phase = "read" /\ Accepted
  /\ entry = "Execute" => config # "none"
  /\ phase' = "process"
  /\ results' = IF entry = "AsMain" THEN incoming ELSE <<>>
  /\ UNCHANGED <<input, fresh, logged, outcome, output, returned>>

\* Nothing is written, and the entry point returns an error or panics.
Abort ==
  /\ phase' = "exited"
  /\ returned' = "other"
  /\ UNCHANGED <<input, resourceList, outcome, output>>

ReadFails == phase = "read" /\ Accepted /\ Abort

-----------------------------------------------------------------------------
(* The chain. *)

\* Mutant: the verdict of the last processor is the verdict of the chain.
ReturnsLast(passed, err) ==
  /\ verdicts' = Append(verdicts, [passed |-> passed, err |-> err])
  /\ success' = (passed /\ ~err)
  /\ fnErr' = err
  /\ phase' = IF err THEN "encode" ELSE "process"

\* Mutant: an error does not keep the later processors from running.
ReturnsOn(passed, err) ==
  /\ verdicts' = Append(verdicts, [passed |-> passed, err |-> err])
  /\ success' = (success /\ passed /\ ~err)
  /\ fnErr' = (fnErr \/ err)
  /\ phase' = "process"

\* The current processor returns, and Chain goes on or stops.
Returns(passed, err) ==
  /\ verdicts' = Append(verdicts, [passed |-> passed, err |-> err])
  /\ success' = (success /\ passed /\ ~err)
  /\ fnErr' = err
  /\ phase' = IF err THEN "encode" ELSE "process"

\* Mutant: the loop expects one more processor.
ChainReturnsLate ==
  /\ phase = "process" /\ current > Len(chain) + 1
  /\ phase' = "encode"
  /\ UNCHANGED <<input, resourceList, outcome, output, returned>>

ChainReturns ==
  /\ phase = "process" /\ current > Len(chain)
  /\ phase' = "encode"
  /\ UNCHANGED <<input, resourceList, outcome, output, returned>>

Due(kinds) ==
  phase = "process" /\ current <= Len(chain) /\ chain[current] \in kinds

\* runnerProcessor.config returns an error, or panics
Rejects(runner) ==
  \/ runner = "nil"
  \/ config = "data" /\ runner = "plain"
  \/ config \in {"plain", "mapped"} /\ runner # config
  \/ config \in {"malformed", "unknown"}

ConfigPanics(runner) == config = "data" /\ runner = "struct"

NoConfig == config \in {"none", "placeholder"}

\* The first half of Process: without a functionConfig Process says so, and
\* calls Run even on a nil Runner; ConfigMap data needs a pointer to a struct.
RunWithoutConfig ==
  /\ Due(Runners \ {"nil"}) /\ NoConfig
  /\ phase' = "runner"
  /\ results' = Append(results, By("info"))
  /\ logged' = Append(logged, By("info"))
  /\ UNCHANGED <<input, fresh, outcome, output, returned>>

ProcessPanics ==
  /\ \/ Due({"nil"}) /\ NoConfig
     \/ Due(Runners) /\ ConfigPanics(chain[current])
  /\ Abort

\* Mutant: a configuration error is logged, and passes.
RejectConfigPasses ==
  /\ Due(Runners) /\ ~NoConfig /\ Rejects(chain[current])
  /\ results' = Append(results, By("error"))
  /\ logged' = Append(logged, By("error"))
  /\ Returns(TRUE, FALSE)
  /\ UNCHANGED <<input, fresh, output, returned>>

RejectConfig ==
  /\ Due(Runners) /\ ~NoConfig /\ Rejects(chain[current])
  /\ results' = Append(results, By("error"))
  /\ logged' = Append(logged, By("error"))
  /\ Returns(FALSE, FALSE)
  /\ UNCHANGED <<input, fresh, output, returned>>

RunWithConfig ==
  /\ Due(Runners) /\ ~NoConfig
  /\ ~Rejects(chain[current]) /\ ~ConfigPanics(chain[current])
  /\ phase' = "runner"
  /\ UNCHANGED <<input, resourceList, outcome, output, returned>>

\* Runner.Run adds to the results it was given, and returns or panics.
RunnerAddsResult(severity) ==
  /\ phase = "runner" /\ Len(logged) < MaxLogged
  /\ fresh' = Append(fresh, By(severity))
  /\ logged' = Append(logged, By(severity))
  /\ UNCHANGED <<input, phase, results, outcome, output, returned>>

\* Mutant: the new results replace those of earlier function runs.
RunnerReturnsReplacing(passed) ==
  /\ phase = "runner"
  /\ results' = fresh
  /\ fresh' = <<>>
  /\ Returns(passed, FALSE)
  /\ UNCHANGED <<input, logged, output, returned>>

RunnerReturns(passed) ==
  /\ phase = "runner"
  /\ results' = results \o fresh
  /\ fresh' = <<>>
  /\ Returns(passed, FALSE)
  /\ UNCHANGED <<input, logged, output, returned>>

FunctionPanics == phase \in {"runner", "func"} /\ Abort

-----------------------------------------------------------------------------
(***************************************************************************)
(* A ResourceListProcessorFunc logs results one at a time; one of kind     *)
(* "selector" also calls ApplyFnBySelector, which gathers the results of   *)
(* the objects it fails on and, if there are any, makes them rl.Results.   *)
(***************************************************************************)
CallFunc ==
  /\ Due({"func", "selector"})
  /\ phase' = "func"
  /\ UNCHANGED <<input, resourceList, outcome, output, returned>>

LogResult(severity) ==
  /\ phase = "func" /\ Len(logged) < MaxLogged
  /\ results' = Append(results, By(severity))
  /\ logged' = Append(logged, By(severity))
  /\ UNCHANGED <<input, phase, fresh, outcome, output, returned>>

\* fn fails on an object the selector has selected
ApplyFails(severity) ==
  /\ phase = "func" /\ chain[current] = "selector" /\ Len(logged) < MaxLogged
  /\ fresh' = Append(fresh, By(severity))
  /\ logged' = Append(logged, By(severity))
  /\ UNCHANGED <<input, phase, results, outcome, output, returned>>

ApplyReturns ==
  /\ phase = "func" /\ fresh # <<>>
  /\ results' = fresh
  /\ fresh' = <<>>
  /\ UNCHANGED <<input, phase, logged, outcome, output, returned>>

FuncReturns(passed, err) ==
  /\ phase = "func" /\ fresh = <<>>
  /\ Returns(passed, err)
  /\ UNCHANGED <<input, resourceList, output, returned>>

-----------------------------------------------------------------------------
\* Mutant: Write takes the results of the input whatever the function added.
EncodedIncoming == IF entry = "Execute" THEN incoming ELSE results

\* Write keeps the results of the input only if the function added none.
Encoded ==
  IF entry = "Execute" /\ results = <<>> THEN incoming ELSE results

Reported == IF fnErr THEN "fnErr" ELSE IF success THEN "nil" ELSE "failure"

\* Mutant: an error of the function is returned at once.
WriteNoError ==
  /\ phase = "encode"
  /\ phase' = "exited"
  /\ output' = IF fnErr THEN output
               ELSE [written |-> TRUE, results |-> Encoded]
  /\ returned' = Reported
  /\ UNCHANGED <<input, resourceList, outcome>>

\* The output is written before any error is returned.
Write ==
  /\ phase = "encode"
  /\ phase' = "exited"
  /\ output' = [written |-> TRUE, results |-> Encoded]
  /\ returned' = Reported
  /\ UNCHANGED <<input, resourceList, outcome>>

\* ToYAML, Write or the write to stdout returns an error.
WriteFails == phase = "encode" /\ Abort

Function ==
  \/ \E severity \in Severities :
       RunnerAddsResult(severity) \/ LogResult(severity) \/ ApplyFails(severity)
  \/ \E passed \in BOOLEAN : RunnerReturns(passed)
  \/ \E passed, err \in BOOLEAN : FuncReturns(passed, err)
  \/ ApplyReturns
  \/ FunctionPanics

Runtime ==
  \/ ChainReturns \/ RunWithoutConfig \/ ProcessPanics
  \/ RejectConfig \/ RunWithConfig \/ CallFunc
  \/ Write \/ WriteFails

Next == Parse \/ Refuse \/ ReadFails \/ Function \/ Runtime

\* Fairness: the SDK goes on with its own steps; the input need not arrive and
\* a function need not return.
Spec == Init /\ [][Next]_vars /\ WF_vars(Runtime)

-----------------------------------------------------------------------------
(* Properties *)

TypeOK ==
  /\ entry \in Entries /\ argument \in Arguments
  /\ config \in FunctionConfigs
  /\ incoming \in Seq(Result)
  /\ chain \in Seq(Processors)
  /\ phase \in Phases
  /\ results \in Seq(Result) /\ fresh \in Seq(Result) /\ logged \in Seq(Result)
  /\ verdicts \in Seq(Verdict)
  /\ success \in BOOLEAN /\ fnErr \in BOOLEAN
  /\ output \in [written : BOOLEAN, results : Seq(Result)]
  /\ returned \in Returnable

\* success and fnErr summarise the verdicts, of which only the last may be an
\* error; the chain ends early for an error only.
ChainInv ==
  /\ success <=> \A i \in DOMAIN verdicts : verdicts[i].passed /\ ~verdicts[i].err
  /\ \A i \in DOMAIN verdicts : verdicts[i].err => i = Len(verdicts)
  /\ fnErr <=> \E i \in DOMAIN verdicts : verdicts[i].err
  /\ Len(verdicts) <= Len(chain)
  /\ phase \in {"read", "refused"} => verdicts = <<>> /\ ~output.written
  /\ phase \in {"process", "runner", "func"} => ~fnErr
  /\ phase \in {"runner", "func"} => current <= Len(chain)
  /\ phase = "encode" \/ output.written => fnErr \/ Len(verdicts) = Len(chain)
  /\ output.written => phase = "exited" /\ returned = Reported
  /\ phase \in {"exited", "refused"} /\ ~output.written => returned = "other"
  /\ phase \notin {"exited", "refused"} => returned = "nil"

IInv == TypeOK /\ ChainInv

(***************************************************************************)
(* No failure is swallowed: an invocation succeeds only if it has written  *)
(* its output and every processor of the chain ran and passed without an   *)
(* error - one that failed is not forgotten when later ones pass.          *)
(***************************************************************************)
Passed(i) ==
  i \in DOMAIN verdicts /\ verdicts[i].passed /\ ~verdicts[i].err

FailuresSurface ==
  phase \in {"exited", "refused"} /\ returned = "nil" =>
    output.written /\ \A i \in DOMAIN chain : Passed(i)

(***************************************************************************)
(* Chain stops at an error and only there: of the processors in front of   *)
(* the last one that ran none returned an error, and when the output is    *)
(* written with processors left over, the last one that ran did.           *)
(***************************************************************************)
StopsAtErrors ==
  /\ \A i \in DOMAIN verdicts : i < Len(verdicts) => ~verdicts[i].err
  /\ output.written /\ Len(verdicts) < Len(chain) =>
       verdicts # <<>> /\ verdicts[Len(verdicts)].err

(***************************************************************************)
(* A runner whose functionConfig is rejected does not run: it adds one     *)
(* error result and nothing else, and its failure is its verdict.          *)
(***************************************************************************)
Rejected(i) ==
  i \in DOMAIN chain /\ chain[i] \in Runners /\ ~NoConfig /\ Rejects(chain[i])

RejectedDoNotRun ==
  \A i \in DOMAIN chain : Rejected(i) =>
      /\ \A r \in DOMAIN logged : logged[r].by = i =>
           i < current /\ logged[r].severity = "error"
      /\ ~Passed(i)
      /\ phase = "runner" => i # current

(***************************************************************************)
(* "We only append new results to the end" (runnerProcessor.go:69): the    *)
(* results that are written are those of the input followed by every       *)
(* result a processor has added since, in the order they were added, even  *)
(* if the function failed.                                                 *)
(***************************************************************************)
ResultsAppended == output.written => output.results = incoming \o logged

(***************************************************************************)
(* What is written if no processor calls ApplyFnBySelector, whatever       *)
(* Runners and functions run in whatever order and however they fail:      *)
(* AsMain does append; Execute keeps the results of the input only if the  *)
(* chain has added none, and otherwise writes just what the chain added.   *)
(***************************************************************************)
Selects == \E i \in DOMAIN chain : chain[i] = "selector"

Kept == IF entry = "Execute" /\ logged # <<>> THEN <<>> ELSE incoming

ResultsKept == ~Selects /\ output.written => output.results = Kept \o logged

(***************************************************************************)
(* "We write out to stdout before returning any error." (run.go:47): when  *)
(* the entry point returns the error of a processor or its verdict, the    *)
(* output has been written, and without ApplyFnBySelector the error result *)
(* of every rejected functionConfig is in it, whatever ran in between.     *)
(***************************************************************************)
Explained(written) ==
  \A i \in DOMAIN verdicts :
    Rejected(i) => [by |-> i, severity |-> "error"] \in Range(written)

ErrorsAfterOutput ==
  returned \in {"fnErr", "failure"} =>
    /\ output.written
    /\ ~Selects => Explained(output.results)

(***************************************************************************)
(* What is left of ResultsAppended for any processors: results may be      *)
(* lost, but those written are in the order they were added and none is    *)
(* written twice, and never are all of those the processors added lost.    *)
(***************************************************************************)
InOrder(part, all) ==
  \E at \in [DOMAIN part -> DOMAIN all] :
    /\ \A w \in DOMAIN part : part[w] = all[at[w]]
    /\ \A v, w \in DOMAIN part : v < w => at[v] < at[w]

ResultsInOrder ==
  output.written =>
    /\ InOrder(output.results, incoming \o logged)
    /\ logged # <<>> => \E w \in DOMAIN output.results :
                           output.results[w] \in Range(logged)

(***************************************************************************)
(* The results in memory only ever grow at the end while the chain runs,   *)
(* so what one processor reports no later one takes back - but for         *)
(* ApplyFnBySelector.                                                      *)
(***************************************************************************)
ResultsGrow ==
  [][phase # "read" /\ ~Selects => IsPrefix(results, results')]_vars

(***************************************************************************)
(* Between the calls of functions the SDK goes on until it calls the next  *)
(* one or exits, and it exits when the last has returned.                  *)
(***************************************************************************)
RunEnds ==
  /\ phase = "process" ~> phase \in {"runner", "func", "exited"}
  /\ phase = "encode" ~> phase = "exited"
=============================================================================
