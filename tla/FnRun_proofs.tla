---------------------------- MODULE FnRun_proofs ----------------------------
(***************************************************************************)
(* Theorems about FnRun: its inductive invariant, that no failure of a     *)
(* processor is swallowed by the rest of the chain or by the writing and   *)
(* that what explains it is written before it is returned, that the chain  *)
(* stops at errors and only there, that what is rejected does not run,     *)
(* what is written and that results only grow without ApplyFnBySelector,   *)
(* and that with it they are still written in the order they were added.   *)
(***************************************************************************)
EXTENDS FnRun, SequenceTheorems, TLAPS

(* A result added by the current processor is a result. *)
LEMMA CurrentResult ==
  ASSUME TypeOK, NEW severity \in Severities
  PROVE  By(severity) \in Result
<1>1. Len(verdicts) \in Nat BY DEF TypeOK
<1>. QED BY <1>1 DEF By, Result, current

(* A verdict keeps the types of the chain's variables. *)
LEMMA ReturnsTypes ==
  ASSUME TypeOK, NEW passed \in BOOLEAN, NEW err \in BOOLEAN,
         Returns(passed, err)
  PROVE  /\ verdicts' \in Seq(Verdict)
         /\ success' \in BOOLEAN /\ fnErr' \in BOOLEAN
         /\ phase' \in Phases
<1>1. [passed |-> passed, err |-> err] \in Verdict BY DEF Verdict
<1>2. verdicts' \in Seq(Verdict) BY <1>1 DEF Returns, TypeOK
<1>3. success' \in BOOLEAN /\ fnErr' \in BOOLEAN BY DEF Returns, TypeOK
<1>4. phase' \in Phases BY DEF Returns, Phases
<1>. QED BY <1>2, <1>3, <1>4

(* The verdicts after the current processor has returned. *)
LEMMA ReturnsVerdicts ==
  ASSUME TypeOK, NEW passed \in BOOLEAN, NEW err \in BOOLEAN,
         Returns(passed, err)
  PROVE  /\ Len(verdicts') = Len(verdicts) + 1
         /\ DOMAIN verdicts' = DOMAIN verdicts \cup {Len(verdicts')}
         /\ Len(verdicts') \notin DOMAIN verdicts
         /\ \A i \in DOMAIN verdicts : verdicts'[i] = verdicts[i]
         /\ verdicts'[Len(verdicts')] = [passed |-> passed, err |-> err]
<1>. DEFINE v == [passed |-> passed, err |-> err]
<1>1. verdicts' = Append(verdicts, v) BY DEF Returns
<1>2. verdicts \in Seq(Verdict) /\ v \in Verdict BY DEF TypeOK, Verdict
<1>. HIDE DEF v
<1>3. /\ Len(verdicts') = Len(verdicts) + 1
      /\ \A i \in 1..Len(verdicts) : verdicts'[i] = verdicts[i]
      /\ verdicts'[Len(verdicts) + 1] = v
  BY <1>1, <1>2
<1>4. /\ DOMAIN verdicts = 1..Len(verdicts)
      /\ DOMAIN verdicts' = 1..Len(verdicts) + 1
      /\ Len(verdicts) \in Nat
  BY <1>1, <1>2
<1>. QED BY <1>3, <1>4 DEF v

(* The summary of the verdicts is kept up to date. *)
LEMMA ReturnsChain ==
  ASSUME TypeOK, ChainInv, NEW passed \in BOOLEAN, NEW err \in BOOLEAN,
         Returns(passed, err), phase \in {"process", "runner", "func"},
         current <= Len(chain), ~output.written,
         UNCHANGED <<chain, output, returned>>
  PROVE  ChainInv'
<1>1. ~fnErr /\ \A i \in DOMAIN verdicts : ~verdicts[i].err BY DEF ChainInv
<1>2. success' <=> \A i \in DOMAIN verdicts' :
                     verdicts'[i].passed /\ ~verdicts'[i].err
  <2>. DEFINE fails(i) == ~verdicts[i].passed \/ verdicts[i].err
  <2>1. success <=> \A i \in DOMAIN verdicts : ~fails(i) BY DEF ChainInv
  <2>2. success' <=> success /\ passed /\ ~err BY DEF Returns
  <2>3. \A i \in DOMAIN verdicts' :
          \/ i \in DOMAIN verdicts /\ verdicts'[i] = verdicts[i]
          \/ i = Len(verdicts')
    <3>. TAKE i \in DOMAIN verdicts'
    <3>1. i \in DOMAIN verdicts \cup {Len(verdicts')} BY ReturnsVerdicts
    <3>. QED BY <3>1, ReturnsVerdicts
  <2>4. \A i \in DOMAIN verdicts : i \in DOMAIN verdicts' BY ReturnsVerdicts
  <2>5. /\ Len(verdicts') \in DOMAIN verdicts'
        /\ verdicts'[Len(verdicts')].passed = passed
        /\ verdicts'[Len(verdicts')].err = err
    <3>1. verdicts'[Len(verdicts')] = [passed |-> passed, err |-> err]
      BY ReturnsVerdicts
    <3>2. Len(verdicts') \in DOMAIN verdicts' BY ReturnsVerdicts, Zenon
    <3>. QED BY <3>1, <3>2
  <2>6. \A i \in DOMAIN verdicts : verdicts'[i] = verdicts[i]
    BY ReturnsVerdicts, Zenon
  <2>. QED BY <2>1, <2>2, <2>3, <2>4, <2>5, <2>6, Zenon
<1>3. \A i \in DOMAIN verdicts' : verdicts'[i].err => i = Len(verdicts')
  BY <1>1, ReturnsVerdicts
<1>4. fnErr' <=> \E i \in DOMAIN verdicts' : verdicts'[i].err
  BY <1>1, ReturnsVerdicts DEF Returns
<1>5. Len(verdicts') <= Len(chain')
  BY ReturnsVerdicts DEF current
<1>6. phase' \in {"encode", "process"} /\ (phase' = "encode" <=> fnErr')
  BY DEF Returns
<1>. QED BY <1>2, <1>3, <1>4, <1>5, <1>6 DEF ChainInv

\* The invariant holds before the input is read.
LEMMA InitIInv == Init => IInv
<1>. SUFFICES ASSUME Init PROVE IInv OBVIOUS
<1>1. PICK n \in 0..MaxIncoming :
        incoming \in [1..n -> [by : {0}, severity : Severities]]
  BY DEF Init
<1>2. n \in Nat BY <1>1
<1>3. incoming \in Seq(Result)
  <2>1. incoming \in [1..n -> Result] BY <1>1 DEF Result
  <2>. QED BY <1>2, <2>1
<1>4. PICK m \in 0..MaxChain : chain \in [1..m -> Processors] BY DEF Init
<1>5. m \in Nat BY <1>4
<1>6. chain \in Seq(Processors) BY <1>4, <1>5
<1>7. TypeOK
  <2>1. /\ <<>> \in Seq(Result) /\ <<>> \in Seq(Verdict)
        /\ "read" \in Phases
    BY DEF Phases
  <2>2. [written |-> FALSE, results |-> <<>>]
          \in [written : BOOLEAN, results : Seq(Result)]
    BY <2>1
  <2>. QED BY <1>3, <1>6, <2>1, <2>2 DEF Init, TypeOK, Returnable
<1>8. ChainInv BY <1>6 DEF Init, ChainInv
<1>. QED BY <1>7, <1>8 DEF IInv

(* Every step keeps the types. *)
LEMMA StepType == TypeOK /\ [Next]_vars => TypeOK'
<1>. SUFFICES ASSUME TypeOK, [Next]_vars PROVE TypeOK' OBVIOUS
<1>. USE DEF input, resourceList, outcome
<1>1. CASE Parse BY <1>1 DEF Parse, TypeOK, Phases
<1>2. CASE Refuse BY <1>2 DEF Refuse, TypeOK, Phases, Returnable
<1>3. CASE Abort BY <1>3 DEF Abort, TypeOK, Phases, Returnable
<1>4. CASE ChainReturns BY <1>4 DEF ChainReturns, TypeOK, Phases
<1>5. CASE RunWithoutConfig
  <2>1. By("info") \in Result BY CurrentResult DEF Severities
  <2>. QED BY <1>5, <2>1 DEF RunWithoutConfig, TypeOK, Phases
<1>6. CASE RejectConfig
  <2>1. By("error") \in Result BY CurrentResult DEF Severities
  <2>2. Returns(FALSE, FALSE) BY <1>6 DEF RejectConfig
  <2>3. /\ verdicts' \in Seq(Verdict) /\ success' \in BOOLEAN
        /\ fnErr' \in BOOLEAN /\ phase' \in Phases
    BY <2>2, ReturnsTypes
  <2>. QED BY <1>6, <2>1, <2>3 DEF RejectConfig, TypeOK
<1>7. CASE RunWithConfig BY <1>7 DEF RunWithConfig, TypeOK, Phases
<1>8. CASE CallFunc BY <1>8 DEF CallFunc, TypeOK, Phases
<1>9. CASE Write
  <2>1. Encoded \in Seq(Result) BY DEF Encoded, TypeOK
  <2>. QED BY <1>9, <2>1 DEF Write, Reported, TypeOK, Phases, Returnable
<1>10. ASSUME NEW severity \in Severities,
              \/ RunnerAddsResult(severity) \/ LogResult(severity)
              \/ ApplyFails(severity)
       PROVE  TypeOK'
  <2>1. By(severity) \in Result BY CurrentResult
  <2>2. CASE RunnerAddsResult(severity)
    BY <2>1, <2>2 DEF RunnerAddsResult, TypeOK
  <2>3. CASE LogResult(severity) BY <2>1, <2>3 DEF LogResult, TypeOK
  <2>4. CASE ApplyFails(severity) BY <2>1, <2>4 DEF ApplyFails, TypeOK
  <2>. QED BY <1>10, <2>2, <2>3, <2>4
<1>11. ASSUME NEW passed \in BOOLEAN, RunnerReturns(passed) PROVE TypeOK'
  <2>1. results \o fresh \in Seq(Result) BY ConcatProperties DEF TypeOK
  <2>2. Returns(passed, FALSE) BY <1>11 DEF RunnerReturns
  <2>3. /\ verdicts' \in Seq(Verdict) /\ success' \in BOOLEAN
        /\ fnErr' \in BOOLEAN /\ phase' \in Phases
    BY <2>2, ReturnsTypes
  <2>. QED BY <1>11, <2>1, <2>3 DEF RunnerReturns, TypeOK
<1>12. ASSUME NEW passed \in BOOLEAN, NEW err \in BOOLEAN,
              FuncReturns(passed, err)
       PROVE  TypeOK'
  <2>1. /\ verdicts' \in Seq(Verdict) /\ success' \in BOOLEAN
        /\ fnErr' \in BOOLEAN /\ phase' \in Phases
    BY <1>12, ReturnsTypes DEF FuncReturns
  <2>. QED BY <1>12, <2>1 DEF FuncReturns, TypeOK
<1>13. CASE ApplyReturns BY <1>13 DEF ApplyReturns, TypeOK, Phases
<1>14. CASE UNCHANGED vars BY <1>14 DEF vars, TypeOK
<1>. QED
  BY <1>1, <1>2, <1>3, <1>4, <1>5, <1>6, <1>7, <1>8, <1>9, <1>10, <1>11,
     <1>12, <1>13, <1>14
  DEF Next, Function, Runtime, ReadFails, ProcessPanics, FunctionPanics,
      WriteFails

(* Every step keeps the summary of the verdicts. *)
LEMMA StepChain == TypeOK /\ ChainInv /\ [Next]_vars => ChainInv'
<1>. SUFFICES ASSUME TypeOK, ChainInv, [Next]_vars PROVE ChainInv' OBVIOUS
<1>. USE DEF input, resourceList, outcome
<1>0. ASSUME NEW passed \in BOOLEAN, NEW err \in BOOLEAN,
             Returns(passed, err),
             phase \in {"process", "runner", "func"}, current <= Len(chain),
             UNCHANGED <<chain, output, returned>>
      PROVE  ChainInv'
  <2>1. ~output.written BY <1>0 DEF ChainInv
  <2>. QED BY <1>0, <2>1, ReturnsChain
<1>1. CASE Parse
  <2>1. phase = "read" /\ ~output.written BY <1>1 DEF Parse, ChainInv
  <2>. QED BY <1>1, <2>1 DEF Parse, ChainInv
<1>2. CASE Refuse BY <1>2 DEF Refuse, ChainInv
<1>3. ASSUME Abort, phase # "exited", phase # "refused" PROVE ChainInv'
  BY <1>3 DEF Abort, ChainInv
<1>4. CASE ChainReturns
  <2>1. Len(verdicts) \in Nat /\ Len(chain) \in Nat BY DEF TypeOK
  <2>2. Len(verdicts) = Len(chain)
    BY <1>4, <2>1 DEF ChainReturns, ChainInv, current
  <2>. QED BY <1>4, <2>2 DEF ChainReturns, ChainInv
<1>5. CASE RunWithoutConfig
  BY <1>5 DEF RunWithoutConfig, Due, ChainInv, current
<1>6. CASE RejectConfig BY <1>0, <1>6 DEF RejectConfig, Due
<1>7. CASE RunWithConfig BY <1>7 DEF RunWithConfig, Due, ChainInv, current
<1>8. CASE CallFunc BY <1>8 DEF CallFunc, Due, ChainInv, current
<1>9. CASE Write BY <1>9 DEF Write, Reported, ChainInv, TypeOK
<1>10. ASSUME NEW severity \in Severities,
              \/ RunnerAddsResult(severity) \/ LogResult(severity)
              \/ ApplyFails(severity)
       PROVE  ChainInv'
  BY <1>10 DEF RunnerAddsResult, LogResult, ApplyFails, ChainInv, current
<1>11. ASSUME NEW passed \in BOOLEAN, RunnerReturns(passed) PROVE ChainInv'
  BY <1>0, <1>11 DEF RunnerReturns, ChainInv
<1>12. ASSUME NEW passed \in BOOLEAN, NEW err \in BOOLEAN,
              FuncReturns(passed, err)
       PROVE  ChainInv'
  BY <1>0, <1>12 DEF FuncReturns, ChainInv
<1>13. CASE ApplyReturns BY <1>13 DEF ApplyReturns, ChainInv, current
<1>14. CASE UNCHANGED vars BY <1>14 DEF vars, ChainInv, Reported, current
<1>15. CASE ReadFails BY <1>3, <1>15 DEF ReadFails
<1>16. CASE ProcessPanics BY <1>3, <1>16 DEF ProcessPanics, Due
<1>17. CASE FunctionPanics BY <1>3, <1>17 DEF FunctionPanics
<1>18. CASE WriteFails BY <1>3, <1>18 DEF WriteFails
<1>. QED
  BY <1>1, <1>2, <1>4, <1>5, <1>6, <1>7, <1>8, <1>9, <1>10, <1>11,
     <1>12, <1>13, <1>14, <1>15, <1>16, <1>17, <1>18
  DEF Next, Function, Runtime

(***************************************************************************)
(* The inductive invariant holds for any chain, configuration and results. *)
(***************************************************************************)
THEOREM ChainInvariant == Spec => []IInv
<1>1. IInv /\ [Next]_vars => IInv' BY StepType, StepChain DEF IInv
<1>. QED BY InitIInv, <1>1, PTL DEF Spec

(***************************************************************************)
(* No failure is swallowed, whatever the chain: an invocation of AsMain or *)
(* Execute succeeds only if its output is written and every processor of   *)
(* the chain ran and passed without an error.                              *)
(***************************************************************************)
THEOREM FailuresAlwaysSurface == Spec => []FailuresSurface
<1>1. IInv => FailuresSurface
  <2>. SUFFICES ASSUME IInv, phase \in {"exited", "refused"}, returned = "nil"
                PROVE  output.written /\ \A i \in DOMAIN chain : Passed(i)
    BY DEF FailuresSurface
  <2>1. output.written BY DEF IInv, ChainInv
  <2>2. Reported = "nil" BY <2>1 DEF IInv, ChainInv
  <2>3. ~fnErr /\ success BY <2>2 DEF Reported
  <2>4. Len(verdicts) = Len(chain) BY <2>1, <2>3 DEF IInv, ChainInv
  <2>5. DOMAIN verdicts = DOMAIN chain BY <2>4 DEF IInv, TypeOK
  <2>6. \A i \in DOMAIN chain : Passed(i)
    BY <2>3, <2>5 DEF Passed, IInv, ChainInv
  <2>. QED BY <2>1, <2>6
<1>. QED BY <1>1, ChainInvariant, PTL

(***************************************************************************)
(* Chain stops at the first error and at nothing else.                     *)
(***************************************************************************)
THEOREM AlwaysStopsAtErrors == Spec => []StopsAtErrors
<1>1. IInv => StopsAtErrors
  <2>. SUFFICES ASSUME IInv PROVE StopsAtErrors OBVIOUS
  <2>1. /\ DOMAIN verdicts = 1..Len(verdicts)
        /\ Len(verdicts) \in Nat /\ Len(chain) \in Nat
    BY DEF IInv, TypeOK
  <2>2. \A i \in DOMAIN verdicts : i < Len(verdicts) => ~verdicts[i].err
    BY <2>1 DEF IInv, ChainInv
  <2>3. ASSUME output.written, Len(verdicts) < Len(chain)
        PROVE  verdicts # <<>> /\ verdicts[Len(verdicts)].err
    <3>1. fnErr BY <2>1, <2>3 DEF IInv, ChainInv
    <3>2. PICK i \in DOMAIN verdicts : verdicts[i].err
      BY <3>1 DEF IInv, ChainInv
    <3>3. i = Len(verdicts) BY <3>2 DEF IInv, ChainInv
    <3>4. verdicts # <<>> BY <2>1, <3>2
    <3>. QED BY <3>2, <3>3, <3>4
  <2>. QED BY <2>2, <2>3 DEF StopsAtErrors
<1>. QED BY <1>1, ChainInvariant, PTL

-----------------------------------------------------------------------------
(***************************************************************************)
(* Without ApplyFnBySelector, the results in memory and those the running  *)
(* Runner has added are at all times those that were read and all added    *)
(* since, in order; ParseResourceList has read those of the input, Read    *)
(* none.                                                                   *)
(***************************************************************************)
Carried == IF entry = "AsMain" THEN incoming ELSE <<>>

AppendInv ==
  /\ phase = "read" => results = <<>> /\ fresh = <<>> /\ logged = <<>>
  /\ phase \in {"process", "func", "encode"} => fresh = <<>>
  /\ phase \in {"process", "runner", "func", "encode"} =>
       results \o fresh = Carried \o logged
  /\ output.written => output.results = Kept \o logged

(* Appending to the second of two sequences appends to both. *)
LEMMA AppendAfter ==
  ASSUME NEW S, NEW s \in Seq(S), NEW t \in Seq(S), NEW e \in S
  PROVE  s \o Append(t, e) = Append(s \o t, e)
<1>1. <<e>> \in Seq(S) OBVIOUS
<1>2. s \o t \in Seq(S) BY ConcatProperties
<1>3. s \o (t \o <<e>>) = (s \o t) \o <<e>> BY <1>1, ConcatAssociative
<1>. QED BY <1>2, <1>3, AppendIsConcat

(* Without ApplyFnBySelector none of its steps is taken. *)
LEMMA NoApply ==
  ASSUME IInv, ~Selects
  PROVE  \A severity \in Severities : ~ApplyFails(severity)
<1>. SUFFICES ASSUME NEW severity \in Severities, ApplyFails(severity)
              PROVE  FALSE
  OBVIOUS
<1>1. current <= Len(chain) /\ current >= 1 /\ current \in Nat
  BY DEF ApplyFails, IInv, ChainInv, TypeOK, current
<1>2. current \in DOMAIN chain BY <1>1 DEF IInv, TypeOK
<1>. QED BY <1>2 DEF ApplyFails, Selects

(* Every step keeps AppendInv if no processor is a selector. *)
LEMMA StepAppend ==
  ASSUME IInv, AppendInv, [Next]_vars, ~Selects
  PROVE  AppendInv'
<1>. USE DEF input, resourceList, outcome
<1>1. /\ incoming \in Seq(Result) /\ results \in Seq(Result)
      /\ fresh \in Seq(Result) /\ logged \in Seq(Result)
      /\ Carried \in Seq(Result)
      /\ entry \in {"AsMain", "Execute"}
  BY EntriesAssumption DEF IInv, TypeOK, Carried
<1>0. /\ Carried' = Carried \/ ~(UNCHANGED <<entry, incoming>>)
      /\ Kept' = Kept \/ ~(UNCHANGED <<entry, incoming, logged>>)
  BY DEF Carried, Kept
<1>2. /\ \A s \in Seq(Result) : s \o <<>> = s
      /\ phase \notin {"exited", "refused"} => ~output.written
  BY ConcatEmptySeq DEF IInv, ChainInv
<1>3. \A severity \in Severities : By(severity) \in Result
  BY CurrentResult DEF IInv
<1>4. \A e \in Result :
        /\ Carried \o Append(logged, e) = Append(Carried \o logged, e)
        /\ results \o Append(fresh, e) = Append(results \o fresh, e)
        /\ Append(results, e) \in Seq(Result)
  <2> SUFFICES ASSUME NEW e \in Result
               PROVE  /\ Carried \o Append(logged, e) = Append(Carried \o logged, e)
                      /\ results \o Append(fresh, e) = Append(results \o fresh, e)
                      /\ Append(results, e) \in Seq(Result)
    OBVIOUS
  <2>1. Carried \o Append(logged, e) = Append(Carried \o logged, e)
    BY <1>1, AppendAfter
  <2>2. results \o Append(fresh, e) = Append(results \o fresh, e)
    BY <1>1, AppendAfter
  <2>3. Append(results, e) \in Seq(Result)
    BY <1>1
  <2>. QED BY <2>1, <2>2, <2>3
<1>5. CASE Parse
  <2>1. /\ phase' = "process" /\ results' = Carried
        /\ fresh' = <<>> /\ logged' = <<>> /\ Carried' = Carried
        /\ output' = output /\ ~output.written
    BY <1>1, <1>2, <1>5 DEF Parse, AppendInv, Carried
  <2>2. Carried \o <<>> = Carried
    BY <1>1, <1>2
  <2>. QED BY <1>0, <2>1, <2>2 DEF AppendInv
<1>6. CASE Refuse BY <1>0, <1>2, <1>6 DEF Refuse, AppendInv
<1>7. ASSUME Abort PROVE AppendInv'
  BY <1>0, <1>7 DEF Abort, AppendInv
<1>8. CASE ChainReturns BY <1>0, <1>2, <1>8 DEF ChainReturns, AppendInv
<1>9. ASSUME NEW severity \in Severities, phase \in {"process", "func"},
             results' = Append(results, By(severity)),
             logged' = Append(logged, By(severity)),
             phase' \in {"process", "runner", "func", "encode"},
             UNCHANGED <<entry, incoming, fresh, output>>
      PROVE  AppendInv'
  <2>1. fresh = <<>> /\ results = Carried \o logged
    BY <1>0, <1>1, <1>2, <1>9 DEF AppendInv
  <2>2. results' = Carried \o logged' BY <1>3, <1>4, <1>9, <2>1
  <2>3. results' \o fresh' = results' BY <1>2, <1>3, <1>4, <1>9, <2>1
  <2>. QED BY <1>0, <1>2, <1>9, <2>1, <2>2, <2>3 DEF AppendInv
<1>10. CASE RunWithoutConfig
  BY <1>9, <1>10 DEF RunWithoutConfig, Due, Severities
<1>11. CASE RejectConfig
  BY <1>9, <1>11 DEF RejectConfig, Due, Severities, Returns
<1>12. CASE RunWithConfig
  BY <1>0, <1>2, <1>12 DEF RunWithConfig, Due, AppendInv
<1>13. CASE CallFunc BY <1>0, <1>2, <1>13 DEF CallFunc, Due, AppendInv
<1>14. CASE Write
  <2>1. fresh = <<>> /\ results = Carried \o logged
    BY <1>0, <1>1, <1>2, <1>14 DEF Write, AppendInv
  <2>2. <<>> \o logged = logged BY <1>1, ConcatEmptySeq
  <2>3. Encoded = Kept \o logged
    <3>1. CASE entry = "AsMain" BY <2>1, <3>1 DEF Encoded, Kept, Carried
    <3>2. CASE entry = "Execute" /\ logged = <<>>
      BY <1>1, <1>2, <2>1, <2>2, <3>2 DEF Encoded, Kept, Carried
    <3>3. CASE entry = "Execute" /\ logged # <<>>
      BY <2>1, <2>2, <3>3 DEF Encoded, Kept, Carried
    <3>. QED BY <1>1, <3>1, <3>2, <3>3
  <2>. QED BY <1>0, <1>14, <2>1, <2>3 DEF Write, AppendInv
<1>15. ASSUME NEW severity \in Severities, RunnerAddsResult(severity)
       PROVE  AppendInv'
  <2>1. results' \o fresh' = Carried' \o logged'
    BY <1>0, <1>3, <1>4, <1>15 DEF RunnerAddsResult, AppendInv
  <2>. QED BY <1>0, <1>2, <1>15, <2>1 DEF RunnerAddsResult, AppendInv
<1>16. ASSUME NEW severity \in Severities, LogResult(severity)
       PROVE  AppendInv'
  BY <1>9, <1>16 DEF LogResult
<1>17. \A severity \in Severities : ~ApplyFails(severity) BY NoApply
<1>18. ASSUME NEW passed \in BOOLEAN, RunnerReturns(passed)
       PROVE  AppendInv'
  <2>1. results' = Carried' \o logged' /\ fresh' = <<>>
    BY <1>0, <1>18 DEF RunnerReturns, AppendInv
  <2>2. results' \in Seq(Result)
    BY <1>1, <1>18, ConcatProperties DEF RunnerReturns
  <2>3. results' \o fresh' = results' BY <1>2, <2>1, <2>2
  <2>4. phase' \in {"process", "encode"} BY <1>18 DEF RunnerReturns, Returns
  <2>. QED BY <1>0, <1>2, <1>18, <2>1, <2>3, <2>4 DEF RunnerReturns, AppendInv
<1>19. ASSUME NEW passed \in BOOLEAN, NEW err \in BOOLEAN,
              FuncReturns(passed, err)
       PROVE  AppendInv'
  <2>1. phase' \in {"process", "encode"} BY <1>19 DEF FuncReturns, Returns
  <2>. QED BY <1>0, <1>2, <1>19, <2>1 DEF FuncReturns, AppendInv
<1>20. CASE ApplyReturns BY <1>0, <1>20 DEF ApplyReturns, AppendInv
<1>21. CASE UNCHANGED vars BY <1>0, <1>21 DEF vars, AppendInv
<1>. QED
  BY <1>5, <1>6, <1>7, <1>8, <1>10, <1>11, <1>12, <1>13, <1>14, <1>15,
     <1>16, <1>17, <1>18, <1>19, <1>20, <1>21
  DEF Next, Function, Runtime, ReadFails, ProcessPanics, FunctionPanics,
      WriteFails

(* What the function was called with stays as it is. *)
LEMMA InputStays == ASSUME [Next]_vars PROVE UNCHANGED input
  BY DEF Next, Function, Runtime, Parse, Refuse, ReadFails, ChainReturns,
     RunWithoutConfig, ProcessPanics, RejectConfig, RunWithConfig, CallFunc,
     Write, WriteFails, Abort, RunnerAddsResult, LogResult, ApplyFails,
     RunnerReturns, FuncReturns, ApplyReturns, FunctionPanics, vars

(***************************************************************************)
(* Whatever Runners and ResourceListProcessorFuncs are chained, as long as *)
(* none calls ApplyFnBySelector, AsMain writes the results of the input    *)
(* and all those added since, in order; Execute writes those added since,  *)
(* and those of the input only if none were.                               *)
(***************************************************************************)
THEOREM AlwaysAppended == Spec => []ResultsKept
<1> DEFINE KeptInv == ~Selects => AppendInv
<1>1. Init => KeptInv BY DEF Init, AppendInv
<1>2. IInv /\ KeptInv /\ [Next]_vars => KeptInv'
  <2> SUFFICES ASSUME IInv, KeptInv, [Next]_vars, (~Selects)'
               PROVE  AppendInv'
    OBVIOUS
  <2>1. ~Selects BY InputStays DEF input, Selects
  <2>. QED BY <2>1, StepAppend
<1>3. KeptInv => ResultsKept
  BY DEF AppendInv, ResultsKept
<1>. QED BY <1>1, <1>2, <1>3, ChainInvariant, PTL DEF Spec

-----------------------------------------------------------------------------
(***************************************************************************)
(* What runs is not rejected, and a processor that is rejected has added   *)
(* nothing but errors before it gave its verdict, which is to fail.        *)
(***************************************************************************)
RejectedInv ==
  /\ phase \in {"runner", "func"} => ~Rejected(current)
  /\ \A r \in DOMAIN logged : Rejected(logged[r].by) =>
       logged[r].by < current /\ logged[r].severity = "error"
  /\ \A i \in DOMAIN verdicts : Rejected(i) => ~verdicts[i].passed

(* The results after one has been added. *)
LEMMA LoggedResults ==
  ASSUME TypeOK, NEW severity \in Severities,
         logged' = Append(logged, By(severity))
  PROVE  \A r \in DOMAIN logged' :
           \/ r \in DOMAIN logged /\ logged'[r] = logged[r]
           \/ logged'[r].by = current /\ logged'[r].severity = severity
<1>. DEFINE e == By(severity)
<1>1. e \in Result /\ logged \in Seq(Result) BY CurrentResult DEF TypeOK
<1>2. e.by = current /\ e.severity = severity BY DEF By
<1>. HIDE DEF e
<1>3. \A r \in DOMAIN Append(logged, e) :
        \/ r \in DOMAIN logged /\ Append(logged, e)[r] = logged[r]
        \/ Append(logged, e)[r] = e
  BY <1>1
<1>4. logged' = Append(logged, e) BY DEF e
<1>. QED BY <1>2, <1>3, <1>4

(* Every step keeps RejectedInv. *)
LEMMA StepRejected == IInv /\ RejectedInv /\ [Next]_vars => RejectedInv'
<1>. SUFFICES ASSUME IInv, RejectedInv, [Next]_vars PROVE RejectedInv' OBVIOUS
<1>. USE DEF input, resourceList, outcome
<1>1. TypeOK /\ current \in Nat BY DEF IInv, TypeOK, current
<1>2. \A i : Rejected(i) <=> Rejected(i)'
  BY InputStays DEF Rejected, NoConfig, Rejects
<1>3. ASSUME UNCHANGED <<logged, verdicts>>,
             phase' \in {"runner", "func"} => ~Rejected(current)
      PROVE  RejectedInv'
  <2>1. current' = current BY <1>3 DEF current
  <2>. QED BY <1>2, <1>3, <2>1 DEF RejectedInv
<1>4. ASSUME NEW severity \in Severities, ~Rejected(current),
             logged' = Append(logged, By(severity)), UNCHANGED verdicts
      PROVE  RejectedInv'
  <2>1. current' = current BY <1>4 DEF current
  <2>2. \A r \in DOMAIN logged' : Rejected(logged'[r].by) =>
          logged'[r].by < current /\ logged'[r].severity = "error"
    BY <1>1, <1>4, LoggedResults DEF RejectedInv
  <2>. QED BY <1>2, <1>4, <2>1, <2>2 DEF RejectedInv
<1>5. ASSUME NEW passed \in BOOLEAN, NEW err \in BOOLEAN, Returns(passed, err),
             Rejected(current) => ~passed,
             \A r \in DOMAIN logged' : Rejected(logged'[r].by) =>
               logged'[r].by <= current /\ logged'[r].severity = "error"
      PROVE  RejectedInv'
  <2>1. /\ Len(verdicts') = current /\ current' = current + 1
        /\ verdicts'[current] = [passed |-> passed, err |-> err]
        /\ DOMAIN verdicts' = DOMAIN verdicts \cup {current}
        /\ \A i \in DOMAIN verdicts : verdicts'[i] = verdicts[i]
    BY <1>1, <1>5, ReturnsVerdicts DEF current
  <2>2. \A i \in DOMAIN verdicts' : Rejected(i) => ~verdicts'[i].passed
    BY <1>5, <2>1 DEF RejectedInv
  <2>3. \A r \in DOMAIN logged' : Rejected(logged'[r].by) =>
          logged'[r].by < current' /\ logged'[r].severity = "error"
    <3>. TAKE r \in DOMAIN logged'
    <3>. HAVE Rejected(logged'[r].by)
    <3>1. logged'[r].by \in Int
      BY InputStays DEF Rejected, IInv, TypeOK
    <3>. QED BY <1>1, <1>5, <2>1, <3>1
  <2>4. phase' \notin {"runner", "func"} BY <1>5 DEF Returns
  <2>. QED BY <1>2, <2>2, <2>3, <2>4 DEF RejectedInv
<1>6. \A r \in DOMAIN logged : Rejected(logged[r].by) =>
        logged[r].by <= current /\ logged[r].severity = "error"
  <2>. TAKE r \in DOMAIN logged
  <2>. HAVE Rejected(logged[r].by)
  <2>1. logged[r].by \in Int BY DEF Rejected, IInv, TypeOK
  <2>. QED BY <1>1, <2>1 DEF RejectedInv
<1>7. CASE Parse BY <1>3, <1>7 DEF Parse
<1>8. CASE Refuse BY <1>3, <1>8 DEF Refuse
<1>9. ASSUME Abort PROVE RejectedInv' BY <1>3, <1>9 DEF Abort
<1>10. CASE ChainReturns BY <1>3, <1>10 DEF ChainReturns
<1>11. CASE RunWithoutConfig
  BY <1>4, <1>11 DEF RunWithoutConfig, Rejected, Severities
<1>12. CASE RejectConfig
  <2>1. Returns(FALSE, FALSE) /\ logged' = Append(logged, By("error"))
    BY <1>12 DEF RejectConfig
  <2>2. \A r \in DOMAIN logged' : Rejected(logged'[r].by) =>
          logged'[r].by <= current /\ logged'[r].severity = "error"
    BY <1>1, <1>6, <2>1, LoggedResults DEF Severities
  <2>. QED BY <1>5, <2>1, <2>2
<1>13. CASE RunWithConfig BY <1>3, <1>13 DEF RunWithConfig, Rejected
<1>14. CASE CallFunc
  BY <1>3, <1>14 DEF CallFunc, Due, Rejected, Runners
<1>15. CASE Write BY <1>3, <1>15 DEF Write
<1>16. ASSUME NEW severity \in Severities,
              \/ RunnerAddsResult(severity) \/ LogResult(severity)
              \/ ApplyFails(severity)
       PROVE  RejectedInv'
  BY <1>4, <1>16 DEF RunnerAddsResult, LogResult, ApplyFails, RejectedInv
<1>17. ASSUME NEW passed \in BOOLEAN, RunnerReturns(passed) PROVE RejectedInv'
  BY <1>5, <1>6, <1>17 DEF RunnerReturns, RejectedInv
<1>18. ASSUME NEW passed \in BOOLEAN, NEW err \in BOOLEAN,
              FuncReturns(passed, err)
       PROVE  RejectedInv'
  BY <1>5, <1>6, <1>18 DEF FuncReturns, RejectedInv
<1>19. CASE ApplyReturns BY <1>3, <1>19 DEF ApplyReturns, RejectedInv
<1>20. CASE UNCHANGED vars BY <1>3, <1>20 DEF vars, RejectedInv
<1>. QED
  BY <1>7, <1>8, <1>9, <1>10, <1>11, <1>12, <1>13, <1>14, <1>15, <1>16,
     <1>17, <1>18, <1>19, <1>20
  DEF Next, Function, Runtime, ReadFails, ProcessPanics, FunctionPanics,
      WriteFails

(***************************************************************************)
(* A Runner whose functionConfig is rejected never runs, wherever in the   *)
(* chain it is: it adds errors only, and it fails.                         *)
(***************************************************************************)
THEOREM RejectedNeverRun == Spec => []RejectedDoNotRun
<1>1. Init => RejectedInv
  BY DEF Init, RejectedInv
<1>2. RejectedInv => RejectedDoNotRun
  BY DEF RejectedInv, RejectedDoNotRun, Rejected, Passed
<1>. QED BY <1>1, <1>2, StepRejected, ChainInvariant, PTL DEF Spec

-----------------------------------------------------------------------------
(* A sequence is a prefix of itself with others behind it. *)
LEMMA PrefixOfConcat ==
  ASSUME NEW S, NEW s \in Seq(S), NEW t \in Seq(S)
  PROVE  IsPrefix(s, s \o t)
<1>1. /\ s \o t \in Seq(S) /\ Len(s \o t) = Len(s) + Len(t)
      /\ Len(s) \in Nat /\ Len(t) \in Nat
      /\ \A i \in 1..Len(s) : (s \o t)[i] = s[i]
  BY ConcatProperties
<1>2. \A i \in 1..Len(s) : s[i] = (s \o t)[i] BY <1>1
<1>3. SubSeq(s, 1, Len(s)) = [i \in 1..Len(s) |-> s[i]] BY <1>1
<1>4. SubSeq(s \o t, 1, Len(s)) = [i \in 1..Len(s) |-> (s \o t)[i]] BY <1>1
<1>. QED BY <1>1, <1>2, <1>3, <1>4 DEF IsPrefix

\* Without ApplyFnBySelector, only a running Runner has results of its own.
FreshInv ==
  ~Selects /\ phase \in {"read", "process", "func", "encode"} => fresh = <<>>

(* Every step keeps FreshInv. *)
LEMMA StepFresh == IInv /\ FreshInv /\ [Next]_vars => FreshInv'
<1>. SUFFICES ASSUME IInv, FreshInv, [Next]_vars PROVE FreshInv' OBVIOUS
<1>. SUFFICES ASSUME ~Selects PROVE FreshInv'
  <2>1. chain' = chain BY InputStays DEF input
  <2>2. Selects' = Selects BY <2>1 DEF Selects
  <2>. QED BY <2>2 DEF FreshInv
<1>. USE DEF input, resourceList, outcome
<1>1. ASSUME phase \in {"read", "process", "func", "encode"}, UNCHANGED fresh
      PROVE  FreshInv'
  BY <1>1 DEF FreshInv
<1>2. ASSUME NEW passed \in BOOLEAN, RunnerReturns(passed) PROVE FreshInv'
  BY <1>2 DEF RunnerReturns, FreshInv
<1>3. ASSUME NEW severity \in Severities,
             RunnerAddsResult(severity) \/ LogResult(severity)
      PROVE  FreshInv'
  BY <1>1, <1>3 DEF RunnerAddsResult, LogResult, FreshInv
<1>4. CASE ApplyReturns BY <1>4 DEF ApplyReturns, FreshInv
<1>5. CASE FunctionPanics BY <1>5 DEF FunctionPanics, Abort, FreshInv
<1>6. CASE UNCHANGED vars BY <1>6 DEF vars, FreshInv
<1>7. CASE Parse \/ Refuse \/ ReadFails
  BY <1>1, <1>7 DEF Parse, Refuse, ReadFails, Abort
<1>8. CASE Runtime
  BY <1>1, <1>8 DEF Runtime, ChainReturns, RunWithoutConfig, ProcessPanics,
     RejectConfig, RunWithConfig, CallFunc, Write, WriteFails, Abort, Due
<1>9. ASSUME NEW passed \in BOOLEAN, NEW err \in BOOLEAN,
             FuncReturns(passed, err)
      PROVE  FreshInv'
  BY <1>1, <1>9 DEF FuncReturns
<1>. QED
  BY <1>2, <1>3, <1>4, <1>5, <1>6, <1>7, <1>8, <1>9, NoApply
  DEF Next, Function

(* A step with neither ApplyFnBySelector nor the input adds at the end. *)
LEMMA StepGrows ==
  ASSUME IInv, FreshInv, Next, phase # "read", ~Selects
  PROVE  IsPrefix(results, results')
<1>. USE DEF input, resourceList, outcome
<1>1. results \in Seq(Result) /\ fresh \in Seq(Result)
  BY DEF IInv, TypeOK
<1>2. ASSUME UNCHANGED results PROVE IsPrefix(results, results')
  <2>1. <<>> \in Seq(Result) /\ results \o <<>> = results
    BY <1>1, ConcatEmptySeq
  <2>2. IsPrefix(results, results \o <<>>) BY <1>1, <2>1, PrefixOfConcat
  <2>. QED BY <1>2, <2>1, <2>2
<1>3. ASSUME NEW severity \in Severities,
             results' = Append(results, By(severity))
      PROVE  IsPrefix(results, results')
  <2>1. By(severity) \in Result BY CurrentResult DEF IInv
  <2>2. <<By(severity)>> \in Seq(Result) BY <2>1
  <2>3. Append(results, By(severity)) = results \o <<By(severity)>>
    BY <1>1, <2>1, AppendIsConcat
  <2>. QED BY <1>1, <1>3, <2>2, <2>3, PrefixOfConcat
<1>4. ASSUME NEW passed \in BOOLEAN, RunnerReturns(passed)
      PROVE  IsPrefix(results, results')
  BY <1>1, <1>4, PrefixOfConcat DEF RunnerReturns
<1>5. CASE RunWithoutConfig \/ RejectConfig
  BY <1>3, <1>5 DEF RunWithoutConfig, RejectConfig, Severities
<1>6. ASSUME NEW severity \in Severities,
             RunnerAddsResult(severity) \/ LogResult(severity)
      PROVE  IsPrefix(results, results')
  BY <1>2, <1>3, <1>6 DEF RunnerAddsResult, LogResult
<1>7. ~ApplyReturns BY DEF ApplyReturns, FreshInv
<1>8. CASE Refuse \/ ReadFails \/ FunctionPanics
  BY <1>2, <1>8 DEF Refuse, ReadFails, FunctionPanics, Abort
<1>9. CASE ChainReturns \/ ProcessPanics \/ RunWithConfig \/ CallFunc \/ Write
           \/ WriteFails
  BY <1>2, <1>9 DEF ChainReturns, ProcessPanics, RunWithConfig, CallFunc,
     Write, WriteFails, Abort
<1>10. ASSUME NEW passed \in BOOLEAN, NEW err \in BOOLEAN,
              FuncReturns(passed, err)
       PROVE  IsPrefix(results, results')
  BY <1>2, <1>10 DEF FuncReturns
<1>11. ~Parse BY DEF Parse
<1>. QED
  BY <1>4, <1>5, <1>6, <1>7, <1>8, <1>9, <1>10, <1>11, NoApply
  DEF Next, Function, Runtime

(***************************************************************************)
(* However many Runners and ResourceListProcessorFuncs run, and whatever   *)
(* of them fails, what is in rl.Results stays at its front - unless one    *)
(* calls ApplyFnBySelector.                                                *)
(***************************************************************************)
THEOREM ResultsOnlyGrow == Spec => ResultsGrow
<1>1. Init => FreshInv BY DEF Init, FreshInv
<1>2. IInv /\ FreshInv /\ [Next]_vars =>
        [phase # "read" /\ ~Selects => IsPrefix(results, results')]_vars
  BY StepGrows
<1>. QED BY <1>1, <1>2, StepFresh, ChainInvariant, PTL DEF Spec, ResultsGrow

-----------------------------------------------------------------------------
(***************************************************************************)
(* Without ApplyFnBySelector, what explains a rejected functionConfig is   *)
(* in memory from the verdict on, and what is written is what Encoded says.*)
(***************************************************************************)
ExplainedInv ==
  /\ ~Selects => Explained(results)
  /\ output.written => output.results = Encoded

(* What a prefix has, the sequence has. *)
LEMMA RangeOfPrefix ==
  ASSUME NEW S, NEW s \in Seq(S), NEW t \in Seq(S), IsPrefix(s, t)
  PROVE  Range(s) \subseteq Range(t)
<1>1. /\ Len(s) <= Len(t) /\ SubSeq(s, 1, Len(s)) = SubSeq(t, 1, Len(s))
      /\ Len(s) \in Nat /\ Len(t) \in Nat
      /\ DOMAIN s = 1..Len(s) /\ DOMAIN t = 1..Len(t)
  BY DEF IsPrefix
<1>2. /\ \A i \in 1..Len(s) : SubSeq(s, 1, Len(s))[i] = s[i]
      /\ \A i \in 1..Len(s) : SubSeq(t, 1, Len(s))[i] = t[i]
  BY <1>1
<1>3. \A i \in DOMAIN s : i \in DOMAIN t /\ t[i] = s[i] BY <1>1, <1>2
<1>. QED BY <1>3 DEF Range

(* The processors, and what is rejected of them, stay what they are. *)
LEMMA RejectedStays ==
  ASSUME [Next]_vars
  PROVE  /\ Selects' = Selects
         /\ \A i : Rejected(i)' <=> Rejected(i)
BY InputStays DEF input, Selects, Rejected, NoConfig, Rejects

(* Every step keeps ExplainedInv. *)
LEMMA StepExplained ==
  IInv /\ FreshInv /\ RejectedInv /\ ExplainedInv /\ [Next]_vars => ExplainedInv'
<1>. SUFFICES ASSUME IInv, FreshInv, RejectedInv, ExplainedInv, [Next]_vars
              PROVE  ExplainedInv'
  OBVIOUS
<1>. USE DEF input, resourceList, outcome
<1>0. TypeOK /\ TypeOK' BY StepType DEF IInv
<1>1. ASSUME output'.written PROVE output'.results = Encoded'
  <2>1. CASE UNCHANGED <<output, results, incoming, entry>>
    BY <1>1, <2>1 DEF ExplainedInv, Encoded
  <2>2. CASE Write BY <2>2 DEF Write, Encoded
  <2>3. CASE phase \notin {"exited", "refused"} /\ ~Write
    <3>1. ~output.written BY <2>3 DEF IInv, ChainInv
    <3>2. output' = output
      BY <2>3 DEF Next, Function, Runtime, Parse, Refuse, ReadFails,
         ChainReturns, RunWithoutConfig, ProcessPanics, RejectConfig,
         RunWithConfig, CallFunc, WriteFails, Abort, RunnerAddsResult,
         LogResult, ApplyFails, RunnerReturns, FuncReturns, ApplyReturns,
         FunctionPanics, vars
    <3>. QED BY <1>1, <3>1, <3>2
  <2>4. CASE phase \in {"exited", "refused"}
    <3>1. ~Next
      BY <2>4 DEF Next, Function, Runtime, Parse, Refuse, ReadFails,
         ChainReturns, RunWithoutConfig, ProcessPanics, RejectConfig,
         RunWithConfig, CallFunc, Write, WriteFails, Abort, RunnerAddsResult,
         LogResult, ApplyFails, RunnerReturns, FuncReturns, ApplyReturns,
         FunctionPanics, Due
    <3>. QED BY <2>1, <3>1 DEF vars
  <2>. QED BY <2>2, <2>3, <2>4
<1>2. ASSUME ~Selects PROVE Explained(results)'
  <2>1. CASE UNCHANGED <<verdicts, results>>
    BY <1>2, <2>1, RejectedStays DEF ExplainedInv, Explained
  <2>2. CASE phase = "read"
    <3>1. verdicts = <<>> BY <2>2 DEF IInv, ChainInv
    <3>2. verdicts' = verdicts
      BY <2>2 DEF Next, Function, Runtime, Parse, Refuse, ReadFails,
         ChainReturns, RunWithoutConfig, ProcessPanics, RejectConfig,
         RunWithConfig, CallFunc, Write, WriteFails, Abort, RunnerAddsResult,
         LogResult, ApplyFails, RunnerReturns, FuncReturns, ApplyReturns,
         FunctionPanics, Due, vars
    <3>. QED BY <3>1, <3>2 DEF Explained
  <2>3. ASSUME Next, phase # "read" PROVE Range(results) \subseteq Range(results')
    <3>1. IsPrefix(results, results') BY <1>2, <2>3, StepGrows
    <3>. QED BY <1>0, <3>1, RangeOfPrefix DEF TypeOK
  <2>4. ASSUME Next, phase # "read", verdicts' = verdicts
        PROVE  Explained(results)'
    BY <1>2, <2>3, <2>4, RejectedStays DEF ExplainedInv, Explained
  <2>5. ASSUME NEW passed \in BOOLEAN, NEW err \in BOOLEAN, Next,
               phase # "read", Returns(passed, err),
               Rejected(current) =>
                 [by |-> current, severity |-> "error"] \in Range(results')
        PROVE  Explained(results)'
    <3>1. /\ Len(verdicts') = current
          /\ \A i \in DOMAIN verdicts' : i \in DOMAIN verdicts \/ i = current
      BY <1>0, <2>5, ReturnsVerdicts DEF current
    <3>. QED BY <1>2, <2>3, <2>5, <3>1, RejectedStays DEF ExplainedInv, Explained
  <2>6. CASE RejectConfig
    <3>1. By("error") \in Result BY <1>0, CurrentResult DEF Severities
    <3>2. results' = Append(results, By("error")) BY <2>6 DEF RejectConfig
    <3>3. By("error") \in Range(results')
      <4>. DEFINE e == By("error")
      <4>1. e \in Result /\ results \in Seq(Result) /\ results' = Append(results, e)
        BY <1>0, <3>1, <3>2 DEF TypeOK
      <4>. HIDE DEF e
      <4>2. /\ Len(results) + 1 \in DOMAIN results'
            /\ results'[Len(results) + 1] = e
        BY <4>1
      <4>3. e \in Range(results') BY <4>2 DEF Range
      <4>. QED BY <4>3 DEF e
    <3>4. Returns(FALSE, FALSE) /\ phase # "read" /\ Next
      BY <2>6 DEF RejectConfig, Due, Next, Runtime
    <3>. QED BY <2>5, <3>3, <3>4 DEF By
  <2>7. ASSUME NEW passed \in BOOLEAN, RunnerReturns(passed)
        PROVE  Explained(results)'
    <3>1. /\ phase = "runner" /\ Returns(passed, FALSE) /\ Next
          /\ ~Rejected(current)
      BY <2>7 DEF RunnerReturns, RejectedInv, Next, Function
    <3>. QED BY <2>5, <3>1
  <2>8. ASSUME NEW passed \in BOOLEAN, NEW err \in BOOLEAN,
               FuncReturns(passed, err)
        PROVE  Explained(results)'
    <3>1. /\ phase = "func" /\ Returns(passed, err) /\ Next
          /\ ~Rejected(current)
      BY <2>8 DEF FuncReturns, RejectedInv, Next, Function
    <3>. QED BY <2>5, <3>1
  <2>9. ASSUME Next, ~RejectConfig,
               \A passed \in BOOLEAN : ~RunnerReturns(passed),
               \A passed, err \in BOOLEAN : ~FuncReturns(passed, err)
        PROVE  verdicts' = verdicts
    BY <2>9 DEF Next, Function, Runtime, Parse, Refuse, ReadFails,
       ChainReturns, RunWithoutConfig, ProcessPanics, RunWithConfig, CallFunc,
       Write, WriteFails, Abort, RunnerAddsResult, LogResult, ApplyFails,
       ApplyReturns, FunctionPanics
  <2>. QED
    BY <2>1, <2>2, <2>4, <2>6, <2>7, <2>8, <2>9 DEF vars
<1>3. ~Selects' => Explained(results)'
  BY <1>2, RejectedStays
<1>. QED BY <1>1, <1>3 DEF ExplainedInv

(***************************************************************************)
(* The entry point returns the failure of a processor only after it has    *)
(* written the output, for any chain; and if no processor calls            *)
(* ApplyFnBySelector, every rejected functionConfig is explained there by  *)
(* its error result, whatever ran after it.                                *)
(***************************************************************************)
THEOREM ErrorsAlwaysAfterOutput == Spec => []ErrorsAfterOutput
<1>1. Init => FreshInv /\ RejectedInv /\ ExplainedInv
  BY DEF Init, FreshInv, RejectedInv, ExplainedInv, Explained
<1>2. IInv /\ ExplainedInv => ErrorsAfterOutput
  <2>. SUFFICES ASSUME IInv, ExplainedInv, returned \in {"fnErr", "failure"}
                PROVE  output.written /\ (~Selects => Explained(output.results))
    BY DEF ErrorsAfterOutput
  <2>1. output.written BY DEF IInv, ChainInv
  <2>2. ASSUME ~Selects PROVE Explained(output.results)
    <3>1. output.results = Encoded /\ Explained(results)
      BY <2>1, <2>2 DEF ExplainedInv
    <3>2. CASE results = <<>>
      <4>1. Range(results) = {} BY <3>2 DEF Range
      <4>. QED BY <3>1, <4>1 DEF Explained
    <3>3. CASE results # <<>> BY <3>1, <3>3 DEF Encoded
    <3>. QED BY <3>2, <3>3
  <2>. QED BY <2>1, <2>2
<1>. QED BY <1>1, <1>2, StepFresh, StepRejected, StepExplained, ChainInvariant,
         PTL
     DEF Spec

-----------------------------------------------------------------------------
(* The order of the results, with or without ApplyFnBySelector. *)

(* A sequence is in its own order. *)
LEMMA InOrderItself ==
  ASSUME NEW S, NEW all \in Seq(S)
  PROVE  InOrder(all, all)
<1>. DEFINE at == [w \in DOMAIN all |-> w]
<1>1. DOMAIN all \subseteq Nat OBVIOUS
<1>2. at \in [DOMAIN all -> DOMAIN all] OBVIOUS
<1>3. /\ \A w \in DOMAIN all : all[w] = all[at[w]]
      /\ \A v, w \in DOMAIN all : v < w => at[v] < at[w]
  OBVIOUS
<1>. QED BY <1>2, <1>3 DEF InOrder

(* Nothing is in any order. *)
LEMMA InOrderNothing == ASSUME NEW all PROVE InOrder(<<>>, all)
<1>1. <<>> \in [DOMAIN <<>> -> DOMAIN all] OBVIOUS
<1>2. DOMAIN <<>> = {} OBVIOUS
<1>. QED BY <1>1, <1>2 DEF InOrder

(* What is in order remains so when more is added that is not written. *)
LEMMA InOrderDropped ==
  ASSUME NEW S, NEW part \in Seq(S), NEW all \in Seq(S), NEW e \in S,
         InOrder(part, all)
  PROVE  InOrder(part, Append(all, e))
<1>1. PICK at \in [DOMAIN part -> DOMAIN all] :
        /\ \A w \in DOMAIN part : part[w] = all[at[w]]
        /\ \A v, w \in DOMAIN part : v < w => at[v] < at[w]
  BY DEF InOrder
<1>2. /\ DOMAIN all \subseteq DOMAIN Append(all, e)
      /\ \A i \in DOMAIN all : Append(all, e)[i] = all[i]
  OBVIOUS
<1>3. at \in [DOMAIN part -> DOMAIN Append(all, e)] BY <1>2
<1>4. \A w \in DOMAIN part : part[w] = Append(all, e)[at[w]] BY <1>1, <1>2
<1>. QED BY <1>1, <1>3, <1>4 DEF InOrder

(* It remains so when what is added is also written. *)
LEMMA InOrderAdded ==
  ASSUME NEW S, NEW part \in Seq(S), NEW all \in Seq(S), NEW e \in S,
         InOrder(part, all)
  PROVE  InOrder(Append(part, e), Append(all, e))
<1>1. PICK at \in [DOMAIN part -> DOMAIN all] :
        /\ \A w \in DOMAIN part : part[w] = all[at[w]]
        /\ \A v, w \in DOMAIN part : v < w => at[v] < at[w]
  BY DEF InOrder
<1>. DEFINE m == Len(part) + 1
            n == Len(all) + 1
            next == [w \in 1..m |-> IF w = m THEN n ELSE at[w]]
<1>2. /\ m \in Nat /\ n \in Nat
      /\ DOMAIN part = 1..m - 1 /\ DOMAIN all = 1..n - 1
      /\ DOMAIN Append(part, e) = 1..m /\ DOMAIN Append(all, e) = 1..n
      /\ \A w \in 1..m - 1 : Append(part, e)[w] = part[w]
      /\ \A i \in 1..n - 1 : Append(all, e)[i] = all[i]
      /\ Append(part, e)[m] = e /\ Append(all, e)[n] = e
  OBVIOUS
<1>. HIDE DEF m, n
<1>3. \A w \in 1..m : next[w] = IF w = m THEN n ELSE at[w] OBVIOUS
<1>4. \A w \in 1..m : w # m => w \in 1..m - 1 /\ at[w] \in 1..n - 1
  BY <1>1, <1>2
<1>5. n \in 1..n /\ 1..n - 1 \subseteq 1..n
  <2>1. n >= 1 BY <1>2 DEF n
  <2>. QED BY <1>2, <2>1
<1>6. next \in [1..m -> 1..n] BY <1>4, <1>5
<1>. HIDE DEF next
<1>7. \A w \in 1..m : Append(part, e)[w] = Append(all, e)[next[w]]
  <2>. TAKE w \in 1..m
  <2>1. CASE w = m BY <1>2, <1>3, <2>1
  <2>2. CASE w # m
    <3>1. w \in DOMAIN part /\ at[w] \in 1..n - 1 BY <1>2, <1>4, <2>2
    <3>2. Append(part, e)[w] = part[w] /\ part[w] = all[at[w]]
      BY <1>1, <1>2, <3>1
    <3>3. Append(all, e)[at[w]] = all[at[w]] BY <1>2, <3>1
    <3>. QED BY <1>3, <2>2, <3>2, <3>3
  <2>. QED BY <2>1, <2>2
<1>8. \A v, w \in 1..m : v < w => next[v] < next[w]
  <2>. TAKE v, w \in 1..m
  <2>. HAVE v < w
  <2>1. v # m /\ v \in 1..m - 1 BY <1>2
  <2>2. next[v] = at[v] /\ at[v] \in 1..n - 1 BY <1>3, <1>4, <2>1
  <2>3. CASE w = m BY <1>2, <1>3, <2>2, <2>3
  <2>4. CASE w # m BY <1>1, <1>2, <1>3, <1>4, <2>1, <2>2, <2>4
  <2>. QED BY <2>3, <2>4
<1>. QED BY <1>2, <1>6, <1>7, <1>8 DEF InOrder

(* The front of what is there is in its order. *)
LEMMA InOrderFront ==
  ASSUME NEW S, NEW front \in Seq(S), NEW rest \in Seq(S)
  PROVE  InOrder(front, front \o rest)
<1>. DEFINE at == [w \in DOMAIN front |-> w]
<1>1. /\ DOMAIN front = 1..Len(front) /\ Len(front) \in Nat /\ Len(rest) \in Nat
      /\ DOMAIN (front \o rest) = 1..Len(front) + Len(rest)
      /\ \A w \in DOMAIN front : (front \o rest)[w] = front[w]
  BY ConcatProperties
<1>2. at \in [DOMAIN front -> DOMAIN (front \o rest)] BY <1>1
<1>3. /\ \A w \in DOMAIN front : front[w] = (front \o rest)[at[w]]
      /\ \A v, w \in DOMAIN front : v < w => at[v] < at[w]
  BY <1>1
<1>. QED BY <1>2, <1>3 DEF InOrder

(* So is what is behind the front of what is in order. *)
LEMMA InOrderRest ==
  ASSUME NEW S, NEW front \in Seq(S), NEW rest \in Seq(S), NEW all \in Seq(S),
         InOrder(front \o rest, all)
  PROVE  InOrder(rest, all)
<1>. DEFINE part == front \o rest
            n == Len(front)
<1>1. PICK at \in [DOMAIN part -> DOMAIN all] :
        /\ \A w \in DOMAIN part : part[w] = all[at[w]]
        /\ \A v, w \in DOMAIN part : v < w => at[v] < at[w]
  BY DEF InOrder
<1>2. /\ n \in Nat /\ DOMAIN rest \subseteq Nat
      /\ \A w \in DOMAIN rest : n + w \in DOMAIN part /\ part[n + w] = rest[w]
  BY ConcatProperties
<1>. DEFINE behind == [w \in DOMAIN rest |-> at[n + w]]
<1>. HIDE DEF part, n
<1>3. behind \in [DOMAIN rest -> DOMAIN all] BY <1>1, <1>2
<1>4. \A w \in DOMAIN rest : rest[w] = all[behind[w]] BY <1>1, <1>2
<1>5. \A v, w \in DOMAIN rest : v < w => behind[v] < behind[w]
  <2>. TAKE v, w \in DOMAIN rest
  <2>. HAVE v < w
  <2>1. n + v < n + w BY <1>2
  <2>. QED BY <1>1, <1>2, <2>1
<1>. HIDE DEF behind
<1>. QED BY <1>3, <1>4, <1>5 DEF InOrder

(***************************************************************************)
(* The results in memory are in the order they were added, and so are      *)
(* those that a Runner or ApplyFnBySelector gathers to put behind them or  *)
(* in their place.                                                         *)
(***************************************************************************)
OrderInv ==
  /\ phase = "read" => results = <<>> /\ logged = <<>>
  /\ phase \in {"read", "process", "encode"} => fresh = <<>>
  /\ InOrder(results, incoming \o logged)
  /\ InOrder(fresh, incoming \o logged)
  /\ phase = "runner" => InOrder(results \o fresh, incoming \o logged)
  /\ output.written => InOrder(output.results, incoming \o logged)

(* Every step keeps OrderInv. *)
LEMMA StepOrder == IInv /\ OrderInv /\ [Next]_vars => OrderInv'
<1>. SUFFICES ASSUME IInv, OrderInv, [Next]_vars PROVE OrderInv' OBVIOUS
<1>. USE DEF input, resourceList, outcome
<1>. DEFINE all == incoming \o logged
<1>1. /\ incoming \in Seq(Result) /\ results \in Seq(Result)
      /\ fresh \in Seq(Result) /\ logged \in Seq(Result)
      /\ all \in Seq(Result)
      /\ \A s \in Seq(Result) : s \o <<>> = s
      /\ phase \notin {"exited", "refused"} => ~output.written
  BY ConcatProperties, ConcatEmptySeq DEF IInv, TypeOK, ChainInv
<1>2. ASSUME NEW severity \in Severities
      PROVE  /\ By(severity) \in Result
             /\ incoming \o Append(logged, By(severity))
                  = Append(all, By(severity))
             /\ results \o Append(fresh, By(severity))
                  = Append(results \o fresh, By(severity))
  <2>1. By(severity) \in Result BY CurrentResult DEF IInv
  <2>. QED BY <1>1, <2>1, AppendAfter
<1>. DEFINE more(severity) == Append(all, By(severity))
<1>2a. ASSUME NEW severity \in Severities, NEW part \in Seq(Result),
              InOrder(part, all)
       PROVE  /\ InOrder(part, more(severity))
              /\ InOrder(Append(part, By(severity)), more(severity))
  <2>. DEFINE e == By(severity)
  <2>1. e \in Result /\ all \in Seq(Result) BY <1>1, <1>2
  <2>. HIDE DEF all, e
  <2>2. InOrder(part, Append(all, e)) BY <1>2a, <2>1, InOrderDropped
  <2>3. InOrder(Append(part, e), Append(all, e)) BY <1>2a, <2>1, InOrderAdded
  <2>. QED BY <2>2, <2>3 DEF e
<1>3. CASE Parse
  <2>1. /\ phase' = "process" /\ results' \in {incoming, <<>>}
        /\ fresh' = <<>> /\ all' = incoming /\ ~output'.written
    BY <1>1, <1>3 DEF Parse, OrderInv
  <2>2. InOrder(incoming, incoming) /\ InOrder(<<>>, incoming)
    BY <1>1, InOrderItself, InOrderNothing
  <2>. QED BY <2>1, <2>2 DEF OrderInv
<1>4. CASE Refuse BY <1>1, <1>4 DEF Refuse, OrderInv
<1>5. ASSUME Abort PROVE OrderInv' BY <1>5 DEF Abort, OrderInv
<1>6. CASE ChainReturns BY <1>1, <1>6 DEF ChainReturns, OrderInv
<1>7. ASSUME NEW severity \in Severities,
             logged' = Append(logged, By(severity)),
             UNCHANGED incoming
      PROVE  /\ all' = more(severity)
             /\ \A part \in {results, fresh} : InOrder(part, all')
  <2>1. all' = more(severity) BY <1>2, <1>7
  <2>2. InOrder(results, all) /\ InOrder(fresh, all) BY DEF OrderInv
  <2>. QED BY <1>1, <1>2a, <2>1, <2>2
<1>8. ASSUME NEW severity \in Severities, phase \in {"process", "func"},
             results' = Append(results, By(severity)),
             logged' = Append(logged, By(severity)),
             phase = "process" => phase' \in {"process", "runner", "encode"},
             phase = "func" => phase' = "func",
             UNCHANGED <<incoming, fresh, output>>
      PROVE  OrderInv'
  <2>1. InOrder(results', all')
    BY <1>1, <1>7, <1>8, <1>2a DEF OrderInv
  <2>2. InOrder(fresh', all') BY <1>7, <1>8
  <2>3. phase = "process" => fresh' = <<>> /\ results' \o fresh' = results'
    <3>1. results' \in Seq(Result) BY <1>1, <1>2, <1>8
    <3>. QED BY <1>1, <1>8, <3>1 DEF OrderInv
  <2>4. ~output'.written BY <1>1, <1>8
  <2>. QED BY <1>8, <2>1, <2>2, <2>3, <2>4 DEF OrderInv
<1>9. CASE RunWithoutConfig
  BY <1>8, <1>9 DEF RunWithoutConfig, Due, Severities
<1>10. CASE RejectConfig
  BY <1>8, <1>10 DEF RejectConfig, Due, Severities, Returns
<1>11. CASE RunWithConfig
  <2>1. fresh = <<>> /\ results \o fresh = results
    BY <1>1, <1>11 DEF RunWithConfig, Due, OrderInv
  <2>. QED BY <1>1, <1>11, <2>1 DEF RunWithConfig, Due, OrderInv
<1>12. CASE CallFunc BY <1>1, <1>12 DEF CallFunc, Due, OrderInv
<1>13. CASE Write
  <2>1. InOrder(incoming, all) BY <1>1, InOrderFront
  <2>2. InOrder(Encoded, all) BY <2>1 DEF Encoded, OrderInv
  <2>. QED BY <1>13, <2>2 DEF Write, OrderInv
<1>14. ASSUME NEW severity \in Severities, RunnerAddsResult(severity)
       PROVE  OrderInv'
  <2>1. /\ phase = "runner" /\ phase' = "runner" /\ UNCHANGED <<results, output, incoming>>
        /\ fresh' = Append(fresh, By(severity))
        /\ logged' = Append(logged, By(severity))
    BY <1>14 DEF RunnerAddsResult
  <2>2. results \o fresh \in Seq(Result) BY <1>1, ConcatProperties
  <2>3. InOrder(results' \o fresh', all')
    BY <1>1, <1>2, <1>7, <1>2a, <2>1, <2>2 DEF OrderInv
  <2>4. InOrder(fresh', all')
    BY <1>1, <1>7, <1>2a, <2>1 DEF OrderInv
  <2>5. InOrder(results', all') BY <1>7, <2>1
  <2>. QED BY <1>1, <2>1, <2>3, <2>4, <2>5 DEF OrderInv
<1>15. ASSUME NEW severity \in Severities, LogResult(severity)
       PROVE  OrderInv'
  BY <1>8, <1>15 DEF LogResult
<1>16. ASSUME NEW severity \in Severities, ApplyFails(severity)
       PROVE  OrderInv'
  <2>1. /\ phase = "func" /\ phase' = "func" /\ UNCHANGED <<results, output, incoming>>
        /\ fresh' = Append(fresh, By(severity))
        /\ logged' = Append(logged, By(severity))
    BY <1>16 DEF ApplyFails
  <2>2. InOrder(fresh', all')
    BY <1>1, <1>7, <1>2a, <2>1 DEF OrderInv
  <2>3. InOrder(results', all') BY <1>7, <2>1
  <2>. QED BY <1>1, <2>1, <2>2, <2>3 DEF OrderInv
<1>17. ASSUME NEW passed \in BOOLEAN, RunnerReturns(passed)
       PROVE  OrderInv'
  <2>1. /\ InOrder(results', all') /\ fresh' = <<>>
        /\ ~output'.written /\ phase' \in {"process", "encode"}
    BY <1>1, <1>17 DEF RunnerReturns, Returns, OrderInv
  <2>2. InOrder(fresh', all') BY <2>1, InOrderNothing
  <2>. QED BY <2>1, <2>2 DEF OrderInv
<1>18. ASSUME NEW passed \in BOOLEAN, NEW err \in BOOLEAN,
              FuncReturns(passed, err)
       PROVE  OrderInv'
  <2>1. phase' \in {"process", "encode"} BY <1>18 DEF FuncReturns, Returns
  <2>. QED BY <1>1, <1>18, <2>1 DEF FuncReturns, OrderInv
<1>19. CASE ApplyReturns
  <2>1. InOrder(<<>>, all) BY InOrderNothing
  <2>. QED BY <1>1, <1>19, <2>1 DEF ApplyReturns, OrderInv
<1>20. CASE UNCHANGED vars BY <1>20 DEF vars, OrderInv
<1>. QED
  BY <1>3, <1>4, <1>5, <1>6, <1>9, <1>10, <1>11, <1>12, <1>13, <1>14,
     <1>15, <1>16, <1>17, <1>18, <1>19, <1>20
  DEF Next, Function, Runtime, ReadFails, ProcessPanics, FunctionPanics,
      WriteFails

(***************************************************************************)
(* Once the chain has added results, one of them is in memory: those that  *)
(* ApplyFnBySelector puts in the place of others are results of its own.   *)
(***************************************************************************)
SomeKept ==
  /\ \A w \in DOMAIN fresh : fresh[w] \in Range(logged)
  /\ logged # <<>> => \/ fresh # <<>>
                      \/ \E w \in DOMAIN results : results[w] \in Range(logged)
  /\ output.written /\ logged # <<>> =>
       \E w \in DOMAIN output.results : output.results[w] \in Range(logged)

(* Every step keeps SomeKept. *)
LEMMA StepKept == IInv /\ OrderInv /\ SomeKept /\ [Next]_vars => SomeKept'
<1>. SUFFICES ASSUME IInv, OrderInv, SomeKept, [Next]_vars PROVE SomeKept'
  OBVIOUS
<1>. USE DEF input, resourceList, outcome
<1>. DEFINE Logs(s) == \E w \in DOMAIN s : s[w] \in Range(logged)
<1>1. /\ results \in Seq(Result) /\ fresh \in Seq(Result)
      /\ logged \in Seq(Result)
      /\ phase \notin {"exited", "refused"} => ~output.written
      /\ phase \in {"read", "process", "encode"} => fresh = <<>>
  BY DEF IInv, TypeOK, ChainInv, OrderInv
<1>2. ASSUME NEW severity \in Severities, NEW s \in Seq(Result),
             logged' = Append(logged, By(severity))
      PROVE  /\ Range(logged) \subseteq Range(logged')
             /\ By(severity) \in Range(logged')
             /\ \A w \in DOMAIN Append(s, By(severity)) :
                  \/ Append(s, By(severity))[w] = By(severity)
                  \/ w \in DOMAIN s /\ Append(s, By(severity))[w] = s[w]
             /\ \E w \in DOMAIN Append(s, By(severity)) :
                  Append(s, By(severity))[w] = By(severity)
  <2>. DEFINE e == By(severity)
  <2>1. e \in Result /\ logged \in Seq(Result) /\ logged' = Append(logged, e)
    BY <1>1, <1>2, CurrentResult DEF IInv
  <2>. HIDE DEF e
  <2>2. \A t \in Seq(Result) :
          /\ \A w \in DOMAIN t : w \in DOMAIN Append(t, e) /\ Append(t, e)[w] = t[w]
          /\ Len(t) + 1 \in DOMAIN Append(t, e) /\ Append(t, e)[Len(t) + 1] = e
          /\ \A w \in DOMAIN Append(t, e) :
               \/ Append(t, e)[w] = e
               \/ w \in DOMAIN t /\ Append(t, e)[w] = t[w]
    <3>. TAKE t \in Seq(Result)
    <3>. DEFINE n == Len(t)
                a == Append(t, e)
    <3>1. /\ DOMAIN t = 1..n /\ n \in Nat
          /\ DOMAIN a = 1..n + 1
          /\ a[n + 1] = e
          /\ \A w \in 1..n : a[w] = t[w]
      BY <2>1
    <3>. HIDE DEF n, a
    <3>2. /\ \A w \in 1..n + 1 : w = n + 1 \/ w \in 1..n
          /\ 1..n \subseteq 1..n + 1 /\ n + 1 \in 1..n + 1
      BY <3>1
    <3>3. \A w \in DOMAIN a :
            \/ a[w] = e
            \/ w \in DOMAIN t /\ a[w] = t[w]
      BY <3>1, <3>2
    <3>4. \A w \in DOMAIN t : w \in DOMAIN a /\ a[w] = t[w] BY <3>1, <3>2
    <3>5. n + 1 \in DOMAIN a /\ a[n + 1] = e BY <3>1, <3>2
    <3>. QED BY <3>3, <3>4, <3>5 DEF n, a
  <2>3. Range(logged) \subseteq Range(logged') /\ e \in Range(logged')
    BY <2>1, <2>2 DEF Range
  <2>. QED BY <2>2, <2>3 DEF e
<1>3. ASSUME UNCHANGED <<results, fresh, logged, output>> PROVE SomeKept'
  BY <1>3 DEF SomeKept
<1>4. CASE Parse BY <1>1, <1>4 DEF Parse, SomeKept, OrderInv
<1>5. CASE Refuse BY <1>3, <1>5 DEF Refuse
<1>6. ASSUME Abort PROVE SomeKept' BY <1>3, <1>6 DEF Abort
<1>7. CASE ChainReturns BY <1>3, <1>7 DEF ChainReturns
<1>8. ASSUME NEW severity \in Severities, ~output'.written,
             logged' = Append(logged, By(severity)),
             \/ results' = Append(results, By(severity)) /\ fresh' = fresh
             \/ fresh' = Append(fresh, By(severity))
      PROVE  SomeKept'
  <2>0. /\ Range(logged) \subseteq Range(logged')
        /\ By(severity) \in Range(logged')
    BY <1>1, <1>2, <1>8
  <2>1. \A w \in DOMAIN fresh' : fresh'[w] \in Range(logged')
    <3>1. CASE fresh' = fresh BY <2>0, <3>1 DEF SomeKept
    <3>2. CASE fresh' = Append(fresh, By(severity))
      <4>. TAKE w \in DOMAIN fresh'
      <4>1. \/ fresh'[w] = By(severity)
            \/ w \in DOMAIN fresh /\ fresh'[w] = fresh[w]
        BY <1>1, <1>2, <1>8, <3>2
      <4>. QED BY <2>0, <4>1 DEF SomeKept
    <3>. QED BY <1>8, <3>1, <3>2
  <2>2. \/ fresh' # <<>>
        \/ \E w \in DOMAIN results' : results'[w] \in Range(logged')
    <3>1. CASE results' = Append(results, By(severity))
      <4>1. PICK w \in DOMAIN results' : results'[w] = By(severity)
        BY <1>1, <1>2, <1>8, <3>1
      <4>. QED BY <2>0, <4>1
    <3>2. CASE fresh' = Append(fresh, By(severity)) BY <1>1, <3>2
    <3>. QED BY <1>8, <3>1, <3>2
  <2>. QED BY <1>8, <2>1, <2>2 DEF SomeKept
<1>9. CASE RunWithoutConfig
  BY <1>1, <1>8, <1>9 DEF RunWithoutConfig, Due, Severities
<1>10. CASE RejectConfig
  BY <1>1, <1>8, <1>10 DEF RejectConfig, Due, Severities
<1>11. CASE RunWithConfig BY <1>3, <1>11 DEF RunWithConfig
<1>12. CASE CallFunc BY <1>3, <1>12 DEF CallFunc
<1>13. CASE Write
  <2>1. logged # <<>> => Logs(results) BY <1>1, <1>13 DEF Write, SomeKept
  <2>2. logged # <<>> => Encoded = results BY <2>1 DEF Encoded
  <2>. QED BY <1>13, <2>1, <2>2 DEF Write, SomeKept
<1>14. ASSUME NEW severity \in Severities,
              \/ RunnerAddsResult(severity) \/ LogResult(severity)
              \/ ApplyFails(severity)
       PROVE  SomeKept'
  BY <1>1, <1>8, <1>14 DEF RunnerAddsResult, LogResult, ApplyFails
<1>15. ASSUME NEW passed \in BOOLEAN, RunnerReturns(passed) PROVE SomeKept'
  <2>1. /\ results' = results \o fresh /\ fresh' = <<>>
        /\ logged' = logged /\ ~output'.written
    BY <1>1, <1>15 DEF RunnerReturns
  <2>2. logged # <<>> => Logs(results) \/ Logs(fresh)
    <3>1. fresh # <<>> => 1 \in DOMAIN fresh BY <1>1
    <3>. QED BY <3>1 DEF SomeKept
  <2>3. /\ DOMAIN results = 1..Len(results) /\ DOMAIN fresh = 1..Len(fresh)
        /\ DOMAIN results' = 1..Len(results) + Len(fresh)
        /\ Len(results) \in Nat /\ Len(fresh) \in Nat
        /\ \A w \in DOMAIN results : results'[w] = results[w]
        /\ \A w \in DOMAIN fresh : results'[Len(results) + w] = fresh[w]
    BY <1>1, <2>1, ConcatProperties
  <2>4. Logs(results) => Logs(results')
    <3>1. \A w \in DOMAIN results : w \in DOMAIN results' BY <2>3
    <3>. QED BY <2>3, <3>1
  <2>5. Logs(fresh) => Logs(results')
    <3>1. \A w \in DOMAIN fresh : Len(results) + w \in DOMAIN results' BY <2>3
    <3>. QED BY <2>3, <3>1
  <2>. QED BY <2>1, <2>2, <2>4, <2>5 DEF SomeKept
<1>16. ASSUME NEW passed \in BOOLEAN, NEW err \in BOOLEAN,
              FuncReturns(passed, err)
       PROVE  SomeKept'
  BY <1>3, <1>16 DEF FuncReturns
<1>17. CASE ApplyReturns
  <2>1. 1 \in DOMAIN fresh BY <1>1, <1>17 DEF ApplyReturns
  <2>. QED BY <1>1, <1>17, <2>1 DEF ApplyReturns, SomeKept
<1>18. CASE UNCHANGED vars BY <1>3, <1>18 DEF vars
<1>. QED
  BY <1>4, <1>5, <1>6, <1>7, <1>9, <1>10, <1>11, <1>12, <1>13, <1>14,
     <1>15, <1>16, <1>17, <1>18
  DEF Next, Function, Runtime, ReadFails, ProcessPanics, FunctionPanics,
      WriteFails

(***************************************************************************)
(* Whatever the chain, the entry point and ApplyFnBySelector: the results  *)
(* that are written are in the order they were added, none is written      *)
(* twice, and never are all that the chain added lost.                     *)
(***************************************************************************)
THEOREM AlwaysInOrder == Spec => []ResultsInOrder
<1>1. Init => OrderInv /\ SomeKept
  <2>. SUFFICES ASSUME Init PROVE OrderInv /\ SomeKept OBVIOUS
  <2>1. InOrder(<<>>, incoming \o logged) BY InOrderNothing
  <2>2. DOMAIN <<>> = {} OBVIOUS
  <2>. QED BY <2>1, <2>2 DEF Init, OrderInv, SomeKept
<1>2. OrderInv /\ SomeKept => ResultsInOrder
  BY DEF OrderInv, SomeKept, ResultsInOrder
<1>. QED BY <1>1, <1>2, StepOrder, StepKept, ChainInvariant, PTL DEF Spec
=============================================================================
