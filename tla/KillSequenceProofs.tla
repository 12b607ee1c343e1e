------------------------- MODULE KillSequenceProofs -------------------------
(***************************************************************************)
(* Theorems about the database kill switch, for every number of calls,     *)
(* databases, snapshots and every action list.                             *)
(***************************************************************************)
EXTENDS KillSequence, TLAPS

(* Every action list is a finite sequence of action names. *)
LEMMA ListLength ==
    ASSUME actions \in ActionLists \cup {<<>>}
    PROVE  actions \in Seq(ActionNames) /\ Len(actions) \in Nat
  <1>1. CASE actions \in ActionLists  BY <1>1, ConstantsOK
  <1>2. CASE actions = <<>>           BY <1>2
  <1>3. QED  BY <1>1, <1>2

(* A state of the current list is a state of some list. *)
LEMMA StateIsAny ==
    ASSUME NEW acts \in ActionLists \cup {<<>>}, NEW s \in StateOf(acts)
    PROVE  s \in AnyState
  BY DEF AnyState

(* A sequence that has just been created is well typed. *)
LEMMA BlankType ==
    ASSUME NEW acts \in ActionLists \cup {<<>>},
           NEW status \in Live \cup Terminal \cup NoDocument
    PROVE  Blank(acts, status) \in StateOf(acts)
  <1>1. Len(acts) \in Nat
    <2>1. CASE acts \in ActionLists  BY <2>1, ConstantsOK
    <2>2. CASE acts = <<>>           BY <2>2
    <2>3. QED  BY <2>1, <2>2
  <1>2. QED  BY <1>1 DEF Blank, StateOf, StepStatus

(* Finishing or failing the current step keeps a state well typed. *)
LEMMA StepType ==
    ASSUME DocTypeOK, NEW s \in HeldOf(actions), s.currentStep + 1 <= Len(actions)
    PROVE  /\ Succeeded(s) \in HeldOf(actions)
           /\ Failed(s) \in HeldOf(actions)
  <1>1. Len(actions) \in Nat  BY ListLength DEF DocTypeOK
  <1>2. s.currentStep \in 0..Len(actions) /\ s.currentStep + 1 \in 1..Len(actions)
    BY <1>1 DEF StateOf, HeldOf
  <1>3. Succeeded(s) \in HeldOf(actions)
    <2> DEFINE steps == [s.stepStatus EXCEPT ![s.currentStep + 1] = "completed"]
               end   == IF s.currentStep + 1 >= Len(actions) THEN "completed" ELSE s.status
    <2>1. steps \in [1..Len(actions) -> StepStatus]
      BY DEF StateOf, HeldOf, StepStatus
    <2>2. end \in (Live \cup Terminal \cup NoDocument) /\ end \notin NoDocument
      BY DEF StateOf, HeldOf, Terminal, NoDocument
    <2>3. s.currentStep + 1 \in 0..Len(actions)
      BY <1>1, <1>2
    <2>4. Succeeded(s) = [s EXCEPT !.stepStatus = steps,
                                   !.currentStep = s.currentStep + 1, !.status = end]
      BY DEF Succeeded, StateOf, HeldOf
    <2> HIDE DEF steps, end
    <2>5. QED  BY <2>1, <2>2, <2>3, <2>4 DEF StateOf, HeldOf
  <1>4. Failed(s) \in HeldOf(actions)
    BY <1>1, <1>2 DEF Failed, StateOf, HeldOf, StepStatus, Terminal, NoDocument
  <1>5. QED  BY <1>3, <1>4

(* A call that has decided what to write keeps everything well typed. *)
LEMMA DecideType ==
    ASSUME TypeOK, NEW c \in Callers, NEW s \in HeldOf(actions), Decide(c, s),
           doc.status # "absent"
    PROVE  DocTypeOK' /\ CallTypeOK'
  <1>1. DocTypeOK'
    BY DEF TypeOK, DocTypeOK, Decide, docVars
  <1>2. s \in AnyState
    BY StateIsAny DEF TypeOK, DocTypeOK, HeldOf
  <1>3. CallTypeOK'
    BY <1>2 DEF TypeOK, CallTypeOK, Decide, docVars, Holding, PcValues
  <1>4. QED  BY <1>1, <1>3

LEMMA AnyTargetOK == AnyTarget \in Targets
  BY ConstantsOK DEF AnyTarget

(* A call that returns leaves well typed defaults behind. *)
LEMMA ReturnType ==
    ASSUME TypeOK, NEW c \in Callers, Return(c), actions' = actions,
           doc'.status # "absent" \/ doc' = doc
    PROVE  CallTypeOK'
  <1>1. Blank(<<>>, "absent") \in AnyState
    <2>1. Blank(<<>>, "absent") \in StateOf(<<>>)
      BY BlankType DEF NoDocument
    <2>2. QED  BY <2>1, StateIsAny
  <1>2. QED
    BY <1>1, AnyTargetOK DEF TypeOK, CallTypeOK, Return, Holding, PcValues

LEMMA InitTypeOK == Init => TypeOK
  <1> SUFFICES ASSUME Init PROVE TypeOK  OBVIOUS
  <1>1. Blank(<<>>, "absent") \in StateOf(<<>>)
    BY BlankType DEF NoDocument
  <1>2. Blank(<<>>, "absent") \in AnyState
    BY <1>1, StateIsAny
  <1>3. DocTypeOK
    BY <1>1 DEF Init, DocTypeOK
  <1>4. CallTypeOK
    BY <1>2, AnyTargetOK DEF Init, CallTypeOK, PcValues, Holding
  <1>5. ExternalTypeOK
    BY AnyTargetOK DEF Init, ExternalTypeOK, BackupStates
  <1>6. QED  BY <1>3, <1>4, <1>5 DEF TypeOK

(* The steps of a claimed call keep everything well typed. *)
LEMMA ExecuteTypeOK ==
    ASSUME TypeOK, NEW c \in Callers, Execute(c)
    PROVE  TypeOK'
  <1> USE DEF TypeOK
  <1>0. pc[c] = "claimed"
    BY DEF Execute, NothingLeft, SafetyBlock, AwaitApproval, SnapshotStep,
           VerifyStep, IsolateStep, NukeStep, UnsupportedStep, AtStep
  <1>1. seq[c] \in HeldOf(actions) /\ doc.status # "absent"
    BY <1>0 DEF CallTypeOK, Holding
  <1>2. ASSUME HasStep(c)
        PROVE  Succeeded(seq[c]) \in HeldOf(actions) /\ Failed(seq[c]) \in HeldOf(actions)
    BY <1>1, <1>2, StepType DEF HasStep, Index
  <1>3. CASE NothingLeft(c)
    <2>1. [seq[c] EXCEPT !.status = "completed"] \in HeldOf(actions)
      BY <1>1 DEF StateOf, HeldOf, Terminal, NoDocument
    <2>2. QED
      BY <1>3, <2>1, DecideType, <1>1 DEF NothingLeft, externalVars, ExternalTypeOK
  <1>4. CASE SafetyBlock(c)
    BY <1>2, <1>4, DecideType, <1>1 DEF SafetyBlock, AtStep, externalVars, ExternalTypeOK
  <1>5. CASE AwaitApproval(c)
    <2>1. [seq[c] EXCEPT !.status = "awaiting-confirmation"] \in HeldOf(actions)
      BY <1>1 DEF StateOf, HeldOf, Live, NoDocument
    <2>2. QED
      BY <1>5, <2>1, DecideType, <1>1 DEF AwaitApproval, externalVars, ExternalTypeOK
  <1>6. CASE SnapshotStep(c)
    <2>1. HasStep(c)  BY <1>6 DEF SnapshotStep, AtStep
    <2>2. \A s \in SnapIds : [Succeeded(seq[c]) EXCEPT !.snapshotId = s] \in HeldOf(actions)
      BY <1>2, <2>1 DEF StateOf, HeldOf
    <2>3. DocTypeOK' /\ CallTypeOK'
      BY <1>2, <1>6, <2>1, <2>2, DecideType, <1>1 DEF SnapshotStep
    <2>4. ExternalTypeOK'
      BY <1>6 DEF SnapshotStep, ExternalTypeOK, BackupStates, CallTypeOK
    <2>5. QED  BY <2>3, <2>4
  <1>7. CASE VerifyStep(c)
    <2>1. HasStep(c)  BY <1>7 DEF VerifyStep, AtStep
    <2>2. [Succeeded(seq[c]) EXCEPT !.snapshotVerified = TRUE] \in HeldOf(actions)
      BY <1>2, <2>1 DEF StateOf, HeldOf
    <2>3. QED
      BY <1>2, <1>7, <2>1, <2>2, DecideType, <1>1 DEF VerifyStep, externalVars, ExternalTypeOK
  <1>8. CASE IsolateStep(c)
    <2>1. HasStep(c)  BY <1>8 DEF IsolateStep, AtStep
    <2>2. DocTypeOK' /\ CallTypeOK'
      BY <1>2, <1>8, <2>1, DecideType, <1>1 DEF IsolateStep
    <2>3. ExternalTypeOK'
      BY <1>8 DEF IsolateStep, ExternalTypeOK, CallTypeOK
    <2>4. QED  BY <2>2, <2>3
  <1>9. CASE NukeStep(c)
    <2>1. HasStep(c)  BY <1>9 DEF NukeStep, AtStep
    <2>2. DocTypeOK' /\ CallTypeOK'
      BY <1>2, <1>9, <2>1, DecideType, <1>1 DEF NukeStep
    <2>3. [target |-> target[c], snapshot |-> seq[c].snapshotId,
           approved |-> humanApproval[c]] \in Nukes
      BY <1>1 DEF CallTypeOK, StateOf, HeldOf, Nukes
    <2>4. ExternalTypeOK'
      BY <1>9, <2>3 DEF NukeStep, ExternalTypeOK
    <2>5. QED  BY <2>2, <2>4
  <1>10. CASE UnsupportedStep(c)
    BY <1>2, <1>10, DecideType, <1>1 DEF UnsupportedStep, AtStep, externalVars, ExternalTypeOK
  <1>11. QED
    BY <1>3, <1>4, <1>5, <1>6, <1>7, <1>8, <1>9, <1>10 DEF Execute

(* Every step of the specification keeps everything well typed. *)
LEMMA NextTypeOK == TypeOK /\ [Next]_vars => TypeOK'
  <1> SUFFICES ASSUME TypeOK, [Next]_vars PROVE TypeOK'  OBVIOUS
  <1> USE DEF TypeOK
  <1>1. ASSUME NEW acts \in ActionLists, Initiate(acts)
        PROVE  TypeOK'
    <2>1. Blank(acts, "running") \in StateOf(acts)
      BY BlankType DEF Live
    <2>2. DocTypeOK'
      BY <1>1, <2>1 DEF Initiate, DocTypeOK, lockVars
    <2>3. \A c \in Callers : pc[c] \notin {"claimed", "releasing"}
      BY <1>1 DEF Initiate, CallTypeOK, Holding
    <2>4. CallTypeOK'
      BY <1>1, <2>3 DEF Initiate, CallTypeOK, callVars, Holding
    <2>5. QED
      BY <1>1, <2>2, <2>4 DEF Initiate, ExternalTypeOK, externalVars
  <1>2. ASSUME NEW c \in Callers, Read(c)
        PROVE  TypeOK'
    <2>1. doc.currentStep \in Nat
      <3>1. Len(actions) \in Nat  BY ListLength DEF DocTypeOK
      <3>2. QED  BY <3>1 DEF DocTypeOK, StateOf
    <2>2. CallTypeOK'
      BY <1>2, <2>1 DEF Read, CallTypeOK, DocTypeOK, PcValues, Holding, docVars
    <2>3. QED
      BY <1>2, <2>2 DEF Read, DocTypeOK, ExternalTypeOK, docVars, externalVars
  <1>3. ASSUME NEW c \in Callers, Claim(c)
        PROVE  TypeOK'
    <2>1. doc \in AnyState
      BY StateIsAny DEF DocTypeOK
    <2>2. DocTypeOK'
      BY <1>3 DEF Claim, DocTypeOK, CallTypeOK
    <2>3. doc \in HeldOf(actions) /\ doc.status # "absent"
      BY <1>3 DEF Claim, ClaimFilter, DocTypeOK, HeldOf, Live, NoDocument
    <2>4. CallTypeOK'
      BY <1>3, <2>1, <2>3 DEF Claim, CallTypeOK, DocTypeOK, PcValues, Holding
    <2>5. QED
      BY <1>3, <2>2, <2>4 DEF Claim, ExternalTypeOK, externalVars
  <1>4. ASSUME NEW c \in Callers, Refused(c)
        PROVE  TypeOK'
    BY <1>4, ReturnType DEF Refused, docVars, externalVars, DocTypeOK, ExternalTypeOK
  <1>5. ASSUME NEW c \in Callers, Execute(c)
        PROVE  TypeOK'
    BY <1>5, ExecuteTypeOK
  <1>6. ASSUME NEW c \in Callers, Release(c)
        PROVE  TypeOK'
    <2>1. seq[c] \in HeldOf(actions) /\ doc.status # "absent"
      BY <1>6 DEF Release, CallTypeOK, Holding
    <2>2. [seq[c] EXCEPT !.snapshotId = IF @ = NoSnapshot THEN doc.snapshotId ELSE @]
            \in HeldOf(actions)
      BY <2>1 DEF DocTypeOK, StateOf, HeldOf
    <2>3. DocTypeOK'
      BY <1>6, <2>2 DEF Release, DocTypeOK, docVars, HeldOf
    <2>4. CallTypeOK'
      BY <1>6, <2>2, ReturnType DEF Release, docVars, HeldOf, NoDocument
    <2>5. QED
      BY <1>6, <2>3, <2>4 DEF Release, ExternalTypeOK, externalVars
  <1>7. ASSUME NEW c \in Callers, Crash(c)
        PROVE  TypeOK'
    BY <1>7, ReturnType DEF Crash, docVars, externalVars, DocTypeOK, ExternalTypeOK
  <1>8. CASE Abort
    BY <1>8 DEF Abort, DocTypeOK, StateOf, Terminal, CallTypeOK, ExternalTypeOK,
                callVars, externalVars, Holding
  <1>9. CASE Expire
    BY <1>9 DEF Expire, DocTypeOK, StateOf, NoDocument, CallTypeOK, ExternalTypeOK,
                lockVars, callVars, externalVars, Holding
  <1>10. ASSUME NEW s \in SnapIds, BackupEnds(s)
         PROVE  TypeOK'
    BY <1>10 DEF BackupEnds, DocTypeOK, CallTypeOK, ExternalTypeOK, BackupStates,
                 docVars, callVars, Holding
  <1>11. CASE Tick
    BY <1>11 DEF Tick, DocTypeOK, CallTypeOK, ExternalTypeOK,
                 docVars, callVars, externalVars, Holding
  <1>12. CASE UNCHANGED vars
    BY <1>12 DEF vars, DocTypeOK, CallTypeOK, ExternalTypeOK,
                 docVars, callVars, externalVars, Holding
  <1>13. QED
    BY <1>1, <1>2, <1>3, <1>4, <1>5, <1>6, <1>7, <1>8, <1>9, <1>10, <1>11, <1>12
       DEF Next

(* Type correctness of the kill switch. *)
THEOREM TypeCorrect == Spec => []TypeOK
  BY InitTypeOK, NextTypeOK, PTL DEF Spec

----------------------------------------------------------------------------
(* Nukes and snapshots *)

(* A backup that has completed stays completed. *)
LEMMA CompletedStays ==
    ASSUME TypeOK, [Next]_vars, NEW s \in SnapIds, backup[s] = "completed"
    PROVE  backup'[s] = "completed"
  <1> USE DEF TypeOK, ExternalTypeOK
  <1>1. ASSUME NEW c \in Callers, Execute(c)
        PROVE  backup'[s] = "completed"
    <2>1. CASE SnapshotStep(c)
      BY <2>1 DEF SnapshotStep
    <2>2. CASE ~SnapshotStep(c)
      BY <1>1, <2>2 DEF Execute, NothingLeft, SafetyBlock, AwaitApproval, VerifyStep,
                        IsolateStep, NukeStep, UnsupportedStep, externalVars
    <2>3. QED  BY <2>1, <2>2
  <1>2. ASSUME NEW t \in SnapIds, BackupEnds(t)
        PROVE  backup'[s] = "completed"
    BY <1>2 DEF BackupEnds
  <1>3. CASE ~(\E c \in Callers : Execute(c)) /\ ~(\E t \in SnapIds : BackupEnds(t))
    BY <1>3 DEF Next, Initiate, Read, Claim, Refused, Release, Crash, Abort, Expire,
                Tick, externalVars, vars
  <1>4. QED  BY <1>1, <1>2, <1>3

(* What a claimed call decides to write is vetted, and so is its nuke. *)
LEMMA ExecuteVetted ==
    ASSUME VerifiesLast, RealProviders, TypeOK, SnapshotInv,
           NEW c \in Callers, Execute(c)
    PROVE  Vetted(seq[c])' /\ NukedWithVerifiedSnapshot'
  <1>0. /\ pc[c] = "claimed"
        /\ actions' = actions
    BY DEF Execute, NothingLeft, SafetyBlock, AwaitApproval, SnapshotStep,
           VerifyStep, IsolateStep, NukeStep, UnsupportedStep, AtStep, Decide, docVars
  <1>1. /\ seq \in [Callers -> AnyState]
        /\ seq[c] \in StateOf(actions)
        /\ Vetted(seq[c])
    BY <1>0 DEF TypeOK, CallTypeOK, Holding, SnapshotInv, HeldOf
  <1>2. Vetted(seq[c])'
      <=> (seq'[c].snapshotVerified =>
            /\ seq'[c].snapshotId \in SnapIds /\ backup'[seq'[c].snapshotId] = "completed"
            /\ \A i \in 1..Len(actions) : actions[i] = "snapshot" => i <= seq'[c].currentStep)
    BY <1>0 DEF Vetted
  <1>3. [Next]_vars
    BY DEF Next
  <1>4. Len(actions) \in Nat /\ seq[c].currentStep \in Nat
    <2>1. Len(actions) \in Nat  BY ListLength DEF TypeOK, DocTypeOK
    <2>2. QED  BY <1>1, <2>1 DEF StateOf
  <1>5. Provider[target[c]] # "redis"
    BY DEF RealProviders, OnlyAcknowledges, TypeOK, CallTypeOK
  (* A decision that keeps the snapshot fields and does not go back. *)
  <1>6. ASSUME NEW s, Decide(c, s),
               s.snapshotVerified = seq[c].snapshotVerified,
               s.snapshotId = seq[c].snapshotId,
               s.currentStep \in Nat, s.currentStep >= seq[c].currentStep
        PROVE  Vetted(seq[c])'
    <2>1. seq'[c] = s
      BY <1>1, <1>6 DEF Decide
    <2>2. QED
      BY <1>0, <1>1, <1>3, <1>4, <1>6, <2>1, CompletedStays DEF Vetted
  <1>7. /\ Failed(seq[c]).snapshotVerified = seq[c].snapshotVerified
        /\ Failed(seq[c]).snapshotId = seq[c].snapshotId
        /\ Failed(seq[c]).currentStep = seq[c].currentStep
        /\ Succeeded(seq[c]).snapshotVerified = seq[c].snapshotVerified
        /\ Succeeded(seq[c]).snapshotId = seq[c].snapshotId
        /\ Succeeded(seq[c]).currentStep = seq[c].currentStep + 1
    BY <1>1 DEF Failed, Succeeded, StateOf
  <1>8. (Decide(c, Failed(seq[c])) \/ Decide(c, Succeeded(seq[c]))) => Vetted(seq[c])'
    BY <1>4, <1>6, <1>7
  <1>9. nukes' = nukes => NukedWithVerifiedSnapshot'
    BY <1>3, CompletedStays DEF SnapshotInv, NukedWithVerifiedSnapshot
  <1>10. CASE NothingLeft(c)
    <2>1. Vetted(seq[c])'
      BY <1>1, <1>4, <1>6, <1>10 DEF NothingLeft, StateOf
    <2>2. QED  BY <1>9, <1>10, <2>1 DEF NothingLeft, externalVars
  <1>11. CASE SafetyBlock(c)
    BY <1>8, <1>9, <1>11 DEF SafetyBlock, externalVars
  <1>12. CASE AwaitApproval(c)
    <2>1. Vetted(seq[c])'
      <3> DEFINE s == [seq[c] EXCEPT !.status = "awaiting-confirmation"]
      <3>1. Decide(c, s)
        BY <1>12 DEF AwaitApproval
      <3>2. /\ s.snapshotVerified = seq[c].snapshotVerified
            /\ s.snapshotId = seq[c].snapshotId
            /\ s.currentStep = seq[c].currentStep
        BY <1>1 DEF StateOf
      <3> HIDE DEF s
      <3>3. QED  BY <1>4, <1>6, <3>1, <3>2
    <2>2. QED  BY <1>9, <1>12, <2>1 DEF AwaitApproval, externalVars
  <1>13. CASE SnapshotStep(c)
    <2>1. ~seq[c].snapshotVerified
      <3>1. /\ seq[c].currentStep + 1 \in 1..Len(actions)
            /\ actions[seq[c].currentStep + 1] = "snapshot"
        BY <1>4, <1>13 DEF SnapshotStep, AtStep, HasStep, Index
      <3>2. QED  BY <1>1, <1>4, <3>1 DEF Vetted
    <2>2. ASSUME NEW s \in SnapIds, Decide(c, [Succeeded(seq[c]) EXCEPT !.snapshotId = s])
          PROVE  Vetted(seq[c])'
      <3>1. seq'[c].snapshotVerified = seq[c].snapshotVerified
        BY <1>1, <1>7, <2>2 DEF Decide, Succeeded, StateOf
      <3>2. QED  BY <2>1, <3>1, <1>1 DEF Vetted, StateOf
    <2>3. Vetted(seq[c])'
      BY <1>8, <1>13, <2>2 DEF SnapshotStep
    <2>4. QED  BY <1>9, <1>13, <2>3 DEF SnapshotStep
  <1>14. CASE VerifyStep(c)
    <2>1. ASSUME Verifies(c),
                 Decide(c, [Succeeded(seq[c]) EXCEPT !.snapshotVerified = TRUE])
          PROVE  Vetted(seq[c])'
      <3>1. /\ seq'[c].snapshotId = seq[c].snapshotId
            /\ seq'[c].currentStep = seq[c].currentStep + 1
        BY <1>1, <1>7, <2>1 DEF Decide, Succeeded, StateOf
      <3>2. seq[c].snapshotId \in SnapIds /\ backup[seq[c].snapshotId] = "completed"
        BY <1>5, <2>1 DEF Verifies, OnlyAcknowledges
      <3>3. /\ seq[c].currentStep + 1 \in 1..Len(actions)
            /\ actions[seq[c].currentStep + 1] = "verify-snapshot"
        BY <1>4, <1>14 DEF VerifyStep, AtStep, HasStep, Index
      <3>4. actions \in ActionLists
        BY <3>3 DEF TypeOK, DocTypeOK
      <3>5. \A i \in 1..Len(actions) :
                actions[i] = "snapshot" => i < seq[c].currentStep + 1
        BY <3>3, <3>4 DEF VerifiesLast
      <3>6. \A i \in 1..Len(actions) :
                actions[i] = "snapshot" => i <= seq[c].currentStep + 1
        BY <1>4, <3>5
      <3>7. backup'[seq[c].snapshotId] = "completed"
        BY <1>3, <3>2, CompletedStays
      <3>8. QED  BY <1>0, <3>1, <3>2, <3>6, <3>7 DEF Vetted
    <2>2. Vetted(seq[c])'
      BY <1>8, <1>14, <2>1 DEF VerifyStep
    <2>3. QED  BY <1>9, <1>14, <2>2 DEF VerifyStep, externalVars
  <1>15. CASE IsolateStep(c)
    BY <1>8, <1>9, <1>15 DEF IsolateStep
  <1>16. CASE NukeStep(c)
    <2>1. Vetted(seq[c])'
      BY <1>8, <1>16 DEF NukeStep
    <2>2. /\ seq[c].snapshotVerified /\ humanApproval[c]
          /\ backup' = backup
      BY <1>16 DEF NukeStep
    <2>3. seq[c].snapshotId \in SnapIds /\ backup[seq[c].snapshotId] = "completed"
      BY <1>1, <2>2 DEF Vetted
    <2>4. \/ nukes' = nukes
          \/ nukes' = nukes \cup {[target   |-> target[c],
                                   snapshot |-> seq[c].snapshotId,
                                   approved |-> humanApproval[c]]}
      BY <1>16 DEF NukeStep
    <2>5. NukedWithVerifiedSnapshot'
      BY <2>2, <2>3, <2>4 DEF SnapshotInv, NukedWithVerifiedSnapshot
    <2>6. QED  BY <2>1, <2>5
  <1>17. CASE UnsupportedStep(c)
    BY <1>8, <1>9, <1>17 DEF UnsupportedStep, externalVars
  <1>18. QED
    BY <1>10, <1>11, <1>12, <1>13, <1>14, <1>15, <1>16, <1>17 DEF Execute

LEMMA NextSnapshotInv ==
    ASSUME VerifiesLast, RealProviders, TypeOK, TypeOK', SnapshotInv, [Next]_vars
    PROVE  SnapshotInv'
  <1> DEFINE Same == /\ actions' = actions /\ doc' = doc /\ nukes' = nukes
  <1>1. ASSUME actions' = actions, doc'.snapshotVerified => doc.snapshotVerified,
               doc'.snapshotId = doc.snapshotId, doc'.currentStep = doc.currentStep
        PROVE  Vetted(doc)'
    BY <1>1, CompletedStays DEF SnapshotInv, Vetted
  <1>2. ASSUME actions' = actions, NEW c \in Callers, Holding(c), seq'[c] = seq[c]
        PROVE  Vetted(seq[c])'
    BY <1>2, CompletedStays DEF SnapshotInv, Vetted
  <1>3. nukes' = nukes => NukedWithVerifiedSnapshot'
    BY CompletedStays DEF SnapshotInv, NukedWithVerifiedSnapshot
  (* A step that changes no copy and no call. *)
  <1>4. ASSUME actions' = actions, pc' = pc, seq' = seq
        PROVE  \A c \in Callers : Holding(c)' => Vetted(seq[c])'
    BY <1>2, <1>4 DEF Holding
  (* A call that ends. *)
  <1>5. ASSUME actions' = actions, NEW c \in Callers, Return(c)
        PROVE  \A d \in Callers : Holding(d)' => Vetted(seq[d])'
    <2>1. pc' = [pc EXCEPT ![c] = "idle"] /\ \A d \in Callers : d # c => seq'[d] = seq[d]
      BY <1>5 DEF Return, TypeOK, CallTypeOK
    <2>2. QED  BY <1>2, <1>5, <2>1 DEF Holding, TypeOK, CallTypeOK
  <1>6. ASSUME NEW acts \in ActionLists, Initiate(acts)
        PROVE  SnapshotInv'
    <2>1. \A c \in Callers : ~Holding(c)'
      BY <1>6 DEF Initiate, TypeOK, CallTypeOK, callVars, Holding
    <2>2. ~doc'.snapshotVerified /\ nukes' = nukes
      BY <1>6 DEF Initiate, Blank, externalVars
    <2>3. QED  BY <1>3, <2>1, <2>2 DEF SnapshotInv, Vetted
  <1>7. ASSUME NEW c \in Callers, Read(c)
        PROVE  SnapshotInv'
    <2>1. /\ actions' = actions /\ doc' = doc /\ nukes' = nukes
          /\ seq' = seq /\ pc' = [pc EXCEPT ![c] = "read"]
      BY <1>7 DEF Read, docVars, externalVars
    <2>2. \A d \in Callers : Holding(d)' => Vetted(seq[d])'
      BY <1>2, <2>1 DEF Holding, TypeOK, CallTypeOK
    <2>3. QED  BY <1>1, <1>3, <2>1, <2>2 DEF SnapshotInv
  <1>8. ASSUME NEW c \in Callers, Claim(c)
        PROVE  SnapshotInv'
    <2>1. /\ actions' = actions /\ doc' = doc /\ nukes' = nukes
          /\ seq' = [seq EXCEPT ![c] = doc] /\ pc' = [pc EXCEPT ![c] = "claimed"]
      BY <1>8 DEF Claim, externalVars
    <2>2. Vetted(doc)'
      BY <1>1, <2>1
    <2>3. seq'[c] = doc'
      BY <2>1 DEF TypeOK, CallTypeOK
    <2>4. Vetted(seq[c])'
      BY <2>2, <2>3 DEF Vetted
    <2>5. \A d \in Callers : Holding(d)' => Vetted(seq[d])'
      BY <1>2, <2>1, <2>4 DEF Holding, TypeOK, CallTypeOK
    <2>6. QED  BY <1>3, <2>1, <2>2, <2>5 DEF SnapshotInv
  <1>9. ASSUME NEW c \in Callers, Execute(c)
        PROVE  SnapshotInv'
    <2>1. PICK s : Decide(c, s)
      BY <1>9 DEF Execute, NothingLeft, SafetyBlock, AwaitApproval, SnapshotStep,
             VerifyStep, IsolateStep, NukeStep, UnsupportedStep
    <2>2. /\ actions' = actions /\ doc' = doc
          /\ pc' = [pc EXCEPT ![c] = "releasing"]
          /\ \A d \in Callers : d # c => seq'[d] = seq[d]
      BY <2>1 DEF Decide, docVars, TypeOK, CallTypeOK
    <2>3. Vetted(seq[c])' /\ NukedWithVerifiedSnapshot'
      BY <1>9, ExecuteVetted
    <2>4. \A d \in Callers : Holding(d)' => Vetted(seq[d])'
      BY <1>2, <2>2, <2>3 DEF Holding, TypeOK, CallTypeOK
    <2>5. QED  BY <1>1, <2>2, <2>3, <2>4 DEF SnapshotInv
  <1>10. ASSUME NEW c \in Callers, Release(c)
         PROVE  SnapshotInv'
    <2>1. actions' = actions /\ nukes' = nukes /\ Return(c)
      BY <1>10 DEF Release, docVars, externalVars
    <2>2. Vetted(doc)'
      <3>1. CASE doc.status \in NoDocument
        BY <1>1, <1>10, <3>1 DEF Release, docVars
      <3>2. CASE doc.status \notin NoDocument
        <4>1. Vetted(seq[c]) /\ seq[c] \in StateOf(actions)
          BY <1>10 DEF Release, SnapshotInv, Holding, TypeOK, CallTypeOK, HeldOf
        <4>2. doc' = [seq[c] EXCEPT !.snapshotId =
                            IF seq[c].snapshotId = NoSnapshot THEN doc.snapshotId
                            ELSE seq[c].snapshotId]
          BY <1>10, <3>2 DEF Release
        <4>3. /\ doc'.snapshotVerified = seq[c].snapshotVerified
              /\ doc'.currentStep = seq[c].currentStep
              /\ seq[c].snapshotId \in SnapIds => doc'.snapshotId = seq[c].snapshotId
          BY <4>1, <4>2, ConstantsOK DEF StateOf
        <4>4. QED  BY <2>1, <4>1, <4>3, CompletedStays DEF Vetted
      <3>3. QED  BY <3>1, <3>2
    <2>3. QED  BY <1>3, <1>5, <2>1, <2>2 DEF SnapshotInv
  <1>11. ASSUME NEW c \in Callers, Refused(c) \/ Crash(c)
         PROVE  SnapshotInv'
    <2>1. Same /\ Return(c)
      BY <1>11 DEF Refused, Crash, docVars, externalVars
    <2>2. QED  BY <1>1, <1>3, <1>5, <2>1 DEF SnapshotInv
  <1>12. CASE Abort \/ Expire
    <2>1. /\ actions' = actions /\ pc' = pc /\ seq' = seq /\ nukes' = nukes
      BY <1>12 DEF Abort, Expire, callVars, externalVars
    <2>2. /\ doc'.snapshotVerified = doc.snapshotVerified
          /\ doc'.snapshotId = doc.snapshotId /\ doc'.currentStep = doc.currentStep
      BY <1>12 DEF Abort, Expire, TypeOK, DocTypeOK, StateOf
    <2>3. Vetted(doc)'
      BY <1>1, <2>1, <2>2
    <2>4. QED  BY <1>3, <1>4, <2>1, <2>3 DEF SnapshotInv
  <1>13. CASE (\E s \in SnapIds : BackupEnds(s)) \/ Tick \/ UNCHANGED vars
    <2>1. Same /\ pc' = pc /\ seq' = seq
      BY <1>13 DEF BackupEnds, Tick, vars, docVars, callVars, externalVars
    <2>2. QED  BY <1>1, <1>3, <1>4, <2>1 DEF SnapshotInv
  <1>14. QED
    BY <1>6, <1>7, <1>8, <1>9, <1>10, <1>11, <1>12, <1>13 DEF Next

(* For every number of concurrent calls, every interleaving of them with
   aborts, crashes, take-overs of the lock and the TTL, and every action list
   that takes no snapshot after verifying one, a nuke that reaches a database
   had a human's approval and a completed backup recorded. *)
THEOREM NukeIsSafe ==
    VerifiesLast /\ RealProviders => (Spec => []NukedWithVerifiedSnapshot)
  <1> SUFFICES ASSUME VerifiesLast, RealProviders
               PROVE  Spec => []NukedWithVerifiedSnapshot
    OBVIOUS
  <1>1. Init => SnapshotInv
    BY DEF Init, SnapshotInv, Vetted, Blank, Holding, NukedWithVerifiedSnapshot
  <1>2. TypeOK /\ TypeOK' /\ SnapshotInv /\ [Next]_vars => SnapshotInv'
    BY NextSnapshotInv
  <1>3. SnapshotInv => NukedWithVerifiedSnapshot
    BY DEF SnapshotInv
  <1>4. QED  BY <1>1, <1>2, <1>3, TypeCorrect, PTL DEF Spec

----------------------------------------------------------------------------
(* The lock, when calls end in time and aborts come between steps *)

(* What a claimed call decides is an outcome of the state it copied. *)
LEMMA ExecuteOutcome ==
    ASSUME TypeOK, NEW c \in Callers, Execute(c)
    PROVE  Outcome(seq[c], seq'[c])
  <1>0. pc[c] = "claimed"
    BY DEF Execute, NothingLeft, SafetyBlock, AwaitApproval, SnapshotStep,
           VerifyStep, IsolateStep, NukeStep, UnsupportedStep, AtStep
  <1>1. seq \in [Callers -> AnyState] /\ seq[c] \in StateOf(actions)
    BY <1>0 DEF TypeOK, CallTypeOK, Holding, HeldOf
  <1>2. ASSUME NEW s, Decide(c, s)
        PROVE  seq'[c] = s
    BY <1>1, <1>2 DEF Decide
  <1>3. Len(actions) \in Nat /\ seq[c].currentStep \in 0..Len(actions)
    <2>1. Len(actions) \in Nat  BY ListLength DEF TypeOK, DocTypeOK
    <2>2. QED  BY <1>1, <2>1 DEF StateOf
  <1>4. ASSUME HasStep(c)
        PROVE  seq[c].currentStep < Len(actions)
    BY <1>3, <1>4 DEF HasStep, Index
  <1>5. /\ Failed(seq[c]).status = "failed"
        /\ Failed(seq[c]).snapshotVerified = seq[c].snapshotVerified
        /\ Failed(seq[c]).currentStep = seq[c].currentStep
        /\ Succeeded(seq[c]).snapshotVerified = seq[c].snapshotVerified
        /\ Succeeded(seq[c]).currentStep = seq[c].currentStep + 1
        /\ Succeeded(seq[c]).status =
             IF seq[c].currentStep + 1 >= Len(actions) THEN "completed" ELSE seq[c].status
    BY <1>1 DEF Failed, Succeeded, StateOf
  <1>6. ASSUME HasStep(c), Decide(c, Failed(seq[c]))
        PROVE  Outcome(seq[c], seq'[c])
    BY <1>2, <1>4, <1>5, <1>6 DEF Outcome
  (* A step that succeeds, perhaps recording or verifying a snapshot. *)
  <1>7. ASSUME NEW s, HasStep(c), Decide(c, s),
               s.currentStep = Succeeded(seq[c]).currentStep,
               s.status = Succeeded(seq[c]).status,
               actions[seq[c].currentStep + 1] = "nuke" => seq[c].snapshotVerified,
               s.snapshotVerified = IF actions[seq[c].currentStep + 1] = "verify-snapshot"
                                    THEN TRUE ELSE seq[c].snapshotVerified
        PROVE  Outcome(seq[c], seq'[c])
    <2>1. seq'[c] = s  BY <1>2, <1>7
    <2>2. seq[c].currentStep + 1 >= Len(actions) <=> seq[c].currentStep + 1 = Len(actions)
      BY <1>3, <1>4, <1>7
    <2>3. s.status = IF seq[c].currentStep + 1 = Len(actions)
                     THEN "completed" ELSE seq[c].status
      BY <1>5, <1>7, <2>2
    <2>4. QED  BY <1>4, <1>5, <1>7, <2>1, <2>3 DEF Outcome
  <1>8. CASE NothingLeft(c)
    <2>1. seq[c].currentStep = Len(actions)
      BY <1>3, <1>8 DEF NothingLeft, HasStep, Index
    <2>2. QED  BY <1>2, <1>8, <2>1 DEF NothingLeft, Outcome
  <1>9. CASE SafetyBlock(c)
    BY <1>6, <1>9 DEF SafetyBlock, AtStep
  <1>10. CASE AwaitApproval(c)
    <2>1. HasStep(c) /\ actions[seq[c].currentStep + 1] = "nuke" /\ seq[c].snapshotVerified
      BY <1>10 DEF AwaitApproval, AtStep, Index
    <2>2. QED  BY <1>2, <1>4, <1>10, <2>1 DEF AwaitApproval, Outcome
  <1>11. CASE SnapshotStep(c)
    <2>1. HasStep(c) /\ actions[seq[c].currentStep + 1] = "snapshot"
      BY <1>11 DEF SnapshotStep, AtStep, Index
    <2>2. ASSUME NEW s \in SnapIds, Decide(c, [Succeeded(seq[c]) EXCEPT !.snapshotId = s])
          PROVE  Outcome(seq[c], seq'[c])
      <3>1. /\ [Succeeded(seq[c]) EXCEPT !.snapshotId = s].currentStep = Succeeded(seq[c]).currentStep
            /\ [Succeeded(seq[c]) EXCEPT !.snapshotId = s].status = Succeeded(seq[c]).status
            /\ [Succeeded(seq[c]) EXCEPT !.snapshotId = s].snapshotVerified = seq[c].snapshotVerified
        BY <1>1, <1>5 DEF Succeeded, StateOf
      <3>2. QED  BY <1>7, <2>1, <2>2, <3>1
    <2>3. QED  BY <1>6, <1>11, <2>1, <2>2 DEF SnapshotStep
  <1>12. CASE VerifyStep(c)
    <2>1. HasStep(c) /\ actions[seq[c].currentStep + 1] = "verify-snapshot"
      BY <1>12 DEF VerifyStep, AtStep, Index
    <2>2. ASSUME Decide(c, [Succeeded(seq[c]) EXCEPT !.snapshotVerified = TRUE])
          PROVE  Outcome(seq[c], seq'[c])
      <3>1. /\ [Succeeded(seq[c]) EXCEPT !.snapshotVerified = TRUE].currentStep = Succeeded(seq[c]).currentStep
            /\ [Succeeded(seq[c]) EXCEPT !.snapshotVerified = TRUE].status = Succeeded(seq[c]).status
            /\ [Succeeded(seq[c]) EXCEPT !.snapshotVerified = TRUE].snapshotVerified = TRUE
        BY <1>1 DEF Succeeded, StateOf
      <3>2. QED  BY <1>7, <2>1, <2>2, <3>1
    <2>3. QED  BY <1>6, <1>12, <2>1, <2>2 DEF VerifyStep
  <1>13. CASE IsolateStep(c)
    <2>1. HasStep(c) /\ actions[seq[c].currentStep + 1] = "isolate"
      BY <1>13 DEF IsolateStep, AtStep, Index
    <2>2. QED  BY <1>5, <1>6, <1>7, <1>13, <2>1 DEF IsolateStep
  <1>14. CASE NukeStep(c)
    <2>1. HasStep(c) /\ actions[seq[c].currentStep + 1] = "nuke" /\ seq[c].snapshotVerified
      BY <1>14 DEF NukeStep, AtStep, Index
    <2>2. QED  BY <1>5, <1>6, <1>7, <1>14, <2>1 DEF NukeStep
  <1>15. CASE UnsupportedStep(c)
    BY <1>6, <1>15 DEF UnsupportedStep, AtStep
  <1>16. QED
    BY <1>8, <1>9, <1>10, <1>11, <1>12, <1>13, <1>14, <1>15 DEF Execute

(* An abort between two steps is final, for any timing of the other calls. *)
THEOREM AbortStands == Spec => QuietAbortIsFinal
  <1>1. ASSUME TypeOK, Stopped, [Next]_vars
        PROVE  Stopped'
    <2> USE DEF Stopped, Holding
    <2>1. doc.status \notin Live \cup {"absent"}
      BY <1>1 DEF Live
    <2>2. ASSUME NEW c \in Callers
          PROVE  ~Read(c) /\ ~Claim(c) /\ ~Execute(c) /\ ~Release(c)
      BY <1>1, <2>1 DEF Read, Claim, ClaimFilter, Execute, NothingLeft, SafetyBlock,
             AwaitApproval, SnapshotStep, VerifyStep, IsolateStep, NukeStep,
             UnsupportedStep, AtStep, Release
    <2>3. ASSUME NEW c \in Callers, Refused(c) \/ Crash(c)
          PROVE  Stopped'
      BY <1>1, <2>3 DEF Refused, Crash, Return, docVars, TypeOK, CallTypeOK
    <2>4. CASE Abort \/ Expire
      BY <1>1, <2>4 DEF Abort, Expire, callVars, TypeOK, DocTypeOK, StateOf
    <2>5. CASE Tick \/ (\E s \in SnapIds : BackupEnds(s)) \/ UNCHANGED vars
      BY <1>1, <2>5 DEF Tick, BackupEnds, vars, docVars, callVars
    <2>6. QED
      BY <1>1, <2>1, <2>2, <2>3, <2>4, <2>5 DEF Next, Initiate
  <1>2. Stopped => doc.status \in {"aborted", "gone"}
    BY DEF Stopped
  <1>3. QED  BY <1>1, <1>2, TypeCorrect, PTL DEF Spec, QuietAbortIsFinal

----------------------------------------------------------------------------

LEMMA NextLockInv ==
    ASSUME Timely, TypeOK, TypeOK', LockInv, [Next]_vars
    PROVE  LockInv'
  <1> USE DEF LockInv
  <1>1. ASSUME NEW acts \in ActionLists, Initiate(acts)
        PROVE  LockInv'
    <2>1. \A c \in Callers : ~Holding(c)'
      BY <1>1 DEF Initiate, TypeOK, CallTypeOK, callVars, Holding
    <2>2. finishedAt' = Never
      BY <1>1 DEF Initiate, Terminal
    <2>3. \A c \in Callers : pc'[c] # "idle" => InTime(c)'
      BY <1>1 DEF Initiate, callVars, InTime
    <2>4. QED  BY <2>1, <2>2, <2>3 DEF NoConcurrentExecution
  <1>2. ASSUME NEW c \in Callers, Read(c)
        PROVE  LockInv'
    <2>1. /\ pc' = [pc EXCEPT ![c] = "read"] /\ asOf' = [asOf EXCEPT ![c] = now]
          /\ now' = now /\ seq' = seq /\ doc' = doc /\ executing' = executing
          /\ actions' = actions
          /\ stepStartedAt' = stepStartedAt /\ finishedAt' = finishedAt
      BY <1>2 DEF Read, docVars
    <2>2. \A d \in Callers : pc'[d] # "idle" => InTime(d)'
      BY <2>1, ConstantsOK DEF InTime, TypeOK, DocTypeOK, CallTypeOK
    <2>3. \A d \in Callers : Holding(d)' => Holding(d) /\ d # c
      BY <2>1 DEF Holding, TypeOK, CallTypeOK
    <2>4. \A d \in Callers : Holding(d)' => Owns(d)'
      BY <2>1, <2>3 DEF Owns, Outcome, TypeOK, CallTypeOK
    <2>5. QED  BY <2>1, <2>2, <2>3, <2>4 DEF NoConcurrentExecution
  <1>3. ASSUME NEW c \in Callers, Claim(c)
        PROVE  LockInv'
    <2>1. /\ pc' = [pc EXCEPT ![c] = "claimed"] /\ asOf' = asOf
          /\ now' = now /\ seq' = [seq EXCEPT ![c] = doc] /\ doc' = doc
          /\ executing' = TRUE /\ stepStartedAt' = asOf[c] /\ finishedAt' = finishedAt
          /\ doc.status \in Live /\ pc[c] = "read"
      BY <1>3 DEF Claim, ClaimFilter
    <2>2. ASSUME NEW d \in Callers, Holding(d)
          PROVE  FALSE
      <3>1. executing /\ stepStartedAt = asOf[d] /\ InTime(d) /\ InTime(c)
        BY <2>1, <2>2 DEF Holding, Owns, TypeOK, CallTypeOK, PcValues
      <3>2. asOf[d] < asOf[c] - StaleStep
        BY <1>3, <3>1 DEF Claim, ClaimFilter
      <3>3. QED
        BY <3>1, <3>2, ConstantsOK DEF InTime, TypeOK, DocTypeOK, CallTypeOK
    <2>3. \A d \in Callers : Holding(d)' => d = c
      BY <2>1, <2>2 DEF Holding, TypeOK, CallTypeOK
    <2>4. Owns(c)'
      BY <2>1 DEF Owns, TypeOK, CallTypeOK
    <2>5. \A d \in Callers : pc'[d] # "idle" => InTime(d)'
      BY <2>1 DEF InTime, TypeOK, CallTypeOK
    <2>6. QED  BY <2>1, <2>3, <2>4, <2>5 DEF NoConcurrentExecution
  <1>4. ASSUME NEW c \in Callers, Execute(c)
        PROVE  LockInv'
    <2>1. PICK s : Decide(c, s)
      BY <1>4 DEF Execute, NothingLeft, SafetyBlock, AwaitApproval, SnapshotStep,
             VerifyStep, IsolateStep, NukeStep, UnsupportedStep
    <2>2. /\ pc' = [pc EXCEPT ![c] = "releasing"] /\ asOf' = asOf /\ now' = now
          /\ actions' = actions /\ doc' = doc /\ executing' = executing
          /\ stepStartedAt' = stepStartedAt /\ finishedAt' = finishedAt
      BY <2>1 DEF Decide, docVars
    <2>3. pc[c] = "claimed"
      BY <1>4 DEF Execute, NothingLeft, SafetyBlock, AwaitApproval, SnapshotStep,
             VerifyStep, IsolateStep, NukeStep, UnsupportedStep, AtStep
    <2>4. Owns(c) /\ Holding(c) /\ seq[c] = doc
      BY <2>3 DEF Holding, Owns
    <2>5. \A d \in Callers : Holding(d)' => d = c
      BY <2>2, <2>4 DEF NoConcurrentExecution, Holding, TypeOK, CallTypeOK
    <2>6. Outcome(doc, seq'[c])
      BY <1>4, <2>4, ExecuteOutcome
    <2>7. Outcome(doc, seq[c])'
      BY <2>2, <2>6 DEF Outcome
    <2>8. Owns(c)'
      BY <2>2, <2>4, <2>7 DEF Owns, TypeOK, CallTypeOK
    <2>9. \A d \in Callers : pc'[d] # "idle" => InTime(d)'
      BY <2>2, <2>3 DEF InTime, TypeOK, CallTypeOK
    <2>10. QED  BY <2>2, <2>5, <2>8, <2>9 DEF NoConcurrentExecution
  (* A call that ends while it does not hold the lock, or crashes with it. *)
  <1>5. ASSUME NEW c \in Callers, Return(c), actions' = actions, doc' = doc, now' = now,
               executing' = executing, stepStartedAt' = stepStartedAt,
               finishedAt' = finishedAt
        PROVE  LockInv'
    <2>1. /\ pc' = [pc EXCEPT ![c] = "idle"]
          /\ \A d \in Callers : d # c => asOf'[d] = asOf[d] /\ seq'[d] = seq[d]
      BY <1>5 DEF Return, TypeOK, CallTypeOK
    <2>2. \A d \in Callers : pc'[d] # "idle" => d # c /\ pc'[d] = pc[d]
      BY <2>1 DEF TypeOK, CallTypeOK
    <2>3. \A d \in Callers : pc'[d] # "idle" => InTime(d)'
      BY <1>5, <2>1, <2>2 DEF InTime
    <2>4. \A d \in Callers : Holding(d)' => Holding(d) /\ d # c
      BY <2>2 DEF Holding
    <2>5. ASSUME NEW d \in Callers, Holding(d)'
          PROVE  Owns(d)'
      <3>1. /\ Owns(d) /\ pc'[d] = pc[d] /\ asOf'[d] = asOf[d] /\ seq'[d] = seq[d]
        BY <2>1, <2>2, <2>4, <2>5 DEF Holding
      <3>2. QED  BY <1>5, <3>1 DEF Owns, Outcome
    <2>6. QED  BY <1>5, <2>3, <2>4, <2>5 DEF NoConcurrentExecution
  <1>6. ASSUME NEW c \in Callers, Refused(c) \/ Crash(c)
        PROVE  LockInv'
    BY <1>5, <1>6 DEF Refused, Crash, docVars
  <1>7. ASSUME NEW c \in Callers, Release(c)
        PROVE  LockInv'
    <2>1. Holding(c) /\ Owns(c) /\ Return(c) /\ now' = now
      BY <1>7 DEF Release, Holding
    <2>2. doc.status \notin NoDocument
      BY <2>1 DEF Owns, Live, NoDocument
    <2>3. finishedAt = Never
      BY <2>1 DEF Owns, Live, Terminal
    <2>4. doc'.status = seq[c].status
      <3>1. seq[c] \in StateOf(actions)
        BY <2>1 DEF TypeOK, CallTypeOK, HeldOf
      <3>2. QED  BY <1>7, <2>2, <3>1 DEF Release, StateOf
    <2>5. finishedAt' # Never => doc'.status \in Terminal
      BY <1>7, <2>2, <2>3, <2>4 DEF Release
    <2>6. /\ pc' = [pc EXCEPT ![c] = "idle"]
          /\ \A d \in Callers : d # c => asOf'[d] = asOf[d]
      BY <2>1 DEF Return, TypeOK, CallTypeOK
    <2>7. \A d \in Callers : ~Holding(d)'
      BY <2>1, <2>6 DEF NoConcurrentExecution, Holding, TypeOK, CallTypeOK
    <2>8. \A d \in Callers : pc'[d] # "idle" => InTime(d)'
      BY <2>1, <2>6 DEF InTime, TypeOK, CallTypeOK
    <2>9. QED  BY <2>5, <2>7, <2>8 DEF NoConcurrentExecution
  <1>8. CASE Abort
    <2>1. \A c \in Callers : ~Holding(c)'
      BY <1>8 DEF Abort, Timely, callVars, Holding
    <2>2. doc'.status = "aborted"
      BY <1>8 DEF Abort, TypeOK, DocTypeOK, StateOf
    <2>3. \A c \in Callers : pc'[c] # "idle" => InTime(c)'
      BY <1>8 DEF Abort, callVars, InTime
    <2>4. QED  BY <2>1, <2>2, <2>3 DEF NoConcurrentExecution, Terminal
  <1>9. CASE Expire
    <2>1. doc.status \notin Live
      BY <1>9 DEF Expire, Live, Terminal
    <2>2. \A c \in Callers : ~Holding(c)'
      BY <1>9, <2>1 DEF Expire, callVars, Holding, Owns
    <2>3. doc'.status = "gone"
      BY <1>9 DEF Expire, TypeOK, DocTypeOK, StateOf
    <2>4. \A c \in Callers : pc'[c] # "idle" => InTime(c)'
      BY <1>9 DEF Expire, callVars, InTime
    <2>5. QED  BY <2>2, <2>3, <2>4 DEF NoConcurrentExecution
  <1>10. CASE (\E s \in SnapIds : BackupEnds(s)) \/ UNCHANGED vars
    <2>1. UNCHANGED <<docVars, now, callVars>>
      BY <1>10 DEF BackupEnds, vars
    <2>2. QED
      BY <2>1 DEF docVars, callVars, InTime, Holding, Owns, Outcome, NoConcurrentExecution
  <1>11. CASE Tick
    <2>1. /\ UNCHANGED <<docVars, callVars>> /\ now' = now + 1
          /\ \A c \in Callers : pc[c] # "idle" => now < asOf[c] + StaleStep
      BY <1>11 DEF Tick, Timely
    <2>2. \A c \in Callers : pc'[c] # "idle" => InTime(c)'
      BY <2>1, ConstantsOK DEF docVars, callVars, InTime, TypeOK, DocTypeOK, CallTypeOK
    <2>3. QED
      BY <2>1, <2>2 DEF docVars, callVars, Holding, Owns, Outcome, NoConcurrentExecution
  <1>12. QED
    BY <1>1, <1>2, <1>3, <1>4, <1>6, <1>7, <1>8, <1>9, <1>10, <1>11 DEF Next

LEMMA InitLockInv == Init => LockInv
  BY DEF Init, LockInv, Holding, NoConcurrentExecution, Blank

(* When every call ends within STALE_STEP_MS of reading the clock and aborts
   come between steps, the claim admits one executor at a time. *)
THEOREM LockExcludes == Timely => (Spec => []NoConcurrentExecution)
  <1> SUFFICES ASSUME Timely PROVE Spec => []NoConcurrentExecution
    OBVIOUS
  <1>1. TypeOK /\ TypeOK' /\ LockInv /\ [Next]_vars => LockInv'
    BY NextLockInv
  <1>2. LockInv => NoConcurrentExecution
    BY DEF LockInv
  <1>3. QED  BY <1>1, <1>2, InitLockInv, TypeCorrect, PTL DEF Spec

----------------------------------------------------------------------------
(* Refinement *)

(* A released outcome is a step of the protocol. *)
LEMMA OutcomeIsProtocolStep ==
    ASSUME TypeOK, doc.status \in Live, NEW s \in StateOf(actions), Outcome(doc, s),
           actions' = actions, nukes' = nukes,
           doc'.status = s.status, doc'.currentStep = s.currentStep,
           doc'.snapshotVerified = s.snapshotVerified
    PROVE  Protocol!Next
  <1> USE DEF Live, Protocol!Live
  <1>0. /\ Len(actions) \in Nat /\ doc.currentStep \in 0..Len(actions)
        /\ s.currentStep \in 0..Len(actions)
    <2>1. Len(actions) \in Nat  BY ListLength DEF TypeOK, DocTypeOK
    <2>2. QED  BY <2>1 DEF TypeOK, DocTypeOK, StateOf
  <1>1. CASE doc.currentStep = Len(actions) /\ s = [doc EXCEPT !.status = "completed"]
    <2>1. /\ s.status = "completed" /\ s.currentStep = doc.currentStep
          /\ s.snapshotVerified = doc.snapshotVerified
      BY <1>1 DEF TypeOK, DocTypeOK, StateOf
    <2>2. QED  BY <1>1, <2>1 DEF Protocol!Next, Protocol!Finish
  <1>2. CASE /\ doc.currentStep < Len(actions)
             /\ s.status = "failed"
             /\ s.currentStep = doc.currentStep /\ s.snapshotVerified = doc.snapshotVerified
    BY <1>2 DEF Protocol!Next, Protocol!Fail, Protocol!Ready
  <1>3. CASE /\ doc.currentStep < Len(actions)
             /\ actions[doc.currentStep + 1] = "nuke" /\ doc.snapshotVerified
             /\ s = [doc EXCEPT !.status = "awaiting-confirmation"]
    <2>1. /\ s.status = "awaiting-confirmation" /\ s.currentStep = doc.currentStep
          /\ s.snapshotVerified = doc.snapshotVerified
      BY <1>3 DEF TypeOK, DocTypeOK, StateOf
    <2>2. QED
      BY <1>3, <2>1 DEF Protocol!Next, Protocol!AskHuman, Protocol!Armed, Protocol!Ready
  <1>4. CASE /\ doc.currentStep < Len(actions)
             /\ actions[doc.currentStep + 1] = "nuke" => doc.snapshotVerified
             /\ s.currentStep = doc.currentStep + 1
             /\ s.snapshotVerified = IF actions[doc.currentStep + 1] = "verify-snapshot"
                                     THEN TRUE ELSE doc.snapshotVerified
             /\ s.status = IF doc.currentStep + 1 = Len(actions)
                           THEN "completed" ELSE doc.status
    BY <1>4 DEF Protocol!Next, Protocol!DoStep, Protocol!Ready
  <1>5. QED  BY <1>1, <1>2, <1>3, <1>4 DEF Outcome

(* The document is created once, and no later write brings it back to the
   state before POST /kill. *)
LEMMA NextFreshInv ==
    ASSUME TypeOK, FreshInv, [Next]_vars
    PROVE  FreshInv'
  <1>1. ASSUME NEW acts \in ActionLists, Initiate(acts)
        PROVE  doc'.status # "absent"
    BY <1>1 DEF Initiate, Blank
  <1>2. ASSUME NEW c \in Callers, Release(c), doc' # doc
        PROVE  doc'.status # "absent"
    <2>1. doc' = [seq[c] EXCEPT !.snapshotId =
                        IF @ = NoSnapshot THEN doc.snapshotId ELSE @]
      BY <1>2 DEF Release, docVars
    <2>2. seq[c] \in HeldOf(actions)
      BY <1>2 DEF Release, Holding, TypeOK, CallTypeOK
    <2>3. QED  BY <2>1, <2>2 DEF HeldOf, StateOf, NoDocument
  <1>3. CASE Abort \/ Expire
    BY <1>3 DEF Abort, Expire, TypeOK, DocTypeOK, StateOf, FreshInv
  <1>4. CASE doc' = doc
    BY <1>4 DEF FreshInv
  <1>5. ASSUME NEW c \in Callers, Execute(c)
        PROVE  doc' = doc
    BY <1>5 DEF Execute, NothingLeft, SafetyBlock, AwaitApproval, SnapshotStep,
           VerifyStep, IsolateStep, NukeStep, UnsupportedStep, Decide, docVars
  <1>6. ASSUME NEW c \in Callers, Read(c) \/ Claim(c) \/ Refused(c) \/ Crash(c)
        PROVE  doc' = doc
    BY <1>6 DEF Read, Claim, Refused, Crash, docVars
  <1>7. CASE Tick \/ (\E s \in SnapIds : BackupEnds(s)) \/ UNCHANGED vars
    BY <1>7, <1>4 DEF Tick, BackupEnds, vars, docVars
  <1>8. QED
    BY <1>1, <1>2, <1>3, <1>4, <1>5, <1>6, <1>7 DEF Next, FreshInv

LEMMA NextIsProtocolStep ==
    ASSUME Timely, TypeOK, LockInv, FreshInv, [Next]_vars
    PROVE  [Protocol!Next]_Protocol!vars
  <1> USE DEF Protocol!vars
  <1>1. ASSUME NEW acts \in ActionLists, Initiate(acts)
        PROVE  [Protocol!Next]_Protocol!vars
    <2>1. Protocol!Create \/ UNCHANGED Protocol!vars
      <3>1. /\ doc.status = "absent" /\ actions' = acts /\ nukes' = nukes
            /\ doc'.status = "running" /\ doc'.currentStep = 0
            /\ doc'.snapshotVerified = FALSE
        BY <1>1 DEF Initiate, Blank, externalVars
      <3>2. doc.currentStep = 0 /\ doc.snapshotVerified = FALSE
        BY <3>1 DEF FreshInv
      <3>3. QED  BY <3>1, <3>2 DEF Protocol!Create
    <2>2. QED  BY <2>1 DEF Protocol!Next
  <1>2. ASSUME NEW c \in Callers, Read(c) \/ Claim(c) \/ Refused(c) \/ Crash(c)
        PROVE  [Protocol!Next]_Protocol!vars
    BY <1>2 DEF Read, Claim, Refused, Crash, docVars, externalVars
  <1>3. ASSUME NEW c \in Callers, Execute(c)
        PROVE  [Protocol!Next]_Protocol!vars
    <2>1. pc[c] = "claimed"
      BY <1>3 DEF Execute, NothingLeft, SafetyBlock, AwaitApproval, SnapshotStep,
             VerifyStep, IsolateStep, NukeStep, UnsupportedStep, AtStep
    <2>2. doc.status \in Live /\ seq[c] = doc
      BY <2>1 DEF LockInv, Holding, Owns
    <2>3. actions' = actions /\ doc' = doc
      BY <1>3 DEF Execute, NothingLeft, SafetyBlock, AwaitApproval, SnapshotStep,
             VerifyStep, IsolateStep, NukeStep, UnsupportedStep, Decide, docVars
    <2>4. CASE NukeStep(c)
      <3>1. /\ doc.currentStep + 1 <= Len(actions)
            /\ actions[doc.currentStep + 1] = "nuke" /\ doc.snapshotVerified
        BY <2>2, <2>4 DEF NukeStep, AtStep, HasStep, Index
      <3>2. doc.currentStep < Len(actions)
        <4>1. Len(actions) \in Nat  BY ListLength DEF TypeOK, DocTypeOK
        <4>2. QED  BY <3>1, <4>1 DEF TypeOK, DocTypeOK, StateOf
      <3>3. nukes' = nukes \/ nukes' # {}
        BY <2>4 DEF NukeStep
      <3>4. QED
        BY <2>2, <2>3, <3>1, <3>2, <3>3
           DEF Protocol!Next, Protocol!Strike, Protocol!Armed, Protocol!Ready,
               Protocol!Live, Live
    <2>5. CASE ~NukeStep(c)
      <3>1. nukes' = nukes
        BY <1>3, <2>5 DEF Execute, NothingLeft, SafetyBlock, AwaitApproval, SnapshotStep,
             VerifyStep, IsolateStep, UnsupportedStep, externalVars
      <3>2. QED  BY <2>3, <3>1
    <2>6. QED  BY <2>4, <2>5
  <1>4. ASSUME NEW c \in Callers, Release(c)
        PROVE  [Protocol!Next]_Protocol!vars
    <2>1. Holding(c) /\ Owns(c) /\ pc[c] = "releasing"
      BY <1>4 DEF Release, Holding, LockInv
    <2>2. seq[c] \in StateOf(actions)
      BY <2>1 DEF TypeOK, CallTypeOK, HeldOf
    <2>3. doc.status \in Live /\ doc.status \notin NoDocument /\ Outcome(doc, seq[c])
      BY <2>1 DEF Owns, Live, NoDocument
    <2>4. /\ actions' = actions /\ nukes' = nukes
          /\ doc'.status = seq[c].status /\ doc'.currentStep = seq[c].currentStep
          /\ doc'.snapshotVerified = seq[c].snapshotVerified
      BY <1>4, <2>2, <2>3 DEF Release, StateOf, externalVars
    <2>5. QED  BY <2>2, <2>3, <2>4, OutcomeIsProtocolStep
  <1>5. CASE Abort
    <2>1. /\ doc.status \in Live \cup Terminal
          /\ doc'.status = "aborted" /\ doc'.currentStep = doc.currentStep
          /\ doc'.snapshotVerified = doc.snapshotVerified
          /\ actions' = actions /\ nukes' = nukes
      BY <1>5 DEF Abort, TypeOK, DocTypeOK, StateOf, externalVars
    <2>2. QED
      BY <2>1 DEF Protocol!Next, Protocol!Abort, Protocol!Live, Protocol!Terminal,
                  Live, Terminal
  <1>6. CASE Expire
    <2>1. doc.status \in Terminal
      BY <1>6 DEF Expire, LockInv, NoDocument
    <2>2. /\ doc'.status = "gone" /\ doc'.currentStep = doc.currentStep
          /\ doc'.snapshotVerified = doc.snapshotVerified
          /\ actions' = actions /\ nukes' = nukes
      BY <1>6 DEF Expire, TypeOK, DocTypeOK, StateOf, externalVars
    <2>3. QED
      BY <2>1, <2>2 DEF Protocol!Next, Protocol!Forget, Protocol!Terminal, Terminal
  <1>7. CASE (\E s \in SnapIds : BackupEnds(s)) \/ Tick \/ UNCHANGED vars
    BY <1>7 DEF BackupEnds, Tick, vars, docVars, externalVars
  <1>8. QED
    BY <1>1, <1>2, <1>3, <1>4, <1>5, <1>6, <1>7 DEF Next

(* Under the same conditions the kill switch, with its calls, copies, lock and
   clock, implements the protocol it promises. *)
THEOREM ImplementsTheProtocol == Timely => (Spec => ImplementsProtocol)
  <1> SUFFICES ASSUME Timely PROVE Spec => ImplementsProtocol
    OBVIOUS
  <1>1. Init => Protocol!Init
    BY DEF Init, Blank, Protocol!Init
  <1>2. TypeOK /\ TypeOK' /\ LockInv /\ [Next]_vars => LockInv'
    BY NextLockInv
  <1>3. TypeOK /\ FreshInv /\ [Next]_vars => FreshInv'
    BY NextFreshInv
  <1>4. Init => FreshInv
    BY DEF Init, FreshInv, Blank
  <1>5. TypeOK /\ LockInv /\ FreshInv /\ [Next]_vars => [Protocol!Next]_Protocol!vars
    BY NextIsProtocolStep
  <1>6. QED
    BY <1>1, <1>2, <1>3, <1>4, <1>5, InitLockInv, TypeCorrect, PTL DEF Spec, ImplementsProtocol, Protocol!Spec

----------------------------------------------------------------------------
(* Progress: what the document and the copies say has been done *)

(* Two states agree on what has been done. *)
SameProgress(s, t) ==
    s.stepStatus = t.stepStatus /\ s.currentStep = t.currentStep

(* Where the progress of a state comes from: steps that execute nothing pass
   on what the document or a holder's copy said. *)
LEMMA ProgressPassedOn ==
    ASSUME TypeOK, [Next]_vars,
           ~ \E acts \in ActionLists : Initiate(acts), ~ \E c \in Callers : Execute(c)
    PROVE  /\ actions' = actions /\ isolated' = isolated
           /\ \A c \in Callers : Holding(c)' => \/ Holding(c) /\ seq'[c] = seq[c]
                                                \/ seq'[c] = doc /\ doc.status \in Live
           /\ \/ SameProgress(doc', doc) /\ doc'.status \in {doc.status, "aborted", "gone"}
              \/ \E c \in Callers : /\ Holding(c) /\ SameProgress(doc', seq[c])
                                    /\ doc'.status = seq[c].status
  <1> USE DEF TypeOK, CallTypeOK
  <1>1. ASSUME NEW c \in Callers, Return(c)
        PROVE  \A d \in Callers : Holding(d)' => Holding(d) /\ seq'[d] = seq[d]
    BY <1>1 DEF Return, Holding
  <1>2. ASSUME NEW c \in Callers, Read(c)
        PROVE  /\ actions' = actions /\ isolated' = isolated /\ doc' = doc
               /\ \A d \in Callers : Holding(d)' => Holding(d) /\ seq'[d] = seq[d]
    BY <1>2 DEF Read, Holding, docVars, externalVars
  <1>3. ASSUME NEW c \in Callers, Claim(c)
        PROVE  /\ actions' = actions /\ isolated' = isolated /\ doc' = doc
               /\ \A d \in Callers : Holding(d)' => \/ Holding(d) /\ seq'[d] = seq[d]
                                                    \/ seq'[d] = doc /\ doc.status \in Live
    BY <1>3 DEF Claim, ClaimFilter, Holding, externalVars
  <1>4. ASSUME NEW c \in Callers, Refused(c) \/ Crash(c)
        PROVE  /\ actions' = actions /\ isolated' = isolated /\ doc' = doc /\ Return(c)
    BY <1>4 DEF Refused, Crash, docVars, externalVars
  <1>5. ASSUME NEW c \in Callers, Release(c)
        PROVE  /\ actions' = actions /\ isolated' = isolated /\ Return(c) /\ Holding(c)
               /\ \/ doc' = doc
                  \/ SameProgress(doc', seq[c]) /\ doc'.status = seq[c].status
    <2>1. seq[c] \in HeldOf(actions) /\ Holding(c)
      BY <1>5 DEF Release, Holding
    <2>2. QED
      BY <1>5, <2>1 DEF Release, docVars, externalVars, HeldOf, StateOf, SameProgress
  <1>6. CASE Abort \/ Expire
    BY <1>6 DEF Abort, Expire, callVars, externalVars, Holding, DocTypeOK, StateOf, SameProgress
  <1>7. CASE (\E s \in SnapIds : BackupEnds(s)) \/ Tick \/ UNCHANGED vars
    BY <1>7 DEF BackupEnds, Tick, vars, docVars, callVars, externalVars, Holding, SameProgress
  <1>8. SameProgress(doc, doc)
    BY DEF SameProgress
  <1>9. QED
    <2>1. CASE \E c \in Callers : Read(c)     BY <1>2, <1>8, <2>1
    <2>2. CASE \E c \in Callers : Claim(c)    BY <1>3, <1>8, <2>2
    <2>3. CASE \E c \in Callers : Refused(c) \/ Crash(c)
      BY <1>1, <1>4, <1>8, <2>3
    <2>4. CASE \E c \in Callers : Release(c)  BY <1>1, <1>5, <1>8, <2>4
    <2>5. QED  BY <1>6, <1>7, <2>1, <2>2, <2>3, <2>4 DEF Next

(* What a claimed call makes of its copy, which is all that changes of copies. *)
LEMMA ExecuteProgress ==
    ASSUME TypeOK, NEW c \in Callers, Execute(c)
    PROVE  /\ actions' = actions /\ doc' = doc /\ Holding(c)
           /\ \A d \in Callers \ {c} : Holding(d)' => Holding(d) /\ seq'[d] = seq[d]
           /\ \/ ~HasStep(c) /\ seq'[c] = [seq[c] EXCEPT !.status = "completed"]
              \/ HasStep(c) /\ seq'[c] = Failed(seq[c])
              \/ HasStep(c) /\ seq'[c] = [seq[c] EXCEPT !.status = "awaiting-confirmation"]
              \/ /\ HasStep(c) /\ SameProgress(seq'[c], Succeeded(seq[c]))
                 /\ seq'[c].status = Succeeded(seq[c]).status
  <1>1. PICK s : /\ Decide(c, s)
                 /\ \/ ~HasStep(c) /\ s = [seq[c] EXCEPT !.status = "completed"]
                    \/ HasStep(c) /\ s = Failed(seq[c])
                    \/ HasStep(c) /\ s = [seq[c] EXCEPT !.status = "awaiting-confirmation"]
                    \/ HasStep(c) /\ s = Succeeded(seq[c])
                    \/ HasStep(c) /\ s = [Succeeded(seq[c]) EXCEPT !.snapshotVerified = TRUE]
                    \/ HasStep(c) /\ \E id \in SnapIds : s = [Succeeded(seq[c]) EXCEPT !.snapshotId = id]
    BY DEF Execute, NothingLeft, SafetyBlock, AwaitApproval, SnapshotStep, VerifyStep,
           IsolateStep, NukeStep, UnsupportedStep, AtStep
  <1>2. pc[c] = "claimed" /\ seq[c] \in HeldOf(actions)
    BY DEF Execute, NothingLeft, SafetyBlock, AwaitApproval, SnapshotStep, VerifyStep,
           IsolateStep, NukeStep, UnsupportedStep, AtStep, TypeOK, CallTypeOK, Holding
  <1>3. seq'[c] = s /\ actions' = actions /\ doc' = doc
    BY <1>1 DEF Decide, docVars, TypeOK, CallTypeOK
  <1>4. \A d \in Callers \ {c} : Holding(d)' => Holding(d) /\ seq'[d] = seq[d]
    BY <1>1 DEF Decide, Holding, TypeOK, CallTypeOK
  <1>5. DOMAIN Succeeded(seq[c]) = DOMAIN seq[c]
    BY DEF Succeeded
  <1>6. \A v : SameProgress([Succeeded(seq[c]) EXCEPT !.snapshotVerified = v], Succeeded(seq[c]))
    BY <1>2, <1>5 DEF SameProgress, HeldOf, StateOf
  <1>7. \A id : SameProgress([Succeeded(seq[c]) EXCEPT !.snapshotId = id], Succeeded(seq[c]))
    BY <1>2, <1>5 DEF SameProgress, HeldOf, StateOf
  <1>8. \A x : /\ [Succeeded(seq[c]) EXCEPT !.snapshotVerified = x].status = Succeeded(seq[c]).status
               /\ [Succeeded(seq[c]) EXCEPT !.snapshotId = x].status = Succeeded(seq[c]).status
    BY <1>2, <1>5 DEF HeldOf, StateOf
  <1>9. SameProgress(Succeeded(seq[c]), Succeeded(seq[c])) /\ Holding(c)
    BY <1>2 DEF SameProgress, Holding
  <1>10. \/ ~HasStep(c) /\ s = [seq[c] EXCEPT !.status = "completed"]
         \/ HasStep(c) /\ s = Failed(seq[c])
         \/ HasStep(c) /\ s = [seq[c] EXCEPT !.status = "awaiting-confirmation"]
         \/ HasStep(c) /\ SameProgress(s, Succeeded(seq[c])) /\ s.status = Succeeded(seq[c]).status
    <2>1. CASE HasStep(c) /\ s = Succeeded(seq[c])
      BY <1>9, <2>1
    <2>2. CASE HasStep(c) /\ s = [Succeeded(seq[c]) EXCEPT !.snapshotVerified = TRUE]
      BY <1>6, <1>8, <2>2
    <2>3. CASE HasStep(c) /\ \E id \in SnapIds : s = [Succeeded(seq[c]) EXCEPT !.snapshotId = id]
      <3>1. PICK id \in SnapIds : s = [Succeeded(seq[c]) EXCEPT !.snapshotId = id]
        BY <2>3
      <3>2. QED  BY <1>7, <1>8, <2>3, <3>1
    <2>4. QED  BY <1>1, <2>1, <2>2, <2>3, Zenon
  <1>11. QED
    BY <1>3, <1>4, <1>9, <1>10, Zenon

(* A state in which exactly the steps behind it are completed. *)
Coherent(s) ==
    /\ \A i \in 1..Len(actions) : (s.stepStatus[i] = "completed") <=> (i <= s.currentStep)
    /\ s.status = "completed" => s.currentStep = Len(actions)

(* Inductive: so is every copy that may be written back. *)
ProgressInv == Coherent(doc) /\ \A c \in Callers : Holding(c) => Coherent(seq[c])

(* One step more, or one step failed, keeps a state coherent. *)
LEMMA StepCoherent ==
    ASSUME TypeOK, NEW c \in Callers, Holding(c), Coherent(seq[c])
    PROVE  /\ HasStep(c) => Coherent(Succeeded(seq[c])) /\ Coherent(Failed(seq[c]))
           /\ HasStep(c) => Coherent([seq[c] EXCEPT !.status = "awaiting-confirmation"])
           /\ ~HasStep(c) => Coherent([seq[c] EXCEPT !.status = "completed"])
  <1> DEFINE s == seq[c]
  <1>1. /\ s \in HeldOf(actions) /\ Len(actions) \in Nat
        /\ s.currentStep \in 0..Len(actions) /\ s.stepStatus \in [1..Len(actions) -> StepStatus]
    BY ListLength DEF TypeOK, CallTypeOK, DocTypeOK, HeldOf, StateOf
  <1>2. HasStep(c) <=> s.currentStep + 1 <= Len(actions)
    BY DEF HasStep, Index
  <1>3. ASSUME HasStep(c) PROVE Coherent(Succeeded(s))
    <2>1. /\ Succeeded(s).stepStatus = [s.stepStatus EXCEPT ![s.currentStep + 1] = "completed"]
          /\ Succeeded(s).currentStep = s.currentStep + 1
          /\ Succeeded(s).status = IF s.currentStep + 1 >= Len(actions) THEN "completed" ELSE s.status
      BY <1>1 DEF Succeeded, HeldOf, StateOf
    <2>2. \A i \in 1..Len(actions) :
             (Succeeded(s).stepStatus[i] = "completed") <=> (i <= s.currentStep + 1)
      BY <1>1, <1>2, <1>3, <2>1 DEF Coherent
    <2>3. Succeeded(s).status = "completed" => s.currentStep + 1 = Len(actions)
      BY <1>1, <1>2, <1>3, <2>1 DEF Coherent
    <2>4. QED  BY <2>1, <2>2, <2>3 DEF Coherent
  <1>4. ASSUME HasStep(c) PROVE Coherent(Failed(s))
    <2>1. /\ Failed(s).stepStatus = [s.stepStatus EXCEPT ![s.currentStep + 1] = "failed"]
          /\ Failed(s).currentStep = s.currentStep /\ Failed(s).status = "failed"
      BY <1>1 DEF Failed, HeldOf, StateOf
    <2>2. QED  BY <1>1, <1>2, <1>4, <2>1 DEF Coherent
  <1>5. HasStep(c) => Coherent([s EXCEPT !.status = "awaiting-confirmation"])
    BY <1>1 DEF Coherent, HeldOf, StateOf
  <1>6. ~HasStep(c) => Coherent([s EXCEPT !.status = "completed"])
    BY <1>1, <1>2 DEF Coherent, HeldOf, StateOf
  <1>7. QED  BY <1>3, <1>4, <1>5, <1>6

LEMMA NextProgressInv == TypeOK /\ ProgressInv /\ [Next]_vars => ProgressInv'
  <1> SUFFICES ASSUME TypeOK, ProgressInv, [Next]_vars PROVE ProgressInv'
    OBVIOUS
  <1>1. ASSUME NEW acts \in ActionLists, Initiate(acts)
        PROVE  ProgressInv'
    <2>1. /\ actions' = acts /\ doc' = Blank(acts, "running") /\ Len(acts) \in Nat
      BY <1>1, ConstantsOK DEF Initiate
    <2>2. \A c \in Callers : ~Holding(c)'
      BY <1>1 DEF Initiate, TypeOK, CallTypeOK, callVars, Holding
    <2>3. Coherent(doc)'
      BY <2>1 DEF Coherent, Blank
    <2>4. QED  BY <2>2, <2>3 DEF ProgressInv
  <1>2. ASSUME NEW c \in Callers, Execute(c)
        PROVE  ProgressInv'
    <2>1. actions' = actions /\ doc' = doc /\ Holding(c) /\ Coherent(seq[c])
      BY <1>2, ExecuteProgress DEF ProgressInv
    <2>0. ASSUME NEW s, Coherent(s), seq'[c] = s PROVE Coherent(seq[c])'
      BY <2>0, <2>1 DEF Coherent
    <2>2. Coherent(seq[c])'
      <3>1. CASE \/ ~HasStep(c) /\ seq'[c] = [seq[c] EXCEPT !.status = "completed"]
                 \/ HasStep(c) /\ seq'[c] = Failed(seq[c])
                 \/ HasStep(c) /\ seq'[c] = [seq[c] EXCEPT !.status = "awaiting-confirmation"]
        <4>1. /\ HasStep(c) => Coherent(Failed(seq[c]))
              /\ HasStep(c) => Coherent([seq[c] EXCEPT !.status = "awaiting-confirmation"])
              /\ ~HasStep(c) => Coherent([seq[c] EXCEPT !.status = "completed"])
          BY <2>1, StepCoherent
        <4>2. QED  BY <2>0, <3>1, <4>1, Zenon
      <3>2. CASE /\ HasStep(c) /\ SameProgress(seq'[c], Succeeded(seq[c]))
                 /\ seq'[c].status = Succeeded(seq[c]).status
        BY <2>1, <3>2, StepCoherent DEF Coherent, SameProgress
      <3>3. QED  BY <1>2, <3>1, <3>2, ExecuteProgress
    <2>3. \A d \in Callers \ {c} : Holding(d)' => Coherent(seq[d])'
      <3>1. ASSUME NEW d \in Callers \ {c}, Holding(d)'
            PROVE  Coherent(seq[d]) /\ seq'[d] = seq[d]
        BY <1>2, <3>1, ExecuteProgress, Zenon DEF ProgressInv
      <3>2. QED  BY <2>1, <3>1 DEF Coherent
    <2>4. QED  BY <2>1, <2>2, <2>3 DEF ProgressInv, Coherent
  <1>3. ASSUME ~ \E acts \in ActionLists : Initiate(acts), ~ \E c \in Callers : Execute(c)
        PROVE  ProgressInv'
    <2>1. actions' = actions
      BY <1>3, ProgressPassedOn
    <2>2. \A c \in Callers : Holding(c)' => Coherent(seq[c])'
      BY <1>3, <2>1, ProgressPassedOn DEF ProgressInv, Coherent
    <2>3. CASE SameProgress(doc', doc) /\ doc'.status \in {doc.status, "aborted", "gone"}
      BY <2>1, <2>2, <2>3 DEF ProgressInv, Coherent, SameProgress
    <2>4. ASSUME NEW c \in Callers, Holding(c), SameProgress(doc', seq[c]),
                 doc'.status = seq[c].status
          PROVE  ProgressInv'
      BY <2>1, <2>2, <2>4 DEF ProgressInv, Coherent, SameProgress
    <2>5. QED  BY <1>3, <2>3, <2>4, ProgressPassedOn
  <1>4. QED  BY <1>1, <1>2, <1>3

(* Whatever calls overrun, crash or write back stale copies, the steps the
   document shows as completed are those before currentStep, and a completed
   sequence has completed them all. *)
THEOREM ProgressIsCoherent == Spec => []StepsMatchProgress
  <1>1. Init => ProgressInv
    BY DEF Init, Blank, ProgressInv, Coherent, Holding
  <1>2. ProgressInv => StepsMatchProgress
    BY DEF ProgressInv, Coherent, StepsMatchProgress
  <1>3. QED  BY <1>1, <1>2, NextProgressInv, TypeCorrect, PTL DEF Spec

(* Every database that may be named has a backup that has completed. *)
BackedUp == \A t \in Targets : \E s \in SnapIds : backup[s] = "completed" /\ backupOf[s] = t

(* A state that has a verification behind it. *)
HasVerified(s) == \E i \in 1..Len(actions) : i <= s.currentStep /\ actions[i] = "verify-snapshot"

(* Inductive: who has verified has a backup, and who has not isolates nothing. *)
VerifiedInv ==
    /\ HasVerified(doc) => BackedUp
    /\ \A c \in Callers : Holding(c) /\ HasVerified(seq[c]) => BackedUp
    /\ VerifyFirst(actions, "isolate") /\ isolated # {} => BackedUp
    /\ doc.status = "absent" => isolated = {}

(* A backup that has completed stays the backup of what it was. *)
LEMMA BackedUpStays ==
    ASSUME TypeOK, [Next]_vars, BackedUp
    PROVE  BackedUp'
  <1>1. ASSUME NEW s \in SnapIds, backup[s] = "completed"
        PROVE  backupOf'[s] = backupOf[s]
    <2>1. ASSUME NEW c \in Callers, Execute(c)
          PROVE  backupOf'[s] = backupOf[s]
      <3>1. CASE SnapshotStep(c)
        BY <1>1, <3>1 DEF SnapshotStep, TypeOK, ExternalTypeOK
      <3>2. CASE ~SnapshotStep(c)
        BY <2>1, <3>2 DEF Execute, NothingLeft, SafetyBlock, AwaitApproval, VerifyStep,
                          IsolateStep, NukeStep, UnsupportedStep, externalVars
      <3>3. QED  BY <3>1, <3>2
    <2>2. CASE ~(\E c \in Callers : Execute(c))
      BY <2>2 DEF Next, Initiate, Read, Claim, Refused, Release, Crash, Abort, Expire,
                  BackupEnds, Tick, externalVars, vars
    <2>3. QED  BY <2>1, <2>2
  <1>2. QED  BY <1>1, CompletedStays DEF BackedUp

(* A step that executes verifies only what is backed up, and isolates only
   after a verification. *)
LEMMA ExecuteVerified ==
    ASSUME OneTarget, RealProviders, TypeOK, VerifiedInv, NEW c \in Callers, Execute(c)
    PROVE  /\ HasVerified(seq[c])' => BackedUp'
           /\ VerifyFirst(actions, "isolate") /\ isolated' # {} => BackedUp'
  <1>1. [Next]_vars
    BY DEF Next
  <1>2. /\ actions' = actions /\ Holding(c) /\ seq[c] \in HeldOf(actions)
        /\ Len(actions) \in Nat /\ seq[c].currentStep \in 0..Len(actions)
    BY ExecuteProgress, ListLength DEF TypeOK, CallTypeOK, DocTypeOK, HeldOf, StateOf
  <1>3. CASE BackedUp
    BY <1>1, <1>3, BackedUpStays
  <1>4. CASE ~BackedUp
    <2>1. ~HasVerified(seq[c])
      BY <1>2, <1>4 DEF VerifiedInv
    <2>2. ASSUME VerifyStep(c), Verifies(c) PROVE FALSE
      <3>1. seq[c].snapshotId \in SnapIds /\ backup[seq[c].snapshotId] = "completed"
            /\ backupOf[seq[c].snapshotId] = target[c] /\ target[c] \in Targets
        BY <2>2 DEF Verifies, RealProviders, TypeOK, CallTypeOK
      <3>2. QED  BY <1>4, <3>1 DEF OneTarget, BackedUp
    <2>3. ASSUME IsolateStep(c) PROVE ~VerifyFirst(actions, "isolate")
      <3> DEFINE j == seq[c].currentStep + 1
      <3>1. j \in 1..Len(actions) /\ actions[j] = "isolate"
        BY <1>2, <2>3 DEF IsolateStep, AtStep, HasStep, Index
      <3>2. \A i \in 1..(j - 1) : actions[i] # "verify-snapshot"
        BY <1>2, <2>1 DEF HasVerified
      <3> HIDE DEF j
      <3>3. QED  BY <3>1, <3>2 DEF VerifyFirst
    <2>4. VerifyFirst(actions, "isolate") /\ isolated' # {} => BackedUp'
      <3>1. CASE IsolateStep(c)  BY <2>3, <3>1
      <3>2. CASE ~IsolateStep(c)
        <4>1. isolated' = isolated
          BY <3>2 DEF Execute, NothingLeft, SafetyBlock, AwaitApproval, SnapshotStep,
                      VerifyStep, NukeStep, UnsupportedStep, externalVars
        <4>2. QED  BY <1>4, <4>1 DEF VerifiedInv
      <3>3. QED  BY <3>1, <3>2
    <2>5. ~HasVerified(seq[c])'
      <3>1. CASE seq'[c].currentStep = seq[c].currentStep
        BY <1>2, <2>1, <3>1 DEF HasVerified
      <3>2. CASE /\ HasStep(c) /\ seq'[c].currentStep = seq[c].currentStep + 1
                 /\ actions[seq[c].currentStep + 1] # "verify-snapshot"
        BY <1>2, <2>1, <3>2 DEF HasVerified
      <3>3. /\ Failed(seq[c]).currentStep = seq[c].currentStep
            /\ Succeeded(seq[c]).currentStep = seq[c].currentStep + 1
            /\ \A x : [seq[c] EXCEPT !.status = x].currentStep = seq[c].currentStep
        BY <1>2 DEF Failed, Succeeded, HeldOf, StateOf
      <3>4. ASSUME AtStep(c, "verify-snapshot") PROVE seq'[c] = Failed(seq[c])
        <4>1. VerifyStep(c)
          BY <3>4 DEF Execute, NothingLeft, SafetyBlock, AwaitApproval, SnapshotStep,
                      IsolateStep, NukeStep, UnsupportedStep, AtStep
        <4>2. Decide(c, Failed(seq[c]))
          BY <2>2, <4>1 DEF VerifyStep
        <4>3. QED  BY <4>2 DEF Decide, TypeOK, CallTypeOK
      <3>5. CASE AtStep(c, "verify-snapshot")
        BY <3>1, <3>3, <3>4, <3>5
      <3>6. CASE ~AtStep(c, "verify-snapshot")
        <4>1. pc[c] = "claimed"
          BY DEF Execute, NothingLeft, SafetyBlock, AwaitApproval, SnapshotStep,
                 VerifyStep, IsolateStep, NukeStep, UnsupportedStep, AtStep
        <4>2. HasStep(c) => actions[seq[c].currentStep + 1] # "verify-snapshot"
          BY <3>6, <4>1 DEF AtStep, Index
        <4>3. CASE HasStep(c) /\ SameProgress(seq'[c], Succeeded(seq[c]))
          BY <3>2, <3>3, <4>2, <4>3 DEF SameProgress
        <4>4. \/ seq'[c] \in {Failed(seq[c]), [seq[c] EXCEPT !.status = "completed"],
                              [seq[c] EXCEPT !.status = "awaiting-confirmation"]}
              \/ HasStep(c) /\ SameProgress(seq'[c], Succeeded(seq[c]))
          BY ExecuteProgress, Zenon
        <4>5. QED  BY <3>1, <3>3, <4>3, <4>4
      <3>7. QED  BY <3>5, <3>6
    <2>6. QED  BY <2>4, <2>5
  <1>5. QED  BY <1>3, <1>4

LEMMA NextVerifiedInv ==
    ASSUME OneTarget, RealProviders, TypeOK, VerifiedInv, [Next]_vars
    PROVE  VerifiedInv'
  <1>1. BackedUp => BackedUp'
    BY BackedUpStays
  <1>2. ASSUME NEW acts \in ActionLists, Initiate(acts)
        PROVE  VerifiedInv'
    <2>1. doc'.currentStep = 0 /\ actions' = acts /\ Len(acts) \in Nat /\ isolated' = isolated
      BY <1>2, ConstantsOK DEF Initiate, Blank, externalVars
    <2>2. \A c \in Callers : ~Holding(c)'
      BY <1>2 DEF Initiate, TypeOK, CallTypeOK, callVars, Holding
    <2>3. isolated = {}
      BY <1>2 DEF Initiate, VerifiedInv
    <2>4. QED  BY <2>1, <2>2, <2>3 DEF VerifiedInv, HasVerified
  <1>3. ASSUME NEW c \in Callers, Execute(c)
        PROVE  VerifiedInv'
    <2>1. actions' = actions /\ doc' = doc
      BY <1>3, ExecuteProgress
    <2>2. \A d \in Callers \ {c} : Holding(d)' /\ HasVerified(seq[d])' => BackedUp'
      BY <1>1, <1>3, <2>1, ExecuteProgress DEF VerifiedInv, HasVerified
    <2>3. HasVerified(doc)' => BackedUp'
      BY <1>1, <2>1 DEF VerifiedInv, HasVerified
    <2>4. VerifyFirst(actions, "isolate")' <=> VerifyFirst(actions, "isolate")
      BY <2>1 DEF VerifyFirst
    <2>5. doc'.status # "absent"
      BY <1>3, <2>1, ExecuteProgress DEF TypeOK, CallTypeOK
    <2>6. QED  BY <1>3, <2>2, <2>3, <2>4, <2>5, ExecuteVerified DEF VerifiedInv
  <1>4. ASSUME ~ \E acts \in ActionLists : Initiate(acts), ~ \E c \in Callers : Execute(c)
        PROVE  VerifiedInv'
    <2>1. actions' = actions /\ isolated' = isolated
      BY <1>4, ProgressPassedOn
    <2>2. \A c \in Callers : Holding(c)' /\ HasVerified(seq[c])' => BackedUp'
      BY <1>1, <1>4, <2>1, ProgressPassedOn DEF VerifiedInv, HasVerified
    <2>3. HasVerified(doc)' => BackedUp'
      BY <1>1, <1>4, <2>1, ProgressPassedOn DEF VerifiedInv, HasVerified, SameProgress
    <2>4. VerifyFirst(actions, "isolate")' <=> VerifyFirst(actions, "isolate")
      BY <2>1 DEF VerifyFirst
    <2>5. doc'.status = "absent" => doc.status = "absent"
      BY <1>4, ProgressPassedOn DEF TypeOK, CallTypeOK, HeldOf, NoDocument
    <2>6. QED  BY <1>1, <2>1, <2>2, <2>3, <2>4, <2>5 DEF VerifiedInv
  <1>5. QED  BY <1>2, <1>3, <1>4

(* While all advances of a sequence name one database, and its provider makes
   real backups, a database is cut off from its clients only after a backup of
   it has completed, if the list verifies before it isolates. *)
THEOREM IsolationIsBackedUp ==
    OneTarget /\ RealProviders => (Spec => []IsolatedOnlyWithBackup)
  <1> SUFFICES ASSUME OneTarget, RealProviders
               PROVE  Spec => []IsolatedOnlyWithBackup
    OBVIOUS
  <1>1. Init => VerifiedInv
    BY DEF Init, Blank, VerifiedInv, HasVerified, Holding
  <1>2. TypeOK /\ VerifiedInv /\ [Next]_vars => VerifiedInv'
    BY NextVerifiedInv
  <1>3. TypeOK /\ VerifiedInv => IsolatedOnlyWithBackup
    BY DEF TypeOK, ExternalTypeOK, VerifiedInv, BackedUp, IsolatedOnlyWithBackup
  <1>4. QED  BY <1>1, <1>2, <1>3, TypeCorrect, PTL DEF Spec
=============================================================================
