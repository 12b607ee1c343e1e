---------------------------- MODULE KillSequence ----------------------------
(***************************************************************************)
(* The database kill switch of packages/api: one persisted kill sequence   *)
(* (a Mongo document), the /advance calls that execute its steps from      *)
(* several Cloud Run instances at once, /abort, the TTL index, and the     *)
(* database providers the steps talk to.                                   *)
(*                                                                         *)
(* An /advance call reads the document, claims it with one conditional     *)
(* update, executes one step against the provider and writes the whole     *)
(* state back without a condition.  Between those points every other call, *)
(* an abort, a crash and the clock may step in.                            *)
(***************************************************************************)
EXTENDS Integers, Sequences, FiniteSets

CONSTANTS
    Callers,            \* /advance calls that may be in progress together
    Targets,            \* databases, each reached by one stored credential
    Provider,           \* the provider of each target
    ActionLists,        \* the action lists POST /database/kill may be given
    SnapIds,            \* ids the providers may hand out (bounds the snapshots)
    NoSnapshot,         \* snapshotId is not set
    StaleStep,          \* STALE_STEP_MS, in ticks of the clock
    Retention,          \* the TTL after finishedAt, in ticks
    MaxTime,            \* bound: the clock stops here
    LastCrash,          \* bound: no call crashes after this time
    MayOverrun,         \* a call may outlive STALE_STEP_MS
    MayAbortInFlight    \* /abort may arrive while a step is executing

ActionNames == {"snapshot", "verify-snapshot", "isolate", "nuke",
                "rotate-credentials", "revoke-access"}
Providers   == {"mongodb-atlas", "cloud-sql-postgres", "redis"}

ASSUME ConstantsOK ==
    /\ Targets # {} /\ Provider \in [Targets -> Providers]
    /\ ActionLists \subseteq Seq(ActionNames)
    /\ NoSnapshot \notin SnapIds
    /\ StaleStep \in Nat /\ Retention \in Nat
    /\ MaxTime \in Nat /\ LastCrash \in Nat
    /\ MayOverrun \in BOOLEAN /\ MayAbortInFlight \in BOOLEAN

VARIABLES
    actions,        \* steps[].action, fixed when the sequence is created
    doc,            \* the part of the document a call copies and writes back
    executing,      \* the in-flight lock
    stepStartedAt,  \* when the lock was taken
    finishedAt,     \* drives the TTL index
    now,            \* Date.now()
    pc,             \* where each /advance call is
    target,         \* the database of the credential the call came with
    humanApproval,  \* the humanApproval flag the call came with
    expected,       \* existing.currentStep, read before the claim
    asOf,           \* the call's `now`, taken between the read and the claim
    seq,            \* the call's own copy of the state
    backup,         \* external: what became of each snapshot
    backupOf,       \* external: the database a snapshot was taken of
    isolated,       \* external: databases that refuse every connection
    nukes           \* history: the nukes that reached a provider

lockVars     == <<executing, stepStartedAt>>
docVars      == <<actions, doc, executing, stepStartedAt, finishedAt>>
callVars     == <<pc, target, humanApproval, expected, asOf, seq>>
externalVars == <<backup, backupOf, isolated, nukes>>
vars         == <<docVars, now, callVars, externalVars>>

----------------------------------------------------------------------------
(* Types *)

Never == -1      \* a time that is not set

Live       == {"running", "awaiting-confirmation"}
Terminal   == {"completed", "failed", "aborted"}
NoDocument == {"absent", "gone"}     \* before /kill, and after the TTL index
StepStatus == {"pending", "completed", "failed"}
PcValues   == {"idle", "read", "claimed", "releasing"}
BackupStates == {"unused", "creating", "completed", "failed", "manual"}

StateOf(acts) ==
    [stepStatus       : [1..Len(acts) -> StepStatus],
     currentStep      : 0..Len(acts),
     status           : Live \cup Terminal \cup NoDocument,
     snapshotId       : SnapIds \cup {NoSnapshot},
     snapshotVerified : BOOLEAN]
HeldOf(acts) == {s \in StateOf(acts) : s.status \notin NoDocument}
AnyState == UNION {StateOf(acts) : acts \in ActionLists \cup {<<>>}}

Nukes == [target : Targets, snapshot : SnapIds \cup {NoSnapshot},
          approved : BOOLEAN]

Holding(c) == pc[c] \in {"claimed", "releasing"}

DocTypeOK ==
    /\ actions \in ActionLists \cup {<<>>}
    /\ doc \in StateOf(actions)
    /\ executing \in BOOLEAN
    /\ stepStartedAt \in Nat \cup {Never}
    /\ finishedAt \in Nat \cup {Never}
    /\ now \in Nat

CallTypeOK ==
    /\ pc \in [Callers -> PcValues]
    /\ target \in [Callers -> Targets]
    /\ humanApproval \in [Callers -> BOOLEAN]
    /\ expected \in [Callers -> Nat]
    /\ asOf \in [Callers -> Nat]
    /\ seq \in [Callers -> AnyState]
    /\ \A c \in Callers :
        Holding(c) => seq[c] \in HeldOf(actions) /\ doc.status # "absent"

ExternalTypeOK ==
    /\ backup \in [SnapIds -> BackupStates]
    /\ backupOf \in [SnapIds -> Targets]
    /\ isolated \in SUBSET Targets
    /\ nukes \in SUBSET Nukes

TypeOK == DocTypeOK /\ CallTypeOK /\ ExternalTypeOK

----------------------------------------------------------------------------
(* Initial state: no sequence exists yet. *)

(* The value of a target nobody looks at. *)
AnyTarget == CHOOSE t \in Targets : TRUE

Blank(acts, status) ==
    [stepStatus       |-> [i \in 1..Len(acts) |-> "pending"],
     currentStep      |-> 0,
     status           |-> status,
     snapshotId       |-> NoSnapshot,
     snapshotVerified |-> FALSE]

Init ==
    /\ actions = <<>>
    /\ doc = Blank(<<>>, "absent")
    /\ executing = FALSE
    /\ stepStartedAt = Never
    /\ finishedAt = Never
    /\ now = 0
    /\ pc = [c \in Callers |-> "idle"]
    /\ target = [c \in Callers |-> AnyTarget]
    /\ humanApproval = [c \in Callers |-> FALSE]
    /\ expected = [c \in Callers |-> 0]
    /\ asOf = [c \in Callers |-> 0]
    /\ seq = [c \in Callers |-> Blank(<<>>, "absent")]
    /\ backup = [s \in SnapIds |-> "unused"]
    /\ backupOf = [s \in SnapIds |-> AnyTarget]
    /\ isolated = {}
    /\ nukes = {}

----------------------------------------------------------------------------
(* POST /database/kill *)

Initiate(acts) ==
    /\ doc.status = "absent"
    /\ actions' = acts
    /\ doc' = Blank(acts, "running")
    /\ UNCHANGED <<lockVars, finishedAt, now, callVars, externalVars>>

(* POST /database/kill/:id/advance: the call finds a live sequence.  A call
   that finds none, or a terminal one, returns without changing anything. *)
Read(c) ==
    /\ pc[c] = "idle"
    /\ doc.status \in Live
    /\ \E t \in Targets, approved \in BOOLEAN :
        /\ target' = [target EXCEPT ![c] = t]
        /\ humanApproval' = [humanApproval EXCEPT ![c] = approved]
    /\ expected' = [expected EXCEPT ![c] = doc.currentStep]
    /\ asOf' = [asOf EXCEPT ![c] = now]
    /\ pc' = [pc EXCEPT ![c] = "read"]
    /\ UNCHANGED <<docVars, now, seq, externalVars>>

(* The call ends; its local state is gone. *)
Return(c) ==
    /\ pc' = [pc EXCEPT ![c] = "idle"]
    /\ humanApproval' = [humanApproval EXCEPT ![c] = FALSE]
    /\ expected' = [expected EXCEPT ![c] = 0]
    /\ asOf' = [asOf EXCEPT ![c] = 0]
    /\ seq' = [seq EXCEPT ![c] = Blank(<<>>, "absent")]
    /\ target' = [target EXCEPT ![c] = AnyTarget]

(* Mutants of the claim: it ignores the status, or knows no stale lock. *)
ClaimAnyStatus(c) ==
    /\ doc.currentStep = expected[c]
    /\ \/ ~executing
       \/ stepStartedAt # Never /\ stepStartedAt < asOf[c] - StaleStep
ClaimNeverStale(c) == doc.status \in Live /\ doc.currentStep = expected[c] /\ ~executing

(* The filter of the claiming findOneAndUpdate. *)
ClaimFilter(c) ==
    /\ doc.status \in Live
    /\ doc.currentStep = expected[c]
    /\ \/ ~executing
       \/ stepStartedAt # Never /\ stepStartedAt < asOf[c] - StaleStep

Claim(c) ==
    /\ pc[c] = "read"
    /\ ClaimFilter(c)
    /\ executing' = TRUE
    /\ stepStartedAt' = asOf[c]
    /\ seq' = [seq EXCEPT ![c] = doc]
    /\ pc' = [pc EXCEPT ![c] = "claimed"]
    /\ UNCHANGED <<actions, doc, finishedAt, now, target, humanApproval,
                   expected, asOf, externalVars>>

(* AdvanceInProgressError, answered 409. *)
Refused(c) ==
    /\ pc[c] = "read"
    /\ ~ClaimFilter(c)
    /\ Return(c)
    /\ UNCHANGED <<docVars, now, externalVars>>

----------------------------------------------------------------------------
(* What the claiming call does with its copy before it releases it. *)

Index(c)        == seq[c].currentStep + 1
HasStep(c)      == Index(c) <= Len(actions)
AtStep(c, a)    == pc[c] = "claimed" /\ HasStep(c) /\ actions[Index(c)] = a

(* Mutants: the last step does not complete the sequence; a failed step is
   passed over. *)
SucceededNoEnd(s) ==
    [s EXCEPT !.stepStatus[s.currentStep + 1] = "completed",
              !.currentStep = s.currentStep + 1]
FailedGoesOn(s) ==
    [s EXCEPT !.stepStatus[s.currentStep + 1] = "failed",
              !.currentStep = s.currentStep + 1]

Succeeded(s) ==
    [s EXCEPT !.stepStatus[s.currentStep + 1] = "completed",
              !.currentStep = s.currentStep + 1,
              !.status = IF s.currentStep + 1 >= Len(actions) THEN "completed" ELSE @]

Failed(s) ==
    [s EXCEPT !.stepStatus[s.currentStep + 1] = "failed", !.status = "failed"]

(* The call has computed the state it will write. *)
Decide(c, s) ==
    /\ seq' = [seq EXCEPT ![c] = s]
    /\ pc' = [pc EXCEPT ![c] = "releasing"]
    /\ UNCHANGED <<docVars, now, target, humanApproval, expected, asOf>>

(* No step is left (an empty action list). *)
NothingLeft(c) ==
    /\ pc[c] = "claimed"
    /\ ~HasStep(c)
    /\ Decide(c, [seq[c] EXCEPT !.status = "completed"])
    /\ UNCHANGED externalVars

SafetyBlock(c) ==
    /\ AtStep(c, "nuke")
    /\ ~seq[c].snapshotVerified
    /\ Decide(c, Failed(seq[c]))
    /\ UNCHANGED externalVars

AwaitApproval(c) ==
    /\ AtStep(c, "nuke")
    /\ seq[c].snapshotVerified
    /\ ~humanApproval[c]
    /\ Decide(c, [seq[c] EXCEPT !.status = "awaiting-confirmation"])
    /\ UNCHANGED externalVars

(* executeRedisStep answers success to every step it knows and does nothing. *)
OnlyAcknowledges(t) == Provider[t] = "redis"

(* executeCloudSQLStep fails with the PATCH that isolates the instance. *)
ReportsIsolation(t) == Provider[t] = "cloud-sql-postgres"

(* The provider starts a backup; its answer may be lost, and then the step
   fails although the backup exists.  Redis acknowledges with an id of no
   backup at all. *)
SnapshotStep(c) ==
    /\ AtStep(c, "snapshot")
    /\ \/ \E s \in SnapIds :
            /\ backup[s] = "unused"
            /\ backup' = [backup EXCEPT ![s] =
                    IF OnlyAcknowledges(target[c]) THEN "manual" ELSE "creating"]
            /\ backupOf' = [backupOf EXCEPT ![s] = target[c]]
            /\ \/ Decide(c, [Succeeded(seq[c]) EXCEPT !.snapshotId = s])
               \/ ~OnlyAcknowledges(target[c]) /\ Decide(c, Failed(seq[c]))
       \/ /\ ~OnlyAcknowledges(target[c])
          /\ Decide(c, Failed(seq[c]))
          /\ UNCHANGED <<backup, backupOf>>
    /\ UNCHANGED <<isolated, nukes>>

(* What the provider says of the snapshot the call's copy names. *)
Verifies(c) ==
    \/ OnlyAcknowledges(target[c])
    \/ /\ seq[c].snapshotId \in SnapIds
       /\ backupOf[seq[c].snapshotId] = target[c]
       /\ backup[seq[c].snapshotId] = "completed"

VerifyStep(c) ==
    /\ AtStep(c, "verify-snapshot")
    /\ \/ Verifies(c) /\ Decide(c, [Succeeded(seq[c]) EXCEPT !.snapshotVerified = TRUE])
       \/ ~OnlyAcknowledges(target[c]) /\ Decide(c, Failed(seq[c]))
    /\ UNCHANGED externalVars

(* Cloud SQL reports the PATCH's own outcome; Atlas succeeds once it has
   listed the entries, whatever the DELETEs answer; Redis does nothing. *)
IsolateStep(c) ==
    /\ AtStep(c, "isolate")
    /\ \/ /\ isolated' = isolated \cup {target[c]}
          /\ ~OnlyAcknowledges(target[c])
          /\ \/ Decide(c, Succeeded(seq[c]))
             \/ Decide(c, Failed(seq[c]))
       \/ /\ UNCHANGED isolated
          /\ \/ ~OnlyAcknowledges(target[c]) /\ Decide(c, Failed(seq[c]))
             \/ /\ ~ReportsIsolation(target[c])
                /\ Decide(c, Succeeded(seq[c]))
    /\ UNCHANGED <<backup, backupOf, nukes>>

(* Mutant: the nuke does not ask for a verified snapshot. *)
NukeUnverified(c) ==
    /\ AtStep(c, "nuke")
    /\ humanApproval[c]
    /\ nukes' = nukes \cup {[target   |-> target[c],
                             snapshot |-> seq[c].snapshotId,
                             approved |-> humanApproval[c]]}
    /\ Decide(c, Succeeded(seq[c]))
    /\ UNCHANGED <<backup, backupOf, isolated>>

(* The cluster is paused or the instance stopped; a lost answer fails the
   step after the fact.  Redis only acknowledges. *)
NukeStep(c) ==
    /\ AtStep(c, "nuke")
    /\ seq[c].snapshotVerified
    /\ humanApproval[c]
    /\ \/ /\ ~OnlyAcknowledges(target[c])
          /\ nukes' = nukes \cup {[target   |-> target[c],
                                   snapshot |-> seq[c].snapshotId,
                                   approved |-> humanApproval[c]]}
          /\ \/ Decide(c, Succeeded(seq[c]))
             \/ Decide(c, Failed(seq[c]))
       \/ /\ UNCHANGED nukes
          /\ \/ ~OnlyAcknowledges(target[c]) /\ Decide(c, Failed(seq[c]))
             \/ OnlyAcknowledges(target[c]) /\ Decide(c, Succeeded(seq[c]))
    /\ UNCHANGED <<backup, backupOf, isolated>>

UnsupportedStep(c) ==
    /\ AtStep(c, "rotate-credentials") \/ AtStep(c, "revoke-access")
    /\ Decide(c, Failed(seq[c]))
    /\ UNCHANGED externalVars

(* Mutant: the release does not write the steps. *)
ReleaseWithoutSteps(c) ==
    /\ pc[c] = "releasing"
    /\ IF doc.status \in NoDocument
       THEN UNCHANGED docVars
       ELSE /\ doc' = [seq[c] EXCEPT !.stepStatus = doc.stepStatus]
            /\ executing' = FALSE
            /\ finishedAt' = IF seq[c].status \in Terminal THEN now ELSE finishedAt
            /\ UNCHANGED <<actions, stepStartedAt>>
    /\ Return(c)
    /\ UNCHANGED <<now, externalVars>>

(* release(): the whole copy is written, on the id alone.  A snapshotId that
   is not set is left out of the $set, and a deleted document is not written. *)
Release(c) ==
    /\ pc[c] = "releasing"
    /\ IF doc.status \in NoDocument
       THEN UNCHANGED docVars
       ELSE /\ doc' = [seq[c] EXCEPT !.snapshotId =
                            IF @ = NoSnapshot THEN doc.snapshotId ELSE @]
            /\ executing' = FALSE
            /\ finishedAt' = IF seq[c].status \in Terminal THEN now ELSE finishedAt
            /\ UNCHANGED <<actions, stepStartedAt>>
    /\ Return(c)
    /\ UNCHANGED <<now, externalVars>>

----------------------------------------------------------------------------
(* POST /database/kill/:id/abort, whatever the status is. *)
Abort ==
    /\ doc.status \notin NoDocument
    /\ MayAbortInFlight \/ \A c \in Callers : ~Holding(c)
    /\ doc' = [doc EXCEPT !.status = "aborted"]
    /\ executing' = FALSE
    /\ finishedAt' = now
    /\ UNCHANGED <<actions, stepStartedAt, now, callVars, externalVars>>

(* An instance dies in the middle of a call: the lock stays taken. *)
Crash(c) ==
    /\ pc[c] # "idle"
    /\ now <= LastCrash
    /\ Return(c)
    /\ UNCHANGED <<docVars, now, externalVars>>

(* The TTL index removes the document. *)
Expire ==
    /\ doc.status \notin NoDocument
    /\ finishedAt # Never
    /\ now >= finishedAt + Retention
    /\ doc' = [doc EXCEPT !.status = "gone"]
    /\ UNCHANGED <<actions, lockVars, finishedAt, now, callVars, externalVars>>

(* The provider finishes a backup it started. *)
BackupEnds(s) ==
    /\ backup[s] = "creating"
    /\ \E outcome \in {"completed", "failed"} :
            backup' = [backup EXCEPT ![s] = outcome]
    /\ UNCHANGED <<docVars, now, callVars, backupOf, isolated, nukes>>

(* Without overruns a call ends within STALE_STEP_MS of taking its `now`. *)
Tick ==
    /\ now < MaxTime
    /\ MayOverrun \/ \A c \in Callers : pc[c] # "idle" => now < asOf[c] + StaleStep
    /\ now' = now + 1
    /\ UNCHANGED <<docVars, callVars, externalVars>>

Execute(c) ==
    \/ NothingLeft(c) \/ SafetyBlock(c) \/ AwaitApproval(c)
    \/ SnapshotStep(c) \/ VerifyStep(c) \/ IsolateStep(c) \/ NukeStep(c)
    \/ UnsupportedStep(c)

Next ==
    \/ \E acts \in ActionLists : Initiate(acts)
    \/ \E c \in Callers :
        Read(c) \/ Claim(c) \/ Refused(c) \/ Execute(c) \/ Release(c) \/ Crash(c)
    \/ Abort
    \/ Expire
    \/ \E s \in SnapIds : BackupEnds(s)
    \/ Tick

Spec == Init /\ [][Next]_vars

(* The instances run the calls they have accepted, time passes, and an
   operator whose advance was refused retries, as the 409 tells it to. *)
Fairness ==
    /\ \A c \in Callers : /\ WF_vars(Read(c))
                         /\ WF_vars(Claim(c) \/ Refused(c))
                         /\ WF_vars(Execute(c))
                         /\ WF_vars(Release(c))
    /\ WF_vars(Tick)

FairSpec == Spec /\ Fairness

----------------------------------------------------------------------------
(* Conditions on the constants that some properties need. *)

(* No list takes another snapshot once it has verified one. *)
VerifiesLast ==
    \A acts \in ActionLists : \A i, j \in 1..Len(acts) :
        acts[i] = "verify-snapshot" /\ acts[j] = "snapshot" => j < i

(* Every provider makes real backups; Redis only acknowledges. *)
RealProviders == \A t \in Targets : ~OnlyAcknowledges(t)

(* All advances of a sequence name the same database. *)
OneTarget == \A t, u \in Targets : t = u

(* Calls end in time and operators abort between steps only. *)
Timely == ~MayOverrun /\ ~MayAbortInFlight

----------------------------------------------------------------------------
(* Properties *)

(* A nuke reaches a database only with a human's approval and with the
   recorded snapshot verified as completed by the provider, however the
   advance calls, aborts, crashes and stale write-backs interleave. *)
NukedWithVerifiedSnapshot ==
    \A n \in nukes :
        n.approved /\ n.snapshot \in SnapIds /\ backup[n.snapshot] = "completed"

(* With the default order, a database is cut off from its clients only once a
   backup of it has completed. *)
VerifyFirst(acts, a) ==
    \A j \in 1..Len(acts) : acts[j] = a =>
        \E i \in 1..(j - 1) : acts[i] = "verify-snapshot"
IsolatedOnlyWithBackup ==
    VerifyFirst(actions, "isolate") =>
        \A t \in isolated : \E s \in SnapIds :
            backup[s] = "completed" /\ backupOf[s] = t

(* What an operator reads in the document is consistent, whichever call wrote
   it last: the steps before currentStep are completed, later ones are not,
   and a completed sequence completed every step. *)
StepsMatchProgress ==
    /\ \A i \in 1..Len(actions) :
        (doc.stepStatus[i] = "completed") <=> (i <= doc.currentStep)
    /\ doc.status = "completed" => doc.currentStep = Len(actions)

(* Two advance calls never execute a step at the same time. *)
NoConcurrentExecution ==
    \A c, d \in Callers : Holding(c) /\ Holding(d) => c = d

(* Once a sequence is aborted while no step is in flight, no advance that was
   read before, retried or made later revives it. *)
Stopped ==
    doc.status \in {"aborted", "gone"} /\ \A c \in Callers : ~Holding(c)
QuietAbortIsFinal == [](Stopped => [](doc.status \in {"aborted", "gone"}))

(* A running sequence that is advanced does not stay running for ever: a lock
   left by a crashed instance is taken over. *)
SequenceSettles == (doc.status = "running") ~> (doc.status # "running")

(* A state that claims a verified snapshot names a completed one, and no later
   step replaces it. *)
Vetted(s) ==
    s.snapshotVerified =>
        /\ s.snapshotId \in SnapIds /\ backup[s.snapshotId] = "completed"
        /\ \A i \in 1..Len(actions) : actions[i] = "snapshot" => i <= s.currentStep

(* Inductive: the document and every call's copy are vetted. *)
SnapshotInv ==
    /\ Vetted(doc)
    /\ \A c \in Callers : Holding(c) => Vetted(seq[c])
    /\ NukedWithVerifiedSnapshot

(* What one advance makes of the state d. *)
Outcome(d, s) ==
    \/ /\ d.currentStep = Len(actions)
       /\ s = [d EXCEPT !.status = "completed"]
    \/ /\ d.currentStep < Len(actions)
       /\ s.status = "failed"
       /\ s.currentStep = d.currentStep /\ s.snapshotVerified = d.snapshotVerified
    \/ /\ d.currentStep < Len(actions)
       /\ actions[d.currentStep + 1] = "nuke" /\ d.snapshotVerified
       /\ s = [d EXCEPT !.status = "awaiting-confirmation"]
    \/ /\ d.currentStep < Len(actions)
       /\ actions[d.currentStep + 1] = "nuke" => d.snapshotVerified
       /\ s.currentStep = d.currentStep + 1
       /\ s.snapshotVerified = IF actions[d.currentStep + 1] = "verify-snapshot"
                               THEN TRUE ELSE d.snapshotVerified
       /\ s.status = IF d.currentStep + 1 = Len(actions) THEN "completed" ELSE d.status

(* Inductive when calls end in time and aborts come between steps: the holder
   of the lock is alone, its lock is fresh, and nobody has changed the document
   since it was copied. *)
InTime(c) == asOf[c] <= now /\ now <= asOf[c] + StaleStep
Owns(c) ==
    /\ doc.status \in Live
    /\ executing
    /\ stepStartedAt = asOf[c]
    /\ pc[c] = "claimed" => seq[c] = doc
    /\ pc[c] = "releasing" => Outcome(doc, seq[c])
LockInv ==
    /\ \A c \in Callers : pc[c] # "idle" => InTime(c)
    /\ \A c \in Callers : Holding(c) => Owns(c)
    /\ NoConcurrentExecution
    /\ finishedAt # Never => doc.status \in Terminal \cup {"gone"}

(* Inductive: before POST /kill nothing is done and nothing is verified. *)
FreshInv ==
    doc.status = "absent" => doc.currentStep = 0 /\ doc.snapshotVerified = FALSE

(* The detailed kill switch implements the protocol it promises. *)
Protocol == INSTANCE KillProtocol WITH
    status   <- doc.status,
    done     <- doc.currentStep,
    verified <- doc.snapshotVerified,
    struck   <- nukes # {}

ImplementsProtocol == Protocol!Spec
=============================================================================
