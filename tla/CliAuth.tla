------------------------------- MODULE CliAuth -------------------------------
(***************************************************************************)
(* Device-flow login of the ks command line: one short-lived code, the     *)
(* browsers that approve or deny it, the CLI's poll loop, and the API      *)
(* server's handlers over the Mongo document of the code.                  *)
(*                                                                         *)
(* /poll claims the plaintext key with one conditional update; /approve    *)
(* reads, mints a key and saves in three separate steps; /deny is one      *)
(* conditional update.  The TTL index deletes the document, instances die, *)
(* and connections break or are retried by the network.                    *)
(***************************************************************************)
EXTENDS Integers, Sequences, FiniteSets

CONSTANTS
    Approvals,      \* POST /auth/cli/approve requests
    Handlers,       \* POST /auth/cli/poll requests being served
    KeyIds,         \* ids of the keys createApiKey may mint (bounds them)
    NoKey,          \* no key
    Nobody,         \* the CLI waits for no handler
    Ttl,            \* CODE_TTL_SECONDS, in ticks
    Interval,       \* polling_interval, in ticks
    LastStart,      \* bound: the answer of /start arrives by this time
    MaxTime         \* bound: the clock stops here

ASSUME CliConstantsOK ==
    /\ NoKey \notin KeyIds /\ Nobody \notin Handlers
    /\ Ttl \in Nat /\ Interval \in Nat
    /\ LastStart \in Nat /\ MaxTime \in Nat

VARIABLES
    status,         \* status of the code's document
    polled,         \* polledOnceAt is set
    plaintext,      \* apiKeyPlaintext
    apiKeyId,       \* apiKeyId recorded in the document
    expiresAt,
    keys,           \* the keys stored by createApiKey
    now,            \* Date.now()
    approval,       \* where each approve request is
    minted,         \* the key an approve request has minted
    handler,        \* where each poll request is
    reply,          \* the answer it has computed
    carried,        \* the key that answer carries
    cli,            \* where the CLI is
    waitingOn,      \* the handler whose answer the CLI waits for
    wakeAt,         \* end of the CLI's sleep
    deadline,       \* end of the CLI's loop
    broken,         \* history: an answer to the CLI, or to a claim, has been lost
    handed          \* history: the keys claimed for answers

codeVars     == <<status, polled, plaintext, apiKeyId, expiresAt>>
approvalVars == <<approval, minted, keys>>
handlerVars  == <<handler, reply, carried>>
cliVars      == <<cli, waitingOn, wakeAt, deadline, broken>>
vars         == <<codeVars, approvalVars, handlerVars, cliVars, now, handed>>

----------------------------------------------------------------------------
(* Types *)

Statuses == {"pending", "approved", "denied"}
Gone     == {"none", "swept"}       \* before /start, and after the TTL index
Replies  == {"approved", "pending", "denied", "expired", "consumed", "unknown", "error"}
Waiting  == {"sleeping", "polling"}

CodeTypeOK ==
    /\ status \in Statuses \cup Gone
    /\ polled \in BOOLEAN
    /\ plaintext \in KeyIds \cup {NoKey}
    /\ apiKeyId \in KeyIds \cup {NoKey}
    /\ expiresAt \in Nat /\ now \in Nat
    /\ status = "approved" /\ ~polled => plaintext \in KeyIds

ApprovalTypeOK ==
    /\ approval \in [Approvals -> {"new", "checked", "minted", "done"}]
    /\ minted \in [Approvals -> KeyIds \cup {NoKey}]
    /\ \A a \in Approvals : approval[a] = "minted" => minted[a] \in KeyIds
    /\ keys \in SUBSET KeyIds

PollTypeOK ==
    /\ handler \in [Handlers -> {"free", "received", "lookup", "answering"}]
    /\ reply \in [Handlers -> Replies]
    /\ carried \in [Handlers -> KeyIds \cup {NoKey}]
    /\ handed \in Seq(KeyIds)

CliTypeOK ==
    /\ cli \in {"start", "created", "loggedIn", "failed"} \cup Waiting
    /\ waitingOn \in Handlers \cup {Nobody}
    /\ wakeAt \in Nat /\ deadline \in Nat /\ broken \in BOOLEAN
    /\ cli = "polling" => waitingOn \in Handlers
    /\ cli = "start" => status = "none"

TypeOK == CodeTypeOK /\ ApprovalTypeOK /\ PollTypeOK /\ CliTypeOK

Init ==
    /\ status = "none" /\ polled = FALSE
    /\ plaintext = NoKey /\ apiKeyId = NoKey /\ expiresAt = 0
    /\ keys = {} /\ now = 0
    /\ approval = [a \in Approvals |-> "new"]
    /\ minted = [a \in Approvals |-> NoKey]
    /\ handler = [h \in Handlers |-> "free"]
    /\ reply = [h \in Handlers |-> "pending"]
    /\ carried = [h \in Handlers |-> NoKey]
    /\ cli = "start" /\ waitingOn = Nobody /\ wakeAt = 0 /\ deadline = 0
    /\ broken = FALSE /\ handed = <<>>

----------------------------------------------------------------------------
(* POST /auth/cli/start *)

CreateCode ==
    /\ cli = "start"
    /\ now < LastStart
    /\ status' = "pending"
    /\ expiresAt' = now + Ttl
    /\ cli' = "created"
    /\ UNCHANGED <<polled, plaintext, apiKeyId, approvalVars, handlerVars,
                   waitingOn, wakeAt, deadline, broken, now, handed>>

(* The answer reaches the CLI, which counts expires_in from now on. *)
Begin ==
    /\ cli = "created"
    /\ now <= LastStart
    /\ deadline' = now + Ttl
    /\ wakeAt' = now + Interval
    /\ cli' = "sleeping"
    /\ UNCHANGED <<codeVars, approvalVars, handlerVars, waitingOn, broken, now, handed>>

----------------------------------------------------------------------------
(* POST /auth/cli/approve: findOne and its checks, createApiKey, save. *)

Expired == expiresAt < now

(* Mutant: the status is not checked. *)
CheckAnyStatus(a) ==
    /\ approval[a] = "new"
    /\ status \in Statuses /\ ~Expired
    /\ approval' = [approval EXCEPT ![a] = "checked"]
    /\ UNCHANGED <<codeVars, minted, keys, handlerVars, cliVars, now, handed>>

Check(a) ==
    /\ approval[a] = "new"
    /\ status = "pending" /\ ~Expired
    /\ approval' = [approval EXCEPT ![a] = "checked"]
    /\ UNCHANGED <<codeVars, minted, keys, handlerVars, cliVars, now, handed>>

(* not_found, expired or not_pending. *)
Reject(a) ==
    /\ approval[a] = "new"
    /\ status # "none"
    /\ status # "pending" \/ Expired
    /\ approval' = [approval EXCEPT ![a] = "done"]
    /\ UNCHANGED <<codeVars, minted, keys, handlerVars, cliVars, now, handed>>

Mint(a) ==
    /\ approval[a] = "checked"
    /\ \E k \in KeyIds \ keys :
        /\ keys' = keys \cup {k}
        /\ minted' = [minted EXCEPT ![a] = k]
    /\ approval' = [approval EXCEPT ![a] = "minted"]
    /\ UNCHANGED <<codeVars, handlerVars, cliVars, now, handed>>

(* doc.save() writes the fields the request assigned, whatever the document
   has become since it was read; on a deleted document it throws. *)
SaveApproval(a) ==
    /\ approval[a] = "minted"
    /\ IF status \in Gone
       THEN UNCHANGED codeVars
       ELSE /\ status' = "approved"
            /\ plaintext' = minted[a] /\ apiKeyId' = minted[a]
            /\ UNCHANGED <<polled, expiresAt>>
    /\ approval' = [approval EXCEPT ![a] = "done"]
    /\ UNCHANGED <<minted, keys, handlerVars, cliVars, now, handed>>

ApprovalDies(a) ==
    /\ approval[a] \in {"checked", "minted"}
    /\ approval' = [approval EXCEPT ![a] = "done"]
    /\ UNCHANGED <<codeVars, minted, keys, handlerVars, cliVars, now, handed>>

(* POST /auth/cli/deny *)
Deny ==
    /\ status = "pending"
    /\ status' = "denied"
    /\ UNCHANGED <<polled, plaintext, apiKeyId, expiresAt, approvalVars,
                   handlerVars, cliVars, now, handed>>

(* The TTL index removes the document some time after expiresAt. *)
Sweep ==
    /\ status \in Statuses
    /\ expiresAt <= now
    /\ status' = "swept" /\ polled' = FALSE
    /\ plaintext' = NoKey /\ apiKeyId' = NoKey
    /\ UNCHANGED <<expiresAt, approvalVars, handlerVars, cliVars, now, handed>>

----------------------------------------------------------------------------
(* POST /auth/cli/poll *)

Claimable == status = "approved" /\ ~polled

(* The claiming findOneAndUpdate matches: it marks the code, scrubs the
   plaintext and returns it. *)
ClaimKey(h) ==
    /\ handler[h] = "received"
    /\ Claimable
    /\ polled' = TRUE /\ plaintext' = NoKey
    /\ handed' = Append(handed, plaintext)
    /\ carried' = [carried EXCEPT ![h] = plaintext]
    /\ reply' = [reply EXCEPT ![h] = "approved"]
    /\ handler' = [handler EXCEPT ![h] = "answering"]
    /\ UNCHANGED <<status, apiKeyId, expiresAt, approvalVars, cliVars, now>>

(* The update is written and its answer does not come: the key is gone from
   the document, and next(e) answers 500. *)
ClaimUnheard(h) ==
    /\ handler[h] = "received"
    /\ Claimable
    /\ polled' = TRUE /\ plaintext' = NoKey
    /\ handed' = Append(handed, plaintext)
    /\ reply' = [reply EXCEPT ![h] = "error"]
    /\ handler' = [handler EXCEPT ![h] = "answering"]
    /\ broken' = TRUE
    /\ UNCHANGED <<status, apiKeyId, expiresAt, approvalVars, carried, cli, waitingOn,
                   wakeAt, deadline, now>>

ClaimNothing(h) ==
    /\ handler[h] = "received"
    /\ ~Claimable
    /\ handler' = [handler EXCEPT ![h] = "lookup"]
    /\ UNCHANGED <<codeVars, approvalVars, reply, carried, cliVars, now, handed>>

(* The findOne after a claim that matched nothing. *)
PollResult ==
    IF status \in Gone THEN "unknown"
    ELSE IF Expired THEN "expired"
    ELSE IF status = "denied" THEN "denied"
    ELSE IF status = "approved" /\ polled THEN "consumed" ELSE "pending"

Lookup(h) ==
    /\ handler[h] = "lookup"
    /\ reply' = [reply EXCEPT ![h] = PollResult]
    /\ handler' = [handler EXCEPT ![h] = "answering"]
    /\ UNCHANGED <<codeVars, approvalVars, carried, cliVars, now, handed>>

(* A query that does nothing but throw: 500. *)
PollThrows(h) ==
    /\ handler[h] \in {"received", "lookup"}
    /\ reply' = [reply EXCEPT ![h] = "error"]
    /\ handler' = [handler EXCEPT ![h] = "answering"]
    /\ UNCHANGED <<codeVars, approvalVars, carried, cliVars, now, handed>>

----------------------------------------------------------------------------
(* The loop of runDeviceFlow *)

Free(h) ==
    /\ handler' = [handler EXCEPT ![h] = "free"]
    /\ reply' = [reply EXCEPT ![h] = "pending"]
    /\ carried' = [carried EXCEPT ![h] = NoKey]

(* Mutant: the CLI polls on a timer, whether or not it has been answered. *)
PollOnTimer ==
    /\ cli \in Waiting
    /\ wakeAt <= now
    /\ \E h \in Handlers :
        /\ handler[h] = "free"
        /\ handler' = [handler EXCEPT ![h] = "received"]
        /\ waitingOn' = h
    /\ cli' = "polling"
    /\ UNCHANGED <<codeVars, approvalVars, reply, carried, wakeAt, deadline, broken, now,
                   handed>>

Poll ==
    /\ cli = "sleeping"
    /\ wakeAt <= now
    /\ \E h \in Handlers :
        /\ handler[h] = "free"
        /\ handler' = [handler EXCEPT ![h] = "received"]
        /\ waitingOn' = h
    /\ cli' = "polling"
    /\ UNCHANGED <<codeVars, approvalVars, reply, carried, wakeAt, deadline, broken, now,
                   handed>>

(* Any answer but 200, 410 and 404: the loop goes on until the deadline. *)
LoopAgain ==
    /\ cli' = IF now < deadline THEN "sleeping" ELSE "failed"
    /\ wakeAt' = now + Interval

(* 410 and 404 end the loop. *)
EndsLoop(r) == r \in {"denied", "expired", "consumed", "unknown"}

(* The CLI receives the answer of the request it waits for. *)
Receive(h) ==
    /\ cli = "polling" /\ waitingOn = h /\ handler[h] = "answering"
    /\ waitingOn' = Nobody
    /\ \/ reply[h] = "approved" /\ cli' = "loggedIn" /\ UNCHANGED wakeAt
       \/ EndsLoop(reply[h]) /\ cli' = "failed" /\ UNCHANGED wakeAt
       \/ reply[h] \in {"pending", "error"} /\ LoopAgain
    /\ Free(h)
    /\ UNCHANGED <<codeVars, approvalVars, deadline, broken, now, handed>>

(* An answer nobody waits for any more. *)
Discard(h) ==
    /\ handler[h] = "answering" /\ waitingOn # h
    /\ Free(h)
    /\ UNCHANGED <<codeVars, approvalVars, cliVars, now, handed>>

(* The connection breaks and the network sends the request again: the first
   handler goes on, its answer is lost.  Bound: no retry at MaxTime. *)
RetryPoll(g) ==
    /\ now < MaxTime
    /\ cli = "polling" /\ handler[g] = "free"
    /\ handler' = [handler EXCEPT ![g] = "received"]
    /\ waitingOn' = g
    /\ broken' = TRUE
    /\ UNCHANGED <<codeVars, approvalVars, reply, carried, cli, wakeAt, deadline,
                   now, handed>>

(* What arrives is not the handler's answer: a 200 cut short, whose body is
   read as {}, or a 502 or 504 of what stands before the API.  The loop goes
   on, and the handler too. *)
AnswerSpoilt ==
    /\ cli = "polling"
    /\ LoopAgain /\ waitingOn' = Nobody /\ broken' = TRUE
    /\ UNCHANGED <<codeVars, approvalVars, handlerVars, deadline, now, handed>>

(* The connection breaks for good: fetch throws, the login has failed. *)
ConnectionBreaks ==
    /\ cli = "polling"
    /\ cli' = "failed" /\ waitingOn' = Nobody /\ broken' = TRUE
    /\ UNCHANGED <<codeVars, approvalVars, handlerVars, wakeAt, deadline, now, handed>>

Tick ==
    /\ now < MaxTime
    /\ now' = now + 1
    /\ UNCHANGED <<codeVars, approvalVars, handlerVars, cliVars, handed>>

Serve(h) ==
    \/ ClaimKey(h) \/ ClaimUnheard(h) \/ ClaimNothing(h) \/ Lookup(h) \/ PollThrows(h)
    \/ Receive(h) \/ Discard(h)

Next ==
    \/ CreateCode \/ Begin \/ Poll
    \/ \E a \in Approvals :
        Check(a) \/ Reject(a) \/ Mint(a) \/ SaveApproval(a) \/ ApprovalDies(a)
    \/ \E h \in Handlers : Serve(h) \/ RetryPoll(h)
    \/ Deny \/ Sweep \/ AnswerSpoilt \/ ConnectionBreaks \/ Tick

Spec == Init /\ [][Next]_vars

----------------------------------------------------------------------------
(* Properties *)

(* consumeCliCode: "only the first poll that sees status=approved AND
   polledOnceAt=null wins the plaintext key".  However polls, retries,
   approvals and the TTL interleave, one key at most leaves the document. *)
OneShot == Len(handed) <= 1

(* consumeCliCode: a crash "can't leave a key plaintext in the DB that's still
   claimable".  A key that was claimed for an answer is not stored any more. *)
HandedKeyNotStored ==
    \A i \in 1..Len(handed) : handed[i] # plaintext

(* Once a code is denied while no approval is between its check and its save,
   no later request, poll or retry gets it approved. *)
Denied ==
    /\ status \in {"denied", "swept"}
    /\ \A a \in Approvals : approval[a] \in {"new", "done"}
QuietDenialIsFinal == [](Denied => [](status # "approved"))

(* A key claimed for an answer reaches the CLI, however often /poll throws:
   unless an answer has been lost on its way, the CLI is logged in or waits for
   the very handler that carries the key. *)
KeyNotLost ==
    ~broken => \A i \in 1..Len(handed) :
        \/ cli = "loggedIn"
        \/ cli = "polling" /\ carried[waitingOn] = handed[i]

(* Inductive: a document that is still claimable has handed out nothing, and
   the keys of the requests under way, of the document and of the answers are
   all different. *)
Carrying(a) == approval[a] = "minted"
KeyInv ==
    /\ OneShot
    /\ status \in Statuses \cup {"none"} /\ ~polled => handed = <<>>
    /\ HandedKeyNotStored
    /\ plaintext # NoKey => plaintext \in keys
    /\ \A i \in 1..Len(handed) : handed[i] \in keys
    /\ \A a \in Approvals : Carrying(a) =>
        /\ minted[a] \in keys /\ minted[a] # plaintext
        /\ \A i \in 1..Len(handed) : handed[i] # minted[a]
        /\ \A b \in Approvals : Carrying(b) /\ minted[b] = minted[a] => b = a
=============================================================================
