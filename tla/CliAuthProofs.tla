---------------------------- MODULE CliAuthProofs ----------------------------
(* Proofs about the device-flow login, for any number of approvals, polls and
   keys and for any timing. *)
EXTENDS CliAuth, TLAPS

LEMMA InitTypeOK == Init => TypeOK
  <1> SUFFICES ASSUME Init PROVE TypeOK
    OBVIOUS
  <1>1. CodeTypeOK      BY DEF Init, CodeTypeOK, Gone
  <1>2. ApprovalTypeOK  BY DEF Init, ApprovalTypeOK
  <1>3. PollTypeOK      BY DEF Init, PollTypeOK, Replies
  <1>4. CliTypeOK       BY DEF Init, CliTypeOK
  <1>5. QED             BY <1>1, <1>2, <1>3, <1>4 DEF TypeOK

LEMMA NextTypeOK ==
    ASSUME TypeOK, [Next]_vars
    PROVE  TypeOK'
  <1> USE CliConstantsOK
      DEF TypeOK, CodeTypeOK, ApprovalTypeOK, PollTypeOK, CliTypeOK, Gone, Statuses,
          Waiting, codeVars, approvalVars, handlerVars, cliVars
  <1>1. CASE CreateCode  BY <1>1 DEF CreateCode
  <1>2. CASE Begin       BY <1>2 DEF Begin
  <1>3. CASE Poll        BY <1>3 DEF Poll
  <1>4. ASSUME NEW a \in Approvals, Check(a) \/ Reject(a) \/ Mint(a) \/ ApprovalDies(a)
        PROVE  TypeOK'
    BY <1>4 DEF Check, Reject, Mint, ApprovalDies
  <1>5. ASSUME NEW a \in Approvals, SaveApproval(a)
        PROVE  TypeOK'
    BY <1>5 DEF SaveApproval
  <1>6. ASSUME NEW h \in Handlers, ClaimKey(h) \/ ClaimUnheard(h)
        PROVE  TypeOK'
    <2>1. CASE ClaimKey(h)      BY <2>1 DEF ClaimKey, Claimable, Replies
    <2>2. CASE ClaimUnheard(h)  BY <2>2 DEF ClaimUnheard, Claimable, Replies
    <2>3. QED  BY <1>6, <2>1, <2>2
  <1>7. ASSUME NEW h \in Handlers, ClaimNothing(h) \/ Lookup(h) \/ PollThrows(h)
        PROVE  TypeOK'
    BY <1>7 DEF ClaimNothing, Lookup, PollThrows, PollResult, Replies
  <1>8. ASSUME NEW h \in Handlers, Receive(h)
        PROVE  TypeOK'
    <2>1. wakeAt' \in Nat
      BY <1>8 DEF Receive, LoopAgain
    <2>2. cli' \in {"loggedIn", "failed", "sleeping"}
      BY <1>8 DEF Receive, LoopAgain
    <2>3. PollTypeOK'
      BY <1>8 DEF Receive, Free, Replies
    <2>4. QED
      BY <1>8, <2>1, <2>2, <2>3 DEF Receive
  <1>9. ASSUME NEW h \in Handlers, Discard(h) \/ RetryPoll(h)
        PROVE  TypeOK'
    BY <1>9 DEF Discard, RetryPoll, Free, Replies
  <1>10. CASE Deny \/ Sweep \/ AnswerSpoilt \/ ConnectionBreaks \/ Tick \/ UNCHANGED vars
    <2>1. CASE Deny              BY <2>1 DEF Deny
    <2>2. CASE Sweep             BY <2>2 DEF Sweep
    <2>3. CASE ConnectionBreaks  BY <2>3 DEF ConnectionBreaks
    <2>4. CASE Tick              BY <2>4 DEF Tick
    <2>5. CASE UNCHANGED vars    BY <2>5 DEF vars
    <2>6. CASE AnswerSpoilt      BY <2>6 DEF AnswerSpoilt, LoopAgain
    <2>7. QED  BY <1>10, <2>1, <2>2, <2>3, <2>4, <2>5, <2>6
  <1>11. QED
    BY <1>1, <1>2, <1>3, <1>4, <1>5, <1>6, <1>7, <1>8, <1>9, <1>10 DEF Next, Serve

(* Every reachable state is well typed; in particular a claimable document
   holds a key, so an answer "approved" always carries one. *)
THEOREM TypeCorrect == Spec => []TypeOK
  <1>1. TypeOK /\ [Next]_vars => TypeOK'
    BY NextTypeOK
  <1>2. QED  BY <1>1, InitTypeOK, PTL DEF Spec

----------------------------------------------------------------------------

LEMMA NextKeyInv ==
    ASSUME TypeOK, KeyInv, [Next]_vars
    PROVE  KeyInv'
  <1> USE DEF KeyInv, OneShot, HandedKeyNotStored, Carrying
  <1>1. ASSUME NEW a \in Approvals, Mint(a)
        PROVE  KeyInv'
    <2>1. PICK k \in KeyIds \ keys :
              keys' = keys \cup {k} /\ minted' = [minted EXCEPT ![a] = k]
      BY <1>1 DEF Mint
    <2>2. /\ status' = status /\ polled' = polled /\ plaintext' = plaintext
          /\ handed' = handed /\ approval' = [approval EXCEPT ![a] = "minted"]
      BY <1>1 DEF Mint, codeVars
    <2>3. ASSUME NEW b \in Approvals, Carrying(b)'
          PROVE  b = a \/ (Carrying(b) /\ minted'[b] = minted[b] /\ minted'[b] # k)
      BY <2>1, <2>2, <2>3 DEF TypeOK, ApprovalTypeOK
    <2>4. minted'[a] = k
      BY <2>1 DEF TypeOK, ApprovalTypeOK
    <2>5. k # plaintext /\ \A i \in 1..Len(handed) : handed[i] # k
      BY <2>1, CliConstantsOK
    <2>6. ASSUME NEW b \in Approvals, Carrying(b)'
          PROVE  /\ minted'[b] \in keys' /\ minted'[b] # plaintext'
                 /\ \A i \in 1..Len(handed') : handed'[i] # minted'[b]
                 /\ \A c \in Approvals :
                        Carrying(c)' /\ minted'[c] = minted'[b] => c = b
      BY <2>1, <2>2, <2>3, <2>4, <2>5, <2>6
    <2>7. QED  BY <2>1, <2>2, <2>6
  <1>2. ASSUME NEW a \in Approvals, SaveApproval(a)
        PROVE  KeyInv'
    <2>1. /\ Carrying(a) /\ approval' = [approval EXCEPT ![a] = "done"]
          /\ minted' = minted /\ keys' = keys /\ handed' = handed /\ polled' = polled
      BY <1>2 DEF SaveApproval, codeVars
    <2>2. \A b \in Approvals : Carrying(b)' => Carrying(b) /\ b # a
      BY <2>1 DEF TypeOK, ApprovalTypeOK
    <2>3. CASE status \in Gone
      BY <1>2, <2>1, <2>2, <2>3 DEF SaveApproval, codeVars
    <2>4. CASE status \notin Gone
      <3>1. status' = "approved" /\ plaintext' = minted[a] /\ status \in Statuses
        BY <1>2, <2>4 DEF SaveApproval, TypeOK, CodeTypeOK
      <3>2. QED  BY <2>1, <2>2, <3>1
    <2>5. QED  BY <2>3, <2>4
  <1>3. ASSUME NEW h \in Handlers, ClaimKey(h) \/ ClaimUnheard(h)
        PROVE  KeyInv'
    <2>1. /\ status' = status /\ status = "approved" /\ polled' = TRUE
          /\ plaintext' = NoKey /\ handed' = Append(handed, plaintext)
          /\ handed = <<>> /\ approval' = approval /\ minted' = minted /\ keys' = keys
          /\ plaintext \in KeyIds
      BY <1>3 DEF ClaimKey, ClaimUnheard, Claimable, approvalVars, Statuses, TypeOK, CodeTypeOK
    <2>2. handed' = <<plaintext>>
      BY <2>1
    <2>3. QED
      BY <2>1, <2>2, CliConstantsOK DEF TypeOK, ApprovalTypeOK
  <1>4. CASE Sweep
    <2>1. ASSUME NEW i \in 1..Len(handed)
          PROVE  handed[i] # NoKey
      BY CliConstantsOK DEF TypeOK, PollTypeOK
    <2>2. ASSUME NEW a \in Approvals, Carrying(a)
          PROVE  minted[a] # NoKey
      BY <2>2, CliConstantsOK DEF TypeOK, ApprovalTypeOK
    <2>3. QED
      BY <1>4, <2>1, <2>2 DEF Sweep, approvalVars, Statuses
  <1>5. ASSUME NEW a \in Approvals, Check(a) \/ Reject(a) \/ ApprovalDies(a)
        PROVE  KeyInv'
    <2>1. UNCHANGED <<codeVars, minted, keys, handed>>
      BY <1>5 DEF Check, Reject, ApprovalDies
    <2>2. \A b \in Approvals : Carrying(b)' => Carrying(b)
      BY <1>5 DEF Check, Reject, ApprovalDies, TypeOK, ApprovalTypeOK
    <2>3. QED  BY <2>1, <2>2 DEF codeVars
  <1>6. CASE CreateCode \/ Deny
    BY <1>6 DEF CreateCode, Deny, approvalVars, Statuses, TypeOK, CliTypeOK
  <1>7. CASE UNCHANGED <<codeVars, approvalVars, handed>>
    BY <1>7 DEF codeVars, approvalVars
  <1>8. QED
    <2>1. ASSUME NEW h \in Handlers,
                 \/ ClaimNothing(h) \/ Lookup(h) \/ PollThrows(h)
                 \/ Receive(h) \/ Discard(h) \/ RetryPoll(h)
          PROVE  UNCHANGED <<codeVars, approvalVars, handed>>
      BY <2>1 DEF ClaimNothing, Lookup, PollThrows, Receive, Discard, RetryPoll
    <2>2. CASE Begin \/ Poll \/ AnswerSpoilt \/ ConnectionBreaks \/ Tick \/ UNCHANGED vars
      BY <1>7, <2>2 DEF Begin, Poll, AnswerSpoilt, ConnectionBreaks, Tick, vars
    <2>3. QED
      BY <1>1, <1>2, <1>3, <1>4, <1>5, <1>6, <1>7, <2>1, <2>2 DEF Next, Serve

LEMMA InitKeyInv == Init => KeyInv
  BY DEF Init, KeyInv, OneShot, HandedKeyNotStored, Carrying

LEMMA KeyInvHolds == Spec => []KeyInv
  <1>1. TypeOK /\ KeyInv /\ [Next]_vars => KeyInv'
    BY NextKeyInv
  <1>2. QED  BY <1>1, InitKeyInv, TypeCorrect, PTL DEF Spec

(* However many browsers approve and however often the network repeats a poll,
   one key at most leaves the document. *)
THEOREM DeliversOnce == Spec => []OneShot
  <1>1. KeyInv => OneShot
    BY DEF KeyInv
  <1>2. QED  BY <1>1, KeyInvHolds, PTL

(* A key that was claimed for an answer is not in the database any more. *)
THEOREM HandedKeyIsScrubbed == Spec => []HandedKeyNotStored
  <1>1. KeyInv => HandedKeyNotStored
    BY DEF KeyInv
  <1>2. QED  BY <1>1, KeyInvHolds, PTL

(* A denial that meets no approval under way is final. *)
THEOREM DenialStands == Spec => QuietDenialIsFinal
  <1>1. ASSUME TypeOK, Denied, [Next]_vars
        PROVE  Denied'
    <2> USE DEF Denied, codeVars, approvalVars
    <2>1. ASSUME NEW a \in Approvals
          PROVE  ~Check(a) /\ ~Mint(a) /\ ~SaveApproval(a) /\ ~ApprovalDies(a)
      BY <1>1 DEF Check, Mint, SaveApproval, ApprovalDies
    <2>2. ASSUME NEW a \in Approvals, Reject(a)
          PROVE  Denied'
      BY <1>1, <2>2 DEF Reject, TypeOK, ApprovalTypeOK
    <2>3. ASSUME NEW h \in Handlers, Serve(h) \/ RetryPoll(h)
          PROVE  UNCHANGED <<status, approval>>
      BY <2>3 DEF Serve, ClaimKey, ClaimUnheard, ClaimNothing, Lookup, PollThrows, Receive,
                  Discard, RetryPoll
    <2>4. ~CreateCode
      BY <1>1 DEF CreateCode, TypeOK, CliTypeOK
    <2>5. CASE Begin \/ Poll \/ AnswerSpoilt \/ ConnectionBreaks \/ Tick \/ UNCHANGED vars
      BY <2>5, <1>1 DEF Begin, Poll, AnswerSpoilt, ConnectionBreaks, Tick, vars
    <2>6. CASE Deny \/ Sweep
      BY <2>6, <1>1 DEF Deny, Sweep
    <2>7. QED  BY <1>1, <2>1, <2>2, <2>3, <2>4, <2>5, <2>6 DEF Next
  <1>2. Denied => status # "approved"
    BY DEF Denied
  <1>3. QED  BY <1>1, <1>2, TypeCorrect, PTL DEF Spec, QuietDenialIsFinal

----------------------------------------------------------------------------
(* The key on its way to the CLI *)

(* Inductive, as long as no answer is lost: every request under way is the
   one the CLI waits for, and once a key has been handed out that request
   answers with it until the CLI is logged in. *)
OnItsWay ==
    /\ cli = "polling" /\ handler[waitingOn] = "answering"
    /\ reply[waitingOn] = "approved" /\ carried[waitingOn] = handed[1]
DeliveryInv ==
    ~broken =>
        /\ \A h \in Handlers : handler[h] # "free" => cli = "polling" /\ waitingOn = h
        /\ handed # <<>> => cli = "loggedIn" \/ OnItsWay

LEMMA NextDeliveryInv ==
    ASSUME TypeOK, KeyInv, DeliveryInv, [Next]_vars
    PROVE  DeliveryInv'
  <1> SUFFICES ASSUME ~broken' PROVE DeliveryInv'
    BY DEF DeliveryInv
  <1> USE DEF handlerVars, cliVars
  <1>1. ASSUME NEW h \in Handlers, RetryPoll(h) PROVE FALSE
    BY <1>1 DEF RetryPoll
  <1>2. ~ConnectionBreaks /\ ~AnswerSpoilt /\ \A h \in Handlers : ~ClaimUnheard(h)
    BY DEF ConnectionBreaks, AnswerSpoilt, ClaimUnheard
  <1>3. ~broken
    <2>1. ASSUME NEW h \in Handlers, Serve(h) PROVE broken' = broken
      BY <1>2, <2>1 DEF Serve, ClaimKey, ClaimNothing, Lookup, PollThrows, Receive, Discard
    <2>2. ASSUME NEW a \in Approvals,
                 Check(a) \/ Reject(a) \/ Mint(a) \/ SaveApproval(a) \/ ApprovalDies(a)
          PROVE  broken' = broken
      BY <2>2 DEF Check, Reject, Mint, SaveApproval, ApprovalDies
    <2>3. QED
      BY <1>1, <1>2, <2>1, <2>2
         DEF Next, CreateCode, Begin, Poll, Deny, Sweep, Tick, vars
  <1>4. /\ \A h \in Handlers : handler[h] # "free" => cli = "polling" /\ waitingOn = h
        /\ handed # <<>> => cli = "loggedIn" \/ OnItsWay
    BY <1>3 DEF DeliveryInv
  <1>5. /\ handler \in [Handlers -> {"free", "received", "lookup", "answering"}]
        /\ reply \in [Handlers -> Replies] /\ carried \in [Handlers -> KeyIds \cup {NoKey}]
        /\ cli = "polling" => waitingOn \in Handlers
    BY DEF TypeOK, PollTypeOK, CliTypeOK
  (* What the CLI and the handlers do not see. *)
  <1>6. CASE UNCHANGED <<handlerVars, cli, waitingOn, handed>>
    BY <1>4, <1>6 DEF DeliveryInv, OnItsWay
  (* The CLI goes on, with no request under way. *)
  <1>7. CASE CreateCode \/ Begin
    BY <1>4, <1>7 DEF CreateCode, Begin, DeliveryInv, OnItsWay
  <1>8. CASE Poll
    BY <1>4, <1>5, <1>8 DEF Poll, DeliveryInv, OnItsWay
  (* The one request that is under way. *)
  <1>9. ASSUME NEW h \in Handlers, ClaimKey(h)
        PROVE  DeliveryInv'
    <2>1. handed = <<>> /\ handler[h] = "received" /\ cli = "polling" /\ waitingOn = h
      BY <1>4, <1>9 DEF ClaimKey, Claimable, KeyInv, Statuses
    <2>2. /\ handed' = <<plaintext>> /\ cli' = cli /\ waitingOn' = waitingOn
          /\ handler' = [handler EXCEPT ![h] = "answering"]
          /\ reply' = [reply EXCEPT ![h] = "approved"]
          /\ carried' = [carried EXCEPT ![h] = plaintext]
      BY <1>9, <2>1 DEF ClaimKey
    <2>3. OnItsWay'
      BY <1>5, <2>1, <2>2 DEF OnItsWay
    <2>4. \A g \in Handlers : handler'[g] # "free" => cli' = "polling" /\ waitingOn' = g
      BY <1>4, <1>5, <2>1, <2>2
    <2>5. QED  BY <2>3, <2>4 DEF DeliveryInv
  <1>10. ASSUME NEW h \in Handlers, ClaimNothing(h) \/ Lookup(h) \/ PollThrows(h)
         PROVE  DeliveryInv'
    <2>1. handler[h] \in {"received", "lookup"} /\ cli = "polling" /\ waitingOn = h
      BY <1>4, <1>10 DEF ClaimNothing, Lookup, PollThrows
    <2>2. handed = <<>>
      BY <1>4, <2>1 DEF OnItsWay
    <2>3. /\ handed' = handed /\ cli' = cli /\ waitingOn' = waitingOn
          /\ \A g \in Handlers : g # h => handler'[g] = handler[g]
      BY <1>5, <1>10 DEF ClaimNothing, Lookup, PollThrows
    <2>4. QED  BY <1>4, <2>1, <2>2, <2>3 DEF DeliveryInv
  <1>11. ASSUME NEW h \in Handlers, Receive(h)
         PROVE  DeliveryInv'
    <2>1. \A g \in Handlers : handler'[g] = "free"
      BY <1>4, <1>5, <1>11 DEF Receive, Free
    <2>2. handed # <<>> => cli' = "loggedIn"
      <3>1. handed # <<>> => reply[h] = "approved"
        BY <1>4, <1>11 DEF Receive, OnItsWay
      <3>2. reply[h] = "approved" => cli' = "loggedIn"
        BY <1>11 DEF Receive, EndsLoop
      <3>3. QED  BY <3>1, <3>2
    <2>3. handed' = handed
      BY <1>11 DEF Receive
    <2>4. QED  BY <2>1, <2>2, <2>3 DEF DeliveryInv
  <1>12. ASSUME NEW h \in Handlers, Discard(h)
         PROVE  FALSE
    BY <1>4, <1>12 DEF Discard
  <1>13. QED
    <2>1. ASSUME NEW a \in Approvals,
                 Check(a) \/ Reject(a) \/ Mint(a) \/ SaveApproval(a) \/ ApprovalDies(a)
          PROVE  UNCHANGED <<handlerVars, cli, waitingOn, handed>>
      BY <2>1 DEF Check, Reject, Mint, SaveApproval, ApprovalDies
    <2>2. CASE Deny \/ Sweep \/ Tick \/ UNCHANGED vars
      BY <1>6, <2>2 DEF Deny, Sweep, Tick, vars
    <2>3. QED
      BY <1>1, <1>2, <1>6, <1>7, <1>8, <1>9, <1>10, <1>11, <1>12, <2>1, <2>2 DEF Next, Serve

(* A key that was claimed for an answer reaches the CLI unless an answer is
   lost: no approval, denial, failed poll or expiry in between loses it. *)
THEOREM KeyArrives == Spec => []KeyNotLost
  <1>1. Init => DeliveryInv
    BY DEF Init, DeliveryInv
  <1>2. TypeOK /\ KeyInv /\ DeliveryInv /\ [Next]_vars => DeliveryInv'
    BY NextDeliveryInv
  <1>3. TypeOK /\ KeyInv /\ DeliveryInv => KeyNotLost
    <2> SUFFICES ASSUME TypeOK, KeyInv, DeliveryInv, ~broken, NEW i \in 1..Len(handed)
                 PROVE  cli = "loggedIn" \/ (cli = "polling" /\ carried[waitingOn] = handed[i])
      BY DEF KeyNotLost
    <2>1. handed \in Seq(KeyIds) /\ Len(handed) <= 1
      BY DEF TypeOK, PollTypeOK, KeyInv, OneShot
    <2>2. i = 1 /\ handed # <<>>
      BY <2>1
    <2>3. QED  BY <2>2 DEF DeliveryInv, OnItsWay
  <1>4. QED  BY <1>1, <1>2, <1>3, TypeCorrect, KeyInvHolds, PTL DEF Spec
=============================================================================
