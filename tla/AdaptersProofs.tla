----------------------------- MODULE AdaptersProofs -----------------------------
(***************************************************************************)
(* What the adapters promise of a kill and of a check, for any kinds of    *)
(* resource, actions and settings, and any number of faults.  The first    *)
(* part is about the programs the adapters are made of, one lemma for each *)
(* adapter; the second is about carrying a program out.                    *)
(***************************************************************************)
EXTENDS Adapters, SequenceTheorems, TLAPS

(************************* well-made programs ******************************)
PartNames == {"subdomain", "route", "a", "b", "run", "queries", "size", "memory", "endpoints", "unsaved",
              "svc", "svcP", "vm", "vmP", "fn", "fnP", "endpoint", "billing", "data", "self"}
StepShape == [does : {"act", "list", "each", "batch"}, of : SUBSET Kinds, removes : SUBSET PartNames,
              ok : Handlers, auth : Handlers, refused : Handlers, lost : Handlers]
HasShape(program) ==
    /\ program.steps \in Seq(StepShape)
    /\ program.says \in {"always", "never", "some"}

TakesDown(step) == step.does \in {"each", "batch"}
Final(step) == {step.auth, step.refused, step.lost} \subseteq {"false", "throw"}
Idling(step) == step.does = "act" /\ step.removes = {} /\ {step.auth, step.refused, step.lost} = {"next"}

(* What destroys data is a request of its own, and but for a Redis that    *)
(* evicts already it comes last.                                           *)
DataLast(kind, program) ==
    \A i \in 1 .. Len(program.steps) : "data" \in program.steps[i].removes =>
        /\ program.steps[i].does = "act" /\ program.steps[i].ok = "next"
        /\ kind # "redis-evicting" => i = Len(program.steps) /\ program.says = "always"

(* What is listed is taken down next, with at most one request in between. *)
Followed(program, i) ==
    \/ i + 1 <= Len(program.steps) /\ TakesDown(program.steps[i + 1])
    \/ /\ i + 2 <= Len(program.steps) /\ TakesDown(program.steps[i + 2])
       /\ program.steps[i + 1].does = "act"
Preceded(program, i) ==
    \/ /\ i - 1 >= 1 /\ program.steps[i - 1].does = "list"
       /\ program.steps[i - 1].removes = program.steps[i].removes
    \/ /\ i - 2 >= 1 /\ program.steps[i - 2].does = "list"
       /\ program.steps[i - 2].removes = program.steps[i].removes
       /\ program.steps[i - 1].does = "act"
Paired(program) ==
    \A i \in 1 .. Len(program.steps) :
        /\ program.steps[i].does = "list" => Followed(program, i)
        /\ TakesDown(program.steps[i]) => Preceded(program, i)

BestEffortKinds == Workers \cup AtlasKinds \cup MongoKinds \cup SelfHosted \cup JobKinds \cup EdgeKinds

(* No failure of a request that matters is passed over. *)
Strict(kind, program) ==
    kind \notin BestEffortKinds =>
        /\ program.says # "some"
        /\ \A i \in 1 .. Len(program.steps) : Final(program.steps[i]) \/ Idling(program.steps[i])

(* Only a request that does everything ends a kill early with a success.   *)
EndsWell(kind, program) ==
    \A i \in 1 .. Len(program.steps) :
        \/ program.steps[i].ok = "next"
        \/ /\ program.steps[i].ok = "true" /\ program.steps[i].does = "act"
           /\ \A j \in 1 .. Len(program.steps) : program.steps[j].removes \subseteq program.steps[i].removes
           /\ program.steps[i].removes \cap Parts(kind) # {}
           /\ Levers(kind) \subseteq program.steps[i].removes

(* A program that can succeed takes a part of the kind away and pulls all  *)
(* the levers that the action reaches, or asks something of it that does   *)
(* not apply to its kind.                                                  *)
Wanted(kind, action) == Levers(kind) \ (Unreached(kind, action) \cup Protected)
Misses(kind, step) ==
    /\ step.does = "act" /\ kind \notin step.of
    /\ kind \in BestEffortKinds \/ Final(step)
Achieves(kind, action, program) ==
    \/ program.says = "never"
    \/ /\ \E i \in 1 .. Len(program.steps) : program.steps[i].removes \cap Parts(kind) # {}
       /\ \A part \in Wanted(kind, action) :
             \E i \in 1 .. Len(program.steps) : part \in program.steps[i].removes
    \/ \E i \in 1 .. Len(program.steps) : Misses(kind, program.steps[i])

WellMade(kind, program) ==
    /\ HasShape(program) /\ DataLast(kind, program) /\ Paired(program)
    /\ Strict(kind, program) /\ EndsWell(kind, program)


(* Short sequences, put together. *)
LEMMA Tuples ==
  ASSUME NEW S, NEW a \in S, NEW b \in S
  PROVE  /\ <<a>> \in Seq(S) /\ <<a, b>> \in Seq(S) /\ <<a>> \o <<>> = <<a>> /\ <<a>> \o <<b>> = <<a, b>>
  <1>1. <<a>> \in Seq(S) /\ <<b>> \in Seq(S) /\ <<a, b>> \in Seq(S)
    OBVIOUS
  <1>2. /\ <<a>> \o <<b>> \in Seq(S) /\ Len(<<a>> \o <<b>>) = 2
        /\ (<<a>> \o <<b>>)[1] = a /\ (<<a>> \o <<b>>)[2] = b
    BY <1>1
  <1>3. Len(<<a, b>>) = 2 /\ <<a, b>>[1] = a /\ <<a, b>>[2] = b /\ 1 .. 2 = {1, 2}
    OBVIOUS
  <1>4. <<a>> \o <<b>> = <<a, b>>
    BY <1>1, <1>2, <1>3, SeqEqual
  <1>5. <<a>> \o <<>> = <<a>>
    BY <1>1, ConcatEmptySeq
  <1> QED BY <1>1, <1>4, <1>5

LEMMA Triples ==
  ASSUME NEW S, NEW a \in S, NEW b \in S, NEW c \in S
  PROVE  <<a>> \o <<b, c>> = <<a, b, c>>
  <1>1. <<a>> \in Seq(S) /\ <<b, c>> \in Seq(S) /\ <<a, b, c>> \in Seq(S)
    OBVIOUS
  <1>2. /\ <<a>> \o <<b, c>> \in Seq(S) /\ Len(<<a>> \o <<b, c>>) = 3
        /\ (<<a>> \o <<b, c>>)[1] = a /\ (<<a>> \o <<b, c>>)[2] = b /\ (<<a>> \o <<b, c>>)[3] = c
    BY <1>1
  <1>3. /\ Len(<<a, b, c>>) = 3 /\ <<a, b, c>>[1] = a /\ <<a, b, c>>[2] = b /\ <<a, b, c>>[3] = c
        /\ 1 .. 3 = {1, 2, 3}
    OBVIOUS
  <1> QED BY <1>1, <1>2, <1>3, SeqEqual

LEMMA Quadruples ==
  ASSUME NEW S, NEW a \in S, NEW b \in S, NEW c \in S, NEW d \in S
  PROVE  <<a>> \o <<b, c, d>> = <<a, b, c, d>>
  <1>1. <<a>> \in Seq(S) /\ <<b, c, d>> \in Seq(S) /\ <<a, b, c, d>> \in Seq(S)
    OBVIOUS
  <1>2. /\ <<a>> \o <<b, c, d>> \in Seq(S) /\ Len(<<a>> \o <<b, c, d>>) = 4
        /\ (<<a>> \o <<b, c, d>>)[1] = a /\ (<<a>> \o <<b, c, d>>)[2] = b
        /\ (<<a>> \o <<b, c, d>>)[3] = c /\ (<<a>> \o <<b, c, d>>)[4] = d
    BY <1>1
  <1>3. /\ Len(<<a, b, c, d>>) = 4 /\ <<a, b, c, d>>[1] = a /\ <<a, b, c, d>>[2] = b
        /\ <<a, b, c, d>>[3] = c /\ <<a, b, c, d>>[4] = d /\ 1 .. 4 = {1, 2, 3, 4}
    OBVIOUS
  <1> QED BY <1>1, <1>2, <1>3, SeqEqual

(* The parts programs are put together from. *)
LEMMA StepFields ==
  ASSUME NEW of \in SUBSET Kinds, NEW removes \in SUBSET PartNames,
         NEW refused \in Handlers, NEW lost \in Handlers
  PROVE  LET step == Step(of, removes, refused, lost) IN
         /\ step \in StepShape /\ step.does = "act" /\ step.of = of /\ step.removes = removes
         /\ step.ok = "next" /\ step.auth = refused /\ step.refused = refused /\ step.lost = lost
  BY DEF Step, StepShape, Handlers

LEMMA PairFields ==
  ASSUME NEW removes \in SUBSET PartNames, NEW refused \in Handlers, NEW lost \in Handlers
  PROVE  /\ Listing(removes, refused, lost).does = "list"
         /\ TakesDown(Each(removes, refused, lost)) /\ TakesDown(Batch(removes, refused, lost))
         /\ \A step \in {Listing(removes, refused, lost), Each(removes, refused, lost),
                          Batch(removes, refused, lost)} :
              /\ step \in StepShape /\ step.removes = removes /\ step.ok = "next"
              /\ step.auth = refused /\ step.refused = refused /\ step.lost = lost
  BY DEF Step, Listing, Each, Batch, StepShape, Handlers, TakesDown

Careful(kind, step) == kind \in BestEffortKinds \/ Final(step) \/ Idling(step)

LEMMA Single ==
  ASSUME NEW kind, NEW step \in StepShape, step.does = "act", step.ok = "next", Careful(kind, step)
  PROVE  WellMade(kind, Runs(<<step>>))
  <1> DEFINE program == Runs(<<step>>)
  <1>1. /\ program.steps = <<step>> /\ program.says = "always" /\ Len(program.steps) = 1
        /\ program.steps[1] = step
    BY DEF Runs, Program
  <1> HIDE DEF program
  <1>2. HasShape(program)
    BY <1>1 DEF HasShape
  <1>3. DataLast(kind, program)
    BY <1>1 DEF DataLast
  <1>4. Paired(program)
    BY <1>1 DEF Paired, TakesDown
  <1>5. Strict(kind, program)
    BY <1>1 DEF Strict, Careful
  <1>6. EndsWell(kind, program)
    BY <1>1 DEF EndsWell
  <1> QED BY <1>2, <1>3, <1>4, <1>5, <1>6 DEF WellMade, program

LEMMA Nothing ==
  ASSUME NEW kind, NEW says \in {"always", "never"}
  PROVE  WellMade(kind, Program(<<>>, says))
  <1> DEFINE program == Program(<<>>, says)
  <1>1. program.steps = <<>> /\ program.says = says /\ Len(program.steps) = 0
    BY DEF Program
  <1> HIDE DEF program
  <1>2. HasShape(program)
    BY <1>1 DEF HasShape
  <1> QED BY <1>1, <1>2 DEF WellMade, DataLast, Paired, Strict, EndsWell, program

(* Requests that leave data alone and go on. *)
Leads(steps) == \A i \in 1 .. Len(steps) : "data" \notin steps[i].removes /\ steps[i].ok = "next"

LEMMA Swept ==
  ASSUME NEW kind, NEW list \in StepShape, NEW each \in StepShape,
         list.does = "list", TakesDown(each), list.removes = each.removes,
         "data" \notin list.removes, list.ok = "next", each.ok = "next",
         Careful(kind, list), Careful(kind, each)
  PROVE  /\ WellMade(kind, Runs(<<list, each>>)) /\ Leads(<<list, each>>)
         /\ kind \in BestEffortKinds => WellMade(kind, Counts(<<list, each>>))
  <1>s. SUFFICES ASSUME NEW says \in {"always", "some"}, says = "some" => kind \in BestEffortKinds
                 PROVE  WellMade(kind, Program(<<list, each>>, says))
    <2>1. Leads(<<list, each>>)
      BY DEF Leads
    <2> QED BY <2>1, <1>s DEF Runs, Counts
  <1> DEFINE program == Program(<<list, each>>, says)
  <1>1. /\ program.steps = <<list, each>> /\ program.says = says /\ Len(program.steps) = 2
        /\ program.steps[1] = list /\ program.steps[2] = each
    BY DEF Program
  <1>a. 1 .. 2 = {1, 2}
    OBVIOUS
  <1> HIDE DEF program
  <1>2. HasShape(program)
    BY <1>1 DEF HasShape
  <1>3. DataLast(kind, program)
    BY <1>1, <1>a DEF DataLast
  <1>4. Paired(program)
    <2>1. Followed(program, 1) /\ Preceded(program, 2)
      BY <1>1 DEF Followed, Preceded
    <2> QED BY <1>1, <1>a, <2>1 DEF Paired, TakesDown
  <1>5. Strict(kind, program)
    BY <1>1, <1>a, <1>s DEF Strict, Careful
  <1>6. EndsWell(kind, program)
    BY <1>1, <1>a DEF EndsWell
  <1> QED BY <1>2, <1>3, <1>4, <1>5, <1>6 DEF WellMade, program

(* A listing and its items may have a request between them, or one before  *)
(* them that does it all at once.                                          *)
LEMMA Between ==
  ASSUME NEW kind, NEW list \in StepShape, NEW act \in StepShape, NEW each \in StepShape,
         list.does = "list", act.does = "act", TakesDown(each), list.removes = each.removes,
         "data" \notin list.removes, "data" \notin act.removes,
         list.ok = "next", act.ok = "next", each.ok = "next",
         Careful(kind, list), Careful(kind, act), Careful(kind, each)
  PROVE  WellMade(kind, Runs(<<list, act, each>>))
  <1> DEFINE program == Runs(<<list, act, each>>)
  <1>1. /\ program.steps = <<list, act, each>> /\ program.says = "always" /\ Len(program.steps) = 3
        /\ program.steps[1] = list /\ program.steps[2] = act /\ program.steps[3] = each
    BY DEF Runs, Program
  <1>a. 1 .. 3 = {1, 2, 3}
    OBVIOUS
  <1> HIDE DEF program
  <1>2. HasShape(program)
    BY <1>1 DEF HasShape
  <1>3. DataLast(kind, program)
    BY <1>1, <1>a DEF DataLast
  <1>4. Paired(program)
    <2>1. Followed(program, 1) /\ Preceded(program, 3)
      BY <1>1 DEF Followed, Preceded
    <2> QED BY <1>1, <1>a, <2>1 DEF Paired, TakesDown
  <1>5. Strict(kind, program)
    BY <1>1, <1>a DEF Strict, Careful
  <1>6. EndsWell(kind, program)
    BY <1>1, <1>a DEF EndsWell
  <1> QED BY <1>2, <1>3, <1>4, <1>5, <1>6 DEF WellMade, program

LEMMA Preferred ==
  ASSUME NEW kind \in BestEffortKinds,
         NEW act \in StepShape, NEW list \in StepShape, NEW each \in StepShape,
         act.does = "act", list.does = "list", TakesDown(each), act.removes = list.removes,
         list.removes = each.removes, "data" \notin list.removes,
         list.removes \cap Parts(kind) # {}, Levers(kind) \subseteq list.removes,
         act.ok = "true", list.ok = "next", each.ok = "next"
  PROVE  WellMade(kind, Runs(<<act, list, each>>))
  <1> DEFINE program == Runs(<<act, list, each>>)
  <1>1. /\ program.steps = <<act, list, each>> /\ program.says = "always" /\ Len(program.steps) = 3
        /\ program.steps[1] = act /\ program.steps[2] = list /\ program.steps[3] = each
    BY DEF Runs, Program
  <1>a. 1 .. 3 = {1, 2, 3}
    OBVIOUS
  <1> HIDE DEF program
  <1>2. HasShape(program)
    BY <1>1 DEF HasShape
  <1>3. DataLast(kind, program)
    BY <1>1, <1>a DEF DataLast
  <1>4. Paired(program)
    <2>1. Followed(program, 2) /\ Preceded(program, 3)
      BY <1>1 DEF Followed, Preceded
    <2> QED BY <1>1, <1>a, <2>1 DEF Paired, TakesDown
  <1>5. Strict(kind, program)
    BY DEF Strict
  <1>6. EndsWell(kind, program)
    BY <1>1, <1>a DEF EndsWell
  <1> QED BY <1>2, <1>3, <1>4, <1>5, <1>6 DEF WellMade, program

(* One program after another. *)
LEMMA Joined ==
  ASSUME NEW kind, NEW before, NEW after, NEW says,
         Leads(before), WellMade(kind, Runs(before)), WellMade(kind, Program(after, says)),
         \/ \A i \in 1 .. Len(before) : before[i].removes = {}
         \/ \A i \in 1 .. Len(after) : after[i].ok = "next"
  PROVE  WellMade(kind, Program(before \o after, says))
  <1> DEFINE first == Runs(before)
             rest == Program(after, says)
             program == Program(before \o after, says)
             n == Len(before)
  <1>1. /\ first.steps = before /\ rest.steps = after /\ rest.says = says
        /\ before \in Seq(StepShape) /\ after \in Seq(StepShape)
    BY DEF Runs, Program, WellMade, HasShape
  <1>2. /\ program.steps = before \o after /\ program.says = says
        /\ program.steps \in Seq(StepShape) /\ n \in Nat /\ Len(after) \in Nat
        /\ Len(program.steps) = n + Len(after)
        /\ \A i \in 1 .. n : program.steps[i] = before[i]
        /\ \A i \in 1 .. Len(after) : program.steps[i + n] = after[i]
    BY <1>1 DEF Program
  <1>3. \A i \in 1 .. Len(program.steps) :
            \/ i \in 1 .. n /\ program.steps[i] = before[i]
            \/ i - n \in 1 .. Len(after) /\ program.steps[i] = after[i - n]
    BY <1>2
  <1> HIDE DEF first, rest, program, n
  <1>4. HasShape(program)
    BY <1>1, <1>2 DEF HasShape, WellMade, rest
  <1>5. DataLast(kind, program)
    <2>1. DataLast(kind, rest)
      BY DEF WellMade, rest
    <2> QED BY <1>1, <1>2, <1>3, <2>1 DEF DataLast, Leads, n
  <1>6. Paired(program)
    <2>1. /\ \A i \in 1 .. Len(after) : after[i].does = "list" => Followed(rest, i)
          /\ \A i \in 1 .. Len(after) : TakesDown(after[i]) => Preceded(rest, i)
          /\ \A i \in 1 .. n : before[i].does = "list" => Followed(first, i)
          /\ \A i \in 1 .. n : TakesDown(before[i]) => Preceded(first, i)
      BY <1>1 DEF WellMade, Paired, rest, first, n
    <2>0. \A k \in 1 .. Len(program.steps) : k - n \in 1 .. Len(after) =>
                                                program.steps[k] = after[k - n]
      BY <1>2, <1>3
    <2>2. ASSUME NEW i \in 1 .. Len(after), Followed(rest, i) PROVE Followed(program, i + n)
      <3>1. /\ (i + n) + 1 - n = i + 1 /\ (i + n) + 2 - n = i + 2
            /\ i + 1 <= Len(after) => (i + n) + 1 \in 1 .. Len(program.steps)
            /\ i + 2 <= Len(after) => (i + n) + 2 \in 1 .. Len(program.steps)
        BY <1>2
      <3>2. /\ i + 1 <= Len(after) => program.steps[(i + n) + 1] = after[i + 1]
            /\ i + 2 <= Len(after) => program.steps[(i + n) + 2] = after[i + 2]
        BY <3>1, <2>0, <1>2
      <3> QED BY <1>1, <1>2, <2>2, <3>1, <3>2 DEF Followed
    <2>3. ASSUME NEW i \in 1 .. Len(after), Preceded(rest, i) PROVE Preceded(program, i + n)
      <3>1. program.steps[i + n] = after[i]
        BY <1>2
      <3>2. CASE /\ i - 1 >= 1 /\ rest.steps[i - 1].does = "list"
                 /\ rest.steps[i - 1].removes = rest.steps[i].removes
        <4>1. i - 1 \in 1 .. Len(after) /\ (i - 1) + n = (i + n) - 1
          BY <3>2, <1>2
        <4>2. program.steps[(i + n) - 1] = after[i - 1]
          BY <4>1, <1>2
        <4> QED BY <1>1, <1>2, <3>1, <3>2, <4>1, <4>2 DEF Preceded
      <3>3. CASE /\ i - 2 >= 1 /\ rest.steps[i - 2].does = "list"
                 /\ rest.steps[i - 2].removes = rest.steps[i].removes
                 /\ rest.steps[i - 1].does = "act"
        <4>1. /\ i - 1 \in 1 .. Len(after) /\ (i - 1) + n = (i + n) - 1
              /\ i - 2 \in 1 .. Len(after) /\ (i - 2) + n = (i + n) - 2
          BY <3>3, <1>2
        <4>2. program.steps[(i + n) - 1] = after[i - 1] /\ program.steps[(i + n) - 2] = after[i - 2]
          BY <4>1, <1>2
        <4> QED BY <1>1, <1>2, <3>1, <3>3, <4>1, <4>2 DEF Preceded
      <3> QED BY <2>3, <3>2, <3>3 DEF Preceded
    <2>4. ASSUME NEW i \in 1 .. n, Followed(first, i) PROVE Followed(program, i)
      BY <1>1, <1>2, <2>4 DEF Followed, TakesDown, n
    <2>5. ASSUME NEW i \in 1 .. n, Preceded(first, i) PROVE Preceded(program, i)
      BY <1>1, <1>2, <2>5 DEF Preceded, n
    <2>6. ASSUME NEW i \in 1 .. Len(program.steps)
          PROVE  /\ program.steps[i].does = "list" => Followed(program, i)
                 /\ TakesDown(program.steps[i]) => Preceded(program, i)
      <3>1. CASE i \in 1 .. n /\ program.steps[i] = before[i]
        BY <3>1, <2>1, <2>4, <2>5
      <3>2. CASE i - n \in 1 .. Len(after) /\ program.steps[i] = after[i - n]
        <4> DEFINE k == i - n
        <4>1. k + n = i /\ k \in 1 .. Len(after) /\ program.steps[i] = after[k]
          BY <3>2, <1>2
        <4> HIDE DEF k
        <4> QED BY <4>1, <2>1, <2>2, <2>3
      <3> QED BY <3>1, <3>2, <1>3
    <2> QED BY <2>6 DEF Paired
  <1>7. Strict(kind, program)
    <2>1. Strict(kind, first) /\ Strict(kind, rest)
      BY DEF WellMade, rest, first
    <2> QED BY <1>1, <1>2, <1>3, <2>1 DEF Strict, n
  <1>8. EndsWell(kind, program)
    <2>1. EndsWell(kind, rest)
      BY DEF WellMade, rest
    <2>2. ASSUME NEW i \in 1 .. Len(program.steps), program.steps[i].ok # "next"
          PROVE  /\ program.steps[i].ok = "true" /\ program.steps[i].does = "act"
                 /\ \A j \in 1 .. Len(program.steps) : program.steps[j].removes \subseteq program.steps[i].removes
                 /\ program.steps[i].removes \cap Parts(kind) # {}
                 /\ Levers(kind) \subseteq program.steps[i].removes
      <3>1. i - n \in 1 .. Len(after) /\ program.steps[i] = after[i - n]
        BY <1>3, <2>2 DEF Leads, n
      <3>2. /\ after[i - n].ok = "true" /\ after[i - n].does = "act"
            /\ \A j \in 1 .. Len(after) : after[j].removes \subseteq after[i - n].removes
            /\ after[i - n].removes \cap Parts(kind) # {}
            /\ Levers(kind) \subseteq after[i - n].removes
        BY <1>1, <2>1, <2>2, <3>1 DEF EndsWell
      <3>3. \A j \in 1 .. n : before[j].removes = {}
        BY <2>2, <3>1 DEF n
      <3>4. ASSUME NEW j \in 1 .. Len(program.steps)
            PROVE  program.steps[j].removes \subseteq program.steps[i].removes
        <4>1. CASE j \in 1 .. n /\ program.steps[j] = before[j]
          BY <4>1, <3>3
        <4>2. CASE j - n \in 1 .. Len(after) /\ program.steps[j] = after[j - n]
          BY <4>2, <3>1, <3>2
        <4> QED BY <4>1, <4>2, <1>3
      <3> QED BY <3>1, <3>2, <3>4
    <2> QED BY <2>2 DEF EndsWell
  <1> QED BY <1>4, <1>5, <1>6, <1>7, <1>8 DEF WellMade, program

Alone(kind, step) == step \in StepShape /\ step.does = "act" /\ step.ok = "next" /\ Careful(kind, step)
Harmless(step)    == "data" \notin step.removes

(* One, two or three requests, the last of which may destroy data. *)
LEMMA Requests ==
  ASSUME NEW kind, NEW a, NEW b, NEW c, Alone(kind, a), Alone(kind, b), Alone(kind, c)
  PROVE  /\ WellMade(kind, Runs(<<a>>))
         /\ Harmless(a) => WellMade(kind, Runs(<<a, b>>))
         /\ Harmless(a) /\ Harmless(b) => WellMade(kind, Runs(<<a, b, c>>))
         /\ Harmless(a) => WellMade(kind, Program(<<a>>, "never"))
  <1>1. WellMade(kind, Runs(<<a>>)) /\ WellMade(kind, Runs(<<b>>)) /\ WellMade(kind, Runs(<<c>>))
    BY Single DEF Alone
  <1>2. ASSUME NEW x, Alone(kind, x), Harmless(x) PROVE Leads(<<x>>)
    BY <1>2 DEF Leads, Alone, Harmless
  <1>3. /\ a \in StepShape /\ b \in StepShape /\ c \in StepShape
        /\ a.ok = "next" /\ b.ok = "next" /\ c.ok = "next"
    BY DEF Alone
  <1>a. /\ \A i \in 1 .. Len(<<b>>) : <<b>>[i].ok = "next"
        /\ \A i \in 1 .. Len(<<c>>) : <<c>>[i].ok = "next"
        /\ \A i \in 1 .. Len(<<b, c>>) : <<b, c>>[i].ok = "next"
        /\ \A i \in 1 .. Len(<<>>) : <<>>[i].ok = "next"
    BY <1>3
  <1>b. /\ <<a>> \o <<b>> = <<a, b>> /\ <<a>> \o <<b, c>> = <<a, b, c>> /\ <<b>> \o <<c>> = <<b, c>>
        /\ <<a>> \o <<>> = <<a>>
    <2>1. <<a>> \o <<b>> = <<a, b>> /\ <<a>> \o <<b, c>> = <<a, b, c>> /\ <<a>> \o <<>> = <<a>>
      BY <1>3, Tuples, Triples
    <2>2. <<b>> \o <<c>> = <<b, c>>
      BY <1>3, Tuples
    <2> QED BY <2>1, <2>2
  <1>4. ASSUME Harmless(a) PROVE WellMade(kind, Runs(<<a, b>>))
    BY <1>1, <1>2, <1>a, <1>b, <1>4, Joined DEF Runs
  <1>5. ASSUME Harmless(b) PROVE WellMade(kind, Runs(<<b, c>>))
    BY <1>1, <1>2, <1>a, <1>b, <1>5, Joined DEF Runs
  <1>6. ASSUME Harmless(a), Harmless(b) PROVE WellMade(kind, Runs(<<a, b, c>>))
    BY <1>1, <1>2, <1>a, <1>b, <1>5, <1>6, Joined DEF Runs
  <1>7. ASSUME Harmless(a) PROVE WellMade(kind, Program(<<a>>, "never"))
    BY <1>1, <1>2, <1>a, <1>b, <1>7, Joined, Nothing
  <1> QED BY <1>1, <1>4, <1>6, <1>7

(* A request that changes nothing may come before anything else. *)
LEMMA Opening ==
  ASSUME NEW kind, NEW a, Alone(kind, a), a.removes = {}
  PROVE  /\ WellMade(kind, Runs(<<a>>)) /\ Leads(<<a>>)
         /\ \A i \in 1 .. Len(<<a>>) : <<a>>[i].removes = {}
  <1>1. WellMade(kind, Runs(<<a>>))
    BY Single DEF Alone
  <1>2. Leads(<<a>>)
    BY DEF Leads, Alone
  <1>3. \A i \in 1 .. Len(<<a>>) : <<a>>[i].removes = {}
    OBVIOUS
  <1> QED BY <1>1, <1>2, <1>3

LEMMA Asking ==
  ASSUME NEW kind, NEW of \in SUBSET Kinds, NEW removes \in SUBSET PartNames
  PROVE  \A step \in {Must(of, removes), Fail(of, removes), Asks(of, removes)} :
                Alone(kind, step) /\ Final(step) /\ step.of = of /\ step.removes = removes
  <1>1. /\ Must(of, removes) = Step(of, removes, "throw", "throw")
        /\ Fail(of, removes) = Step(of, removes, "false", "false")
        /\ Asks(of, removes) = Step(of, removes, "false", "throw")
    BY DEF Must, Fail, Asks
  <1>2. ASSUME NEW refused \in {"false", "throw"}, NEW lost \in {"false", "throw"}
        PROVE  LET step == Step(of, removes, refused, lost) IN
               /\ step \in StepShape /\ step.does = "act" /\ step.of = of /\ step.removes = removes
               /\ step.ok = "next" /\ step.auth = refused /\ step.refused = refused /\ step.lost = lost
    BY StepFields DEF Handlers
  <1> QED BY <1>1, <1>2 DEF Alone, Careful, Final

LEMMA Trying ==
  ASSUME NEW kind, NEW of \in SUBSET Kinds, NEW removes \in SUBSET PartNames,
         kind \in BestEffortKinds \/ removes = {}
  PROVE  Alone(kind, Try(of, removes)) /\ Try(of, removes).removes = removes
  BY StepFields DEF Try, Handlers, Alone, Careful, Idling

(* The kinds a request may be about. *)
LEMMA OfKinds ==
  /\ {} \subseteq Kinds /\ CfKinds \subseteq Kinds /\ GcpKinds \subseteq Kinds /\ AwsKinds \subseteq Kinds
  /\ DataKinds \subseteq Kinds /\ ComputeKinds \subseteq Kinds
  BY DEF Kinds

LEMMA CfWellMade ==
  ASSUME NEW kind \in CfKinds, NEW action
  PROVE  WellMade(kind, CloudflareKill(kind, action))
  <1> DEFINE program == CloudflareKill(kind, action)
  <1>1. \/ program \in {Unsupported, PauseZone, DisableArgo, DeleteR2Bucket, DeleteD1Database,
                       DeleteQueue, DisableLiveInput, DeleteWorker}
        \/ program = DisconnectWorker /\ kind = "worker"
    BY DEF CloudflareKill, CfKinds, Workers
  <1>2. WellMade(kind, Unsupported)
    BY Nothing DEF Unsupported
  <1>3. ASSUME NEW of \in SUBSET CfKinds, NEW removes \in SUBSET PartNames
        PROVE  WellMade(kind, Runs(<<Asks(of, removes)>>))
    <2>1. of \in SUBSET Kinds
      BY OfKinds
    <2>2. Alone(kind, Asks(of, removes))
      BY <2>1, Asking
    <2> QED BY <2>2, Requests
  <1>4. /\ Workers \in SUBSET CfKinds /\ {"r2"} \in SUBSET CfKinds /\ {"d1-id"} \in SUBSET CfKinds
        /\ {"stream"} \in SUBSET CfKinds /\ {"zone"} \in SUBSET CfKinds /\ {} \in SUBSET CfKinds
    BY DEF Workers, CfKinds
  <1>7. /\ Everything \in SUBSET PartNames /\ {"run"} \in SUBSET PartNames /\ {"a"} \in SUBSET PartNames
        /\ {"subdomain"} \in SUBSET PartNames /\ {"a", "b"} \in SUBSET PartNames
    BY DEF Everything, PartNames
  <1>5. \A other \in {PauseZone, DisableArgo, DeleteR2Bucket, DeleteD1Database,
                      DeleteQueue, DisableLiveInput, DeleteWorker} : WellMade(kind, other)
    BY <1>3, <1>4, <1>7 DEF PauseZone, DisableArgo, DeleteR2Bucket, DeleteD1Database,
                      DeleteQueue, DisableLiveInput, DeleteWorker
  <1>6. ASSUME kind = "worker" PROVE WellMade(kind, DisconnectWorker)
    <2> DEFINE first == Try(Workers, {"subdomain"})
               list == Listing({"a", "b"}, "true", "true")
               each == Each({"a", "b"}, "next", "true")
    <2>1. kind \in BestEffortKinds
      BY <1>6 DEF BestEffortKinds, Workers
    <2>2. Alone(kind, first) /\ first.removes = {"subdomain"}
      <3>1. Workers \in SUBSET Kinds
        BY OfKinds, <1>4
      <3> QED BY <2>1, <3>1, <1>7, Trying
    <2>3. /\ list \in StepShape /\ list.removes = {"a", "b"} /\ list.ok = "next" /\ list.does = "list"
          /\ each \in StepShape /\ each.removes = {"a", "b"} /\ each.ok = "next" /\ TakesDown(each)
      <3>1. {"true", "next"} \subseteq Handlers
        BY DEF Handlers
      <3> QED BY <3>1, <1>7, PairFields
    <2>4. WellMade(kind, Runs(<<list, each>>)) /\ WellMade(kind, Runs(<<first>>))
      BY <2>1, <2>2, <2>3, Swept, Requests DEF Careful
    <2> HIDE DEF first, list, each
    <2>5. /\ Leads(<<first>>) /\ <<first>> \o <<list, each>> = <<first, list, each>>
          /\ \A i \in 1 .. Len(<<list, each>>) : <<list, each>>[i].ok = "next"
      BY <2>2, <2>3, Triples DEF Leads, Alone
    <2>6. WellMade(kind, Runs(<<first, list, each>>))
      BY <2>4, <2>5, Joined DEF Runs
    <2> QED BY <2>6 DEF DisconnectWorker, first, list, each
  <1> QED BY <1>1, <1>2, <1>5, <1>6

(* The settings a request may be aimed at, as sets of names. *)
LEMMA OfParts ==
  /\ {} \in SUBSET PartNames /\ {"run"} \in SUBSET PartNames /\ {"queries"} \in SUBSET PartNames
  /\ {"run", "b", "queries"} \in SUBSET PartNames /\ {"memory", "data"} \in SUBSET PartNames
  /\ {"size"} \in SUBSET PartNames /\ {"a", "b"} \in SUBSET PartNames
  /\ {"data"} \in SUBSET PartNames /\ {"memory"} \in SUBSET PartNames /\ {"unsaved"} \in SUBSET PartNames
  /\ {"run", "a", "b"} \in SUBSET PartNames /\ {"run", "data", "self"} \in SUBSET PartNames
  /\ Endpoint \in SUBSET PartNames /\ Everything \in SUBSET PartNames /\ Whole \in SUBSET PartNames
  BY DEF PartNames, Endpoint, Everything, Whole

LEMMA GcpWellMade ==
  ASSUME NEW kind, NEW action
  PROVE  WellMade(kind, GcpKill(kind, action))
  <1>1. /\ {} \in SUBSET Kinds /\ GcpKinds \in SUBSET Kinds /\ {"cloud-run"} \in SUBSET Kinds
        /\ {"compute"} \in SUBSET Kinds /\ {"gke"} \in SUBSET Kinds /\ {"gcf"} \in SUBSET Kinds
    BY OfKinds DEF GcpKinds
  <1>2. Alone(kind, AccessToken) /\ AccessToken.removes = {}
    BY <1>1, OfParts, Asking DEF AccessToken
  <1>3. WellMade(kind, Runs(<<AccessToken>>)) /\ Leads(<<AccessToken>>)
    BY <1>2, Opening
  <1>4. \A i \in 1 .. Len(<<AccessToken>>) : <<AccessToken>>[i].removes = {}
    BY <1>2
  <1>5. GcpAction(kind, action) \in {DisableProjectBilling, DisableGCPService, SetBigQueryQuota,
            StopComputeInstance, ScaleGKENodePool, ScaleCloudFunction, ScaleDownService}
    BY DEF GcpAction
  <1>6. /\ WellMade(kind, Runs(DisableProjectBilling)) /\ WellMade(kind, Runs(SetBigQueryQuota))
        /\ WellMade(kind, Runs(DisableGCPService))
    <2>1. Alone(kind, Asks(GcpKinds, {"run", "b", "queries"})) /\ Alone(kind, Asks(GcpKinds, {"queries"}))
      BY <1>1, OfParts, Asking
    <2>2. Alone(kind, Asks({}, {}))
      BY <1>1, OfParts, Asking
    <2> QED BY <2>1, <2>2, Requests DEF DisableProjectBilling, SetBigQueryQuota, DisableGCPService
  <1>7. WellMade(kind, Runs(StopComputeInstance)) /\ WellMade(kind, Runs(ScaleGKENodePool))
    <2>1. Alone(kind, Asks({"compute"}, {"run"})) /\ Alone(kind, Asks({"gke"}, {"run"}))
      BY <1>1, OfParts, Asking
    <2> QED BY <2>1, Requests DEF StopComputeInstance, ScaleGKENodePool
  <1>8. WellMade(kind, Runs(ScaleCloudFunction))
    <2>1. /\ Alone(kind, Asks({"gcf"}, {})) /\ Asks({"gcf"}, {}).removes = {}
          /\ Alone(kind, Asks({"gcf"}, {"run"}))
      BY <1>1, OfParts, Asking
    <2> QED BY <2>1, Requests DEF ScaleCloudFunction, Harmless
  <1>9. WellMade(kind, Runs(ScaleDownService))
    <2>1. /\ Alone(kind, Fail({"cloud-run"}, {})) /\ Fail({"cloud-run"}, {}).removes = {}
          /\ Alone(kind, Fail({"cloud-run"}, {"run"}))
      BY <1>1, OfParts, Asking
    <2> QED BY <2>1, Requests DEF ScaleDownService, Harmless
  <1>10. WellMade(kind, Runs(GcpAction(kind, action)))
    BY <1>5, <1>6, <1>7, <1>8, <1>9
  <1>11. WellMade(kind, Runs(<<AccessToken>> \o GcpAction(kind, action)))
    BY <1>3, <1>4, <1>10, Joined DEF Runs
  <1>12. WellMade(kind, Runs(<<>>))
    BY Nothing DEF Runs
  <1> QED BY <1>11, <1>12 DEF GcpKill

LEMMA AwsWellMade ==
  ASSUME NEW kind, NEW action, NEW role \in BOOLEAN
  PROVE  WellMade(kind, AwsKill(kind, action, role))
  <1> DEFINE says == IF AwsAction(kind, action) = Refuses THEN "never" ELSE "always"
  <1>1. /\ AwsKinds \in SUBSET Kinds /\ {"ec2"} \in SUBSET Kinds /\ {"lambda"} \in SUBSET Kinds
        /\ {"rds"} \in SUBSET Kinds /\ {"ecs"} \in SUBSET Kinds /\ {"eks"} \in SUBSET Kinds
        /\ {"s3"} \in SUBSET Kinds /\ {"sagemaker"} \in SUBSET Kinds
    BY OfKinds DEF AwsKinds
  <1>2. Refuses = <<>>
    BY DEF Refuses, Unsupported, Program
  <1>3. WellMade(kind, Runs(AwsCredentials(role))) /\ Leads(AwsCredentials(role))
        /\ \A i \in 1 .. Len(AwsCredentials(role)) : AwsCredentials(role)[i].removes = {}
    <2>1. Alone(kind, Must(AwsKinds, {})) /\ Must(AwsKinds, {}).removes = {}
      BY <1>1, OfParts, Asking
    <2>2. CASE role
      BY <2>1, <2>2, Opening DEF AwsCredentials
    <2>3. CASE ~role
      BY <2>3, Nothing DEF AwsCredentials, Leads, Runs
    <2> QED BY <2>2, <2>3
  <1>4. AwsAction(kind, action) \in {StopRDSInstance, StopEC2Instances, TerminateEC2Instances, ThrottleLambda,
            DenyS3BucketPolicy, DeleteSageMakerEndpoint, ScaleECSService, ScaleEKSNodeGroup, Refuses}
    BY DEF AwsAction, AwsByType
  <1>5. Alone(kind, TagInstances) /\ TagInstances.removes = {}
    BY <1>1, OfParts, Trying DEF TagInstances
  <1>6. WellMade(kind, Runs(StopEC2Instances))
    <2>1. Alone(kind, Fail({"ec2"}, {"run"})) /\ Fail({"ec2"}, {"run"}).removes = {"run"}
      BY <1>1, OfParts, Asking
    <2> QED BY <2>1, <1>5, Requests DEF StopEC2Instances, Harmless
  <1>7. WellMade(kind, Runs(TerminateEC2Instances))
    <2>1. Alone(kind, Fail({"ec2"}, Everything))
      BY <1>1, OfParts, Asking
    <2> QED BY <2>1, <1>5, Requests DEF TerminateEC2Instances, Harmless
  <1>8. /\ WellMade(kind, Runs(StopRDSInstance)) /\ WellMade(kind, Runs(ThrottleLambda))
        /\ WellMade(kind, Runs(DenyS3BucketPolicy))
    <2>1. /\ Alone(kind, Fail({"rds"}, {"run"})) /\ Alone(kind, Fail({"lambda"}, {"run"}))
          /\ Alone(kind, Fail({"s3"}, {"run"}))
      BY <1>1, OfParts, Asking
    <2> QED BY <2>1, Requests DEF StopRDSInstance, ThrottleLambda, DenyS3BucketPolicy
  <1>9. /\ WellMade(kind, Runs(ScaleECSService)) /\ WellMade(kind, Runs(ScaleEKSNodeGroup))
        /\ WellMade(kind, Runs(DeleteSageMakerEndpoint))
    <2>1. /\ Alone(kind, Fail({"ecs"}, {"run"})) /\ Alone(kind, Fail({"eks"}, {"run"}))
          /\ Alone(kind, Fail({"sagemaker"}, Endpoint))
      BY <1>1, OfParts, Asking
    <2> QED BY <2>1, Requests DEF ScaleECSService, ScaleEKSNodeGroup, DeleteSageMakerEndpoint
  <1>10. WellMade(kind, Program(AwsAction(kind, action), says))
    <2>1. CASE AwsAction(kind, action) = Refuses
      BY <2>1, <1>2, Nothing
    <2>2. CASE AwsAction(kind, action) # Refuses
      <3>1. WellMade(kind, Runs(AwsAction(kind, action)))
        BY <2>2, <1>4, <1>6, <1>7, <1>8, <1>9
      <3> QED BY <2>2, <3>1 DEF Runs
    <2> QED BY <2>1, <2>2
  <1> QED BY <1>3, <1>10, Joined DEF AwsKill

LEMMA MongoWellMade ==
  ASSUME NEW kind \in AtlasKinds \cup MongoKinds, NEW action
  PROVE  WellMade(kind, MongodbKill(kind, action))
  <1>1. AtlasKinds \in SUBSET Kinds /\ MongoKinds \in SUBSET Kinds /\ kind \in BestEffortKinds
    BY OfKinds DEF DataKinds, BestEffortKinds
  <1>2. {"throw", "next", "true"} \subseteq Handlers
    BY DEF Handlers
  <1>3. Alone(kind, MongoConnect) /\ MongoConnect.removes = {}
    BY <1>1, OfParts, Asking DEF MongoConnect
  <1> DEFINE list == Listing({"a", "b"}, "throw", "throw")
             each == Each({"a", "b"}, "next", "next")
  <1>4. /\ list \in StepShape /\ list.removes = {"a", "b"} /\ list.ok = "next" /\ list.does = "list"
        /\ each \in StepShape /\ each.removes = {"a", "b"} /\ each.ok = "next" /\ TakesDown(each)
    BY <1>2, OfParts, PairFields
  <1>5. WellMade(kind, Runs(IsolateAtlas))
    BY <1>1, <1>4, Swept DEF IsolateAtlas, Careful
  <1>6. ASSUME kind = "mongo" PROVE WellMade(kind, Runs(KillMongoConnections))
    <2> DEFINE all == Last(Try(MongoKinds, {"a", "b"}))
    <2>1. /\ all \in StepShape /\ all.does = "act" /\ all.removes = {"a", "b"} /\ all.ok = "true"
      <3>1. LET step == Try(MongoKinds, {"a", "b"}) IN
            step \in StepShape /\ step.does = "act" /\ step.removes = {"a", "b"}
        BY <1>1, <1>2, OfParts, StepFields DEF Try
      <3> QED BY <3>1 DEF Last, StepShape, Handlers
    <2>2. {"a", "b"} \cap Parts(kind) # {} /\ Levers(kind) \subseteq {"a", "b"}
      <3>1. Levers("mongo") = {"a", "b"}
        BY DEF Levers
      <3> QED BY <1>6, <3>1 DEF Parts
    <2> HIDE DEF all, list, each
    <2>3. WellMade(kind, Runs(<<all, list, each>>))
      BY <1>1, <1>4, <2>1, <2>2, Preferred
    <2>4. <<MongoConnect>> \o <<all, list, each>> = <<MongoConnect, all, list, each>>
      <3>1. MongoConnect \in StepShape /\ all \in StepShape /\ list \in StepShape /\ each \in StepShape
        BY <1>3, <1>4, <2>1 DEF Alone
      <3> QED BY <3>1, Quadruples
    <2>5. WellMade(kind, Runs(<<MongoConnect, all, list, each>>))
      BY <1>3, <2>3, <2>4, Opening, Joined DEF Runs
    <2> QED BY <2>5 DEF KillMongoConnections, all, list, each
  <1>7. /\ WellMade(kind, Runs(ScaleDownAtlas)) /\ WellMade(kind, Runs(PauseAtlas))
        /\ WellMade(kind, Runs(AtlasRequest(Whole)))
    <2>1. /\ Alone(kind, Must(AtlasKinds, {"size"})) /\ Alone(kind, Must(AtlasKinds, {"run"}))
          /\ Alone(kind, Must(AtlasKinds, Whole))
      BY <1>1, OfParts, Asking
    <2> QED BY <2>1, Requests DEF ScaleDownAtlas, PauseAtlas, AtlasRequest
  <1>8. WellMade(kind, Runs(ShutdownSelfHosted))
    <2> DEFINE first == Step(MongoKinds, {}, "throw", "true")
               second == Step(MongoKinds, {"run", "a", "b"}, "throw", "true")
    <2>1. Alone(kind, first) /\ first.removes = {}
      BY <1>1, <1>2, OfParts, StepFields DEF Alone, Careful
    <2>2. Alone(kind, second)
      BY <1>1, <1>2, OfParts, StepFields DEF Alone, Careful
    <2> HIDE DEF first, second
    <2>3. WellMade(kind, Runs(<<first, second>>))
      BY <2>1, <2>2, Requests DEF Harmless
    <2> QED BY <2>3 DEF ShutdownSelfHosted, first, second
  <1>9. WellMade(kind, Runs(DropDatabase))
    <2>1. Alone(kind, Must(MongoKinds, {"data"}))
      BY <1>1, OfParts, Asking
    <2> QED BY <1>3, <2>1, Requests DEF DropDatabase, Harmless
  <1>10. WellMade(kind, Unsupported)
    BY Nothing DEF Unsupported
  <1> QED BY <1>5, <1>6, <1>7, <1>8, <1>9, <1>10 DEF MongodbKill

(* Two commands to a Redis that evicts already: either may destroy data. *)
LEMMA EvictsFirst ==
  ASSUME NEW kind, kind = "redis-evicting", NEW a, NEW b, Alone(kind, a), Alone(kind, b)
  PROVE  WellMade(kind, Runs(<<a, b>>))
  <1> DEFINE program == Runs(<<a, b>>)
  <1>1. /\ program.steps = <<a, b>> /\ program.says = "always" /\ Len(program.steps) = 2
        /\ program.steps[1] = a /\ program.steps[2] = b
    BY DEF Runs, Program
  <1>2. 1 .. 2 = {1, 2} /\ a \in StepShape /\ b \in StepShape
    BY DEF Alone
  <1> HIDE DEF program
  <1>3. HasShape(program) /\ DataLast(kind, program)
    BY <1>1, <1>2 DEF HasShape, DataLast, Alone
  <1>4. Paired(program) /\ Strict(kind, program) /\ EndsWell(kind, program)
    BY <1>1, <1>2 DEF Paired, TakesDown, Strict, EndsWell, Alone, Careful
  <1> QED BY <1>3, <1>4 DEF WellMade, program

LEMMA RedisWellMade ==
  ASSUME NEW kind \in RedisKinds, NEW action
  PROVE  WellMade(kind, RedisKill(kind, action))
  <1>1. /\ SelfHosted \in SUBSET Kinds /\ {"redis-cloud"} \in SUBSET Kinds /\ CacheKinds \in SUBSET Kinds
    BY OfKinds DEF DataKinds, RedisKinds
  <1>2. Alone(kind, RedisConnect) /\ RedisConnect.removes = {}
    BY <1>1, OfParts, Asking DEF RedisConnect
  <1>3. ASSUME kind \in SelfHosted PROVE WellMade(kind, Runs(KillRedisConnections))
    <2> DEFINE list == Listing({"a", "b"}, "throw", "throw")
               act == Must(SelfHosted, {})
               each == Each({"a", "b"}, "next", "next")
    <2>1. {"throw", "next"} \subseteq Handlers /\ kind \in BestEffortKinds
      BY <1>3 DEF Handlers, BestEffortKinds
    <2>2. /\ list \in StepShape /\ list.removes = {"a", "b"} /\ list.ok = "next" /\ list.does = "list"
          /\ each \in StepShape /\ each.removes = {"a", "b"} /\ each.ok = "next" /\ TakesDown(each)
      BY <2>1, OfParts, PairFields
    <2>3. Alone(kind, act) /\ act.removes = {}
      BY <1>1, OfParts, Asking
    <2> HIDE DEF list, act, each
    <2>4. WellMade(kind, Runs(<<list, act, each>>))
      BY <2>1, <2>2, <2>3, Between DEF Alone, Careful
    <2>5. <<RedisConnect>> \o <<list, act, each>> = <<RedisConnect, list, act, each>>
      <3>1. RedisConnect \in StepShape /\ act \in StepShape
        BY <1>2, <2>3 DEF Alone
      <3> QED BY <2>2, <3>1, Quadruples
    <2>6. WellMade(kind, Runs(<<RedisConnect, list, act, each>>))
      BY <1>2, <2>4, <2>5, Opening, Joined DEF Runs
    <2> QED BY <2>6 DEF KillRedisConnections, list, act, each
  <1>a. /\ Alone(kind, Must(SelfHosted, {"data"})) /\ Alone(kind, SetMaxmemory(kind))
        /\ kind # "redis-evicting" => SetMaxmemory(kind).removes = {"memory"}
    <2>1. /\ Alone(kind, Must(SelfHosted, {"data"})) /\ Alone(kind, Must(SelfHosted, {"memory"}))
          /\ Must(SelfHosted, {"memory"}).removes = {"memory"}
          /\ Alone(kind, Must(SelfHosted, {"memory", "data"}))
      BY <1>1, OfParts, Asking
    <2> QED BY <2>1 DEF SetMaxmemory
  <1>4. WellMade(kind, Runs(FlushSelfHosted))
    BY <1>2, <1>a, Requests DEF FlushSelfHosted, Harmless
  <1>b. WellMade(kind, Runs(ScaleDownSelfHosted(kind)))
    <2>1. CASE kind = "redis-evicting"
      <3>1. WellMade(kind, Runs(<<SetMaxmemory(kind), Must(SelfHosted, {"data"})>>))
        BY <1>a, <2>1, EvictsFirst
      <3>2. <<RedisConnect>> \o <<SetMaxmemory(kind), Must(SelfHosted, {"data"})>> =
                <<RedisConnect, SetMaxmemory(kind), Must(SelfHosted, {"data"})>>
        BY <1>2, <1>a, Triples DEF Alone
      <3>3. WellMade(kind, Runs(<<RedisConnect, SetMaxmemory(kind), Must(SelfHosted, {"data"})>>))
        BY <1>2, <3>1, <3>2, Opening, Joined DEF Runs
      <3> QED BY <3>3 DEF ScaleDownSelfHosted
    <2>2. CASE kind # "redis-evicting"
      BY <1>2, <1>a, <2>2, Requests DEF ScaleDownSelfHosted, Harmless
    <2> QED BY <2>1, <2>2
  <1>5. WellMade(kind, Runs(RedisCloudRequest({"size"}))) /\ WellMade(kind, Runs(RedisCloudRequest(Whole)))
    <2>1. Alone(kind, Must({"redis-cloud"}, {"size"})) /\ Alone(kind, Must({"redis-cloud"}, Whole))
      BY <1>1, OfParts, Asking
    <2> QED BY <2>1, Requests DEF RedisCloudRequest
  <1>6. WellMade(kind, ScaleDownElastiCache(kind))
    <2>1. /\ Alone(kind, Must(CacheKinds, {})) /\ Must(CacheKinds, {}).removes = {}
          /\ Alone(kind, Must(CacheKinds, {"size"}))
      BY <1>1, OfParts, Asking
    <2> QED BY <2>1, Requests DEF ScaleDownElastiCache, Harmless
  <1>7. WellMade(kind, Runs(DeleteElastiCache))
    <2>1. /\ Alone(kind, CreateSnapshot) /\ CreateSnapshot.removes = {"unsaved"}
          /\ Alone(kind, Must(CacheKinds, Whole))
      BY <1>1, OfParts, Asking DEF CreateSnapshot
    <2> QED BY <2>1, Requests DEF DeleteElastiCache, Harmless
  <1>8. WellMade(kind, Unsupported)
    BY Nothing DEF Unsupported
  <1> QED BY <1>3, <1>4, <1>b, <1>5, <1>6, <1>7, <1>8 DEF RedisKill

LEMMA Neo4jWellMade ==
  ASSUME NEW kind, NEW action
  PROVE  WellMade(kind, Neo4jKill(kind, action))
  <1>1. Neo4jKinds \in SUBSET Kinds /\ {"aura"} \in SUBSET Kinds
    BY OfKinds DEF DataKinds, Neo4jKinds
  <1>2. Alone(kind, AuraToken) /\ AuraToken.removes = {}
    BY <1>1, OfParts, Asking DEF AuraToken
  <1>3. /\ Alone(kind, Fail({"aura"}, {"run"})) /\ Alone(kind, Fail({"aura"}, {"size"}))
        /\ Alone(kind, Fail({"aura"}, Whole))
    BY <1>1, OfParts, Asking
  <1>4. Harmless(AuraToken)
    BY <1>2 DEF Harmless
  <1>5. /\ WellMade(kind, Runs(<<AuraToken, Fail({"aura"}, {"run"})>>))
        /\ WellMade(kind, Runs(<<AuraToken, Fail({"aura"}, {"size"})>>))
        /\ WellMade(kind, Runs(<<AuraToken, Fail({"aura"}, Whole)>>))
        /\ WellMade(kind, Program(<<AuraToken>>, "never"))
    BY <1>2, <1>3, <1>4, Requests
  <1> QED BY <1>5 DEF Neo4jKill

LEMMA NeonWellMade ==
  ASSUME NEW kind, NEW action
  PROVE  WellMade(kind, NeonKill(kind, action))
  <1>1. {"neon"} \in SUBSET Kinds
    BY OfKinds DEF DataKinds, NeonKinds
  <1> DEFINE first == Fail({"neon"}, {})
             list == Listing({"a", "b"}, "false", "false")
             each == Each({"a", "b"}, "false", "false")
  <1>2. Alone(kind, first) /\ first.removes = {} /\ Alone(kind, Fail({"neon"}, Whole))
    BY <1>1, OfParts, Asking
  <1>3. /\ list \in StepShape /\ list.removes = {"a", "b"} /\ list.ok = "next" /\ list.does = "list"
        /\ each \in StepShape /\ each.removes = {"a", "b"} /\ each.ok = "next" /\ TakesDown(each)
        /\ Careful(kind, list) /\ Careful(kind, each)
    <2>1. "false" \in Handlers
      BY DEF Handlers
    <2> QED BY <2>1, OfParts, PairFields DEF Careful, Final
  <1> HIDE DEF first, list, each
  <1>4. WellMade(kind, Runs(<<list, each>>)) /\ Leads(<<list, each>>)
    BY <1>3, Swept
  <1>5. <<first>> \o <<list, each>> = <<first, list, each>>
    BY <1>2, <1>3, Triples DEF Alone
  <1>6. WellMade(kind, Runs(<<first, list, each>>))
    BY <1>2, <1>4, <1>5, Opening, Joined DEF Runs
  <1>7. WellMade(kind, Runs(<<Fail({"neon"}, Whole)>>))
    BY <1>2, Requests
  <1>8. WellMade(kind, Unsupported)
    BY Nothing DEF Unsupported
  <1> QED BY <1>6, <1>7, <1>8 DEF NeonKill, first, list, each

LEMMA RunpodWellMade ==
  ASSUME NEW kind, NEW action
  PROVE  WellMade(kind, RunpodKill(kind, action))
  <1>1. {"pod"} \in SUBSET Kinds /\ {"serverless"} \in SUBSET Kinds
    BY OfKinds DEF ComputeKinds, RunpodKinds
  <1>2. /\ Alone(kind, Fail({"pod"}, {"run"})) /\ Alone(kind, Fail({"pod"}, {"run", "data", "self"}))
        /\ Alone(kind, Fail({"serverless"}, {"run"}))
    BY <1>1, OfParts, Asking
  <1>3. WellMade(kind, StopPod) /\ WellMade(kind, TerminatePod) /\ WellMade(kind, ScaleDownEndpoint)
    BY <1>2, Requests DEF StopPod, TerminatePod, ScaleDownEndpoint
  <1>4. WellMade(kind, Unsupported)
    BY Nothing DEF Unsupported
  <1> QED BY <1>3, <1>4 DEF RunpodKill, RunpodByType

LEMMA OthersWellMade ==
  ASSUME NEW kind, NEW action
  PROVE  /\ kind = "vercel" => WellMade(kind, VercelKill(action))
         /\ kind = "replicate" => WellMade(kind, ReplicateKill(action))
         /\ WellMade(kind, SnowflakeKill(action)) /\ WellMade(kind, Unsupported)
  <1>1. WellMade(kind, Unsupported)
    BY Nothing DEF Unsupported
  <1>2. ASSUME kind \in {"vercel", "replicate"} PROVE WellMade(kind, CancelJobs)
    <2> DEFINE list == Listing({"a", "b"}, "false", "false")
               each == Each({"a", "b"}, "next", "next")
    <2>1. {"false", "next"} \subseteq Handlers /\ kind \in BestEffortKinds
      BY <1>2 DEF Handlers, BestEffortKinds, JobKinds
    <2>2. /\ list \in StepShape /\ list.removes = {"a", "b"} /\ list.ok = "next" /\ list.does = "list"
          /\ each \in StepShape /\ each.removes = {"a", "b"} /\ each.ok = "next" /\ TakesDown(each)
      BY <2>1, OfParts, PairFields
    <2> HIDE DEF list, each
    <2>3. WellMade(kind, Counts(<<list, each>>))
      BY <2>1, <2>2, Swept DEF Careful
    <2> QED BY <2>3 DEF CancelJobs, list, each
  <1>3. WellMade(kind, SnowflakeKill(action))
    <2>1. {"snowflake"} \in SUBSET Kinds
      BY OfKinds DEF ComputeKinds
    <2>2. Alone(kind, Fail({"snowflake"}, {"size"})) /\ Alone(kind, Fail({"snowflake"}, {"run"}))
      BY <2>1, OfParts, Asking
    <2>3. WellMade(kind, Runs(<<Fail({"snowflake"}, {"size"})>>)) /\ WellMade(kind, Runs(<<Fail({"snowflake"}, {"run"})>>))
      BY <2>2, Requests
    <2> QED BY <2>3, <1>1 DEF SnowflakeKill
  <1> QED BY <1>1, <1>2, <1>3 DEF VercelKill, ReplicateKill

(* The edge functions sweep one kind of resource after another. *)
Block(kind, steps) == WellMade(kind, Runs(steps)) /\ Leads(steps)

LEMMA Blocks ==
  ASSUME NEW kind, NEW before, NEW after, Block(kind, before), Block(kind, after)
  PROVE  Block(kind, before \o after)
  <1>1. before \in Seq(StepShape) /\ after \in Seq(StepShape)
    BY DEF Block, WellMade, HasShape, Runs, Program
  <1>2. WellMade(kind, Runs(before \o after))
    BY Joined DEF Block, Leads, Runs
  <1>3. Leads(before \o after)
    BY <1>1 DEF Block, Leads
  <1> QED BY <1>2, <1>3 DEF Block

LEMMA EdgeWellMade ==
  ASSUME NEW kind \in EdgeKinds
  PROVE  WellMade(kind, KillSwitchGcp(kind)) /\ WellMade(kind, KillSwitchAws)
  <1>1. "next" \in Handlers /\ kind \in BestEffortKinds /\ EdgeKinds \in SUBSET Kinds
    BY OfKinds DEF Handlers, BestEffortKinds, ComputeKinds
  <1>2. ASSUME NEW parts \in SUBSET PartNames, "data" \notin parts
        PROVE  /\ Block(kind, Sweep(parts))
               /\ Block(kind, <<Listing(parts, "next", "next"), Batch(parts, "next", "next")>>)
    <2> DEFINE list == Listing(parts, "next", "next")
    <2>1. ASSUME NEW each \in {Each(parts, "next", "next"), Batch(parts, "next", "next")}
          PROVE  Block(kind, <<list, each>>)
      <3>1. /\ list \in StepShape /\ list.removes = parts /\ list.ok = "next" /\ list.does = "list"
            /\ each \in StepShape /\ each.removes = parts /\ each.ok = "next" /\ TakesDown(each)
        BY <1>1, <2>1, PairFields
      <3> HIDE DEF list
      <3> QED BY <1>1, <1>2, <3>1, Swept DEF Block, Careful
    <2> QED BY <2>1 DEF Sweep
  <1>3. Block(kind, AlertPagerDuty)
    <2>1. Alone(kind, Try(EdgeKinds, {})) /\ Try(EdgeKinds, {}).removes = {}
      BY <1>1, OfParts, Trying
    <2> QED BY <2>1, Opening DEF AlertPagerDuty, Block
  <1>4. /\ {"svc", "svcP"} \in SUBSET PartNames /\ {"vm", "vmP"} \in SUBSET PartNames
        /\ {"fn", "fnP"} \in SUBSET PartNames /\ {"billing"} \in SUBSET PartNames
        /\ {"endpoint"} \in SUBSET PartNames
    BY DEF PartNames
  <1>5. /\ Block(kind, ScaleDownCloudRunServices) /\ Block(kind, StopComputeInstances)
        /\ Block(kind, ScaleDownCloudFunctions) /\ Block(kind, DisableBilling)
    BY <1>2, <1>4 DEF ScaleDownCloudRunServices, StopComputeInstances, ScaleDownCloudFunctions, DisableBilling
  <1>6. /\ Block(kind, EdgeStopEC2Instances) /\ Block(kind, EdgeThrottleLambdaFunctions)
        /\ Block(kind, EdgeScaleDownECSServices) /\ Block(kind, EdgeDeleteSageMakerEndpoints)
    BY <1>2, <1>4 DEF EdgeStopEC2Instances, EdgeThrottleLambdaFunctions, EdgeScaleDownECSServices,
                      EdgeDeleteSageMakerEndpoints
  <1>7. WellMade(kind, KillSwitchGcp(kind))
    <2>1. Block(kind, (ScaleDownCloudRunServices \o StopComputeInstances) \o ScaleDownCloudFunctions)
      BY <1>5, Blocks
    <2>2. /\ Block(kind, ((ScaleDownCloudRunServices \o StopComputeInstances) \o ScaleDownCloudFunctions)
                             \o AlertPagerDuty)
          /\ Block(kind, DisableBilling \o AlertPagerDuty)
      BY <1>3, <1>5, <2>1, Blocks
    <2> QED BY <2>2 DEF KillSwitchGcp, Block
  <1>8. WellMade(kind, KillSwitchAws)
    <2>1. Block(kind, EdgeStopEC2Instances \o EdgeThrottleLambdaFunctions)
      BY <1>6, Blocks
    <2>2. Block(kind, (EdgeStopEC2Instances \o EdgeThrottleLambdaFunctions) \o EdgeScaleDownECSServices)
      BY <1>6, <2>1, Blocks
    <2>3. Block(kind, ((EdgeStopEC2Instances \o EdgeThrottleLambdaFunctions) \o EdgeScaleDownECSServices)
                         \o EdgeDeleteSageMakerEndpoints)
      BY <1>6, <2>2, Blocks
    <2>4. Block(kind, (((EdgeStopEC2Instances \o EdgeThrottleLambdaFunctions) \o EdgeScaleDownECSServices)
                         \o EdgeDeleteSageMakerEndpoints) \o AlertPagerDuty)
      BY <1>3, <2>3, Blocks
    <2> QED BY <2>4 DEF KillSwitchAws, Block
  <1> QED BY <1>7, <1>8

(* Every program the adapters can be asked to carry out is well made. *)
LEMMA ProgramsWellMade ==
  ASSUME NEW kind \in Kinds, NEW action, NEW role \in BOOLEAN
  PROVE  WellMade(kind, KillProgram(kind, action, role))
  <1>1. \/ kind \in CfKinds \cup GcpKinds \cup AwsKinds \cup DataKinds
        \/ kind \in RunpodKinds \cup {"snowflake", "vercel", "replicate", "openai", "anthropic", "xai", "datadog"}
        \/ kind \in EdgeKinds
    BY DEF Kinds, ComputeKinds, LlmKinds, JobKinds
  <1>2. kind \in DataKinds => kind \in AtlasKinds \cup MongoKinds \/ kind \in RedisKinds \/ kind \in Neo4jKinds \/ kind \in NeonKinds
    BY DEF DataKinds
  <1>4. kind \in CfKinds => WellMade(kind, CloudflareKill(kind, action))
    BY CfWellMade
  <1>5. kind \in AtlasKinds \cup MongoKinds => WellMade(kind, MongodbKill(kind, action))
    BY MongoWellMade
  <1>6. kind \in RedisKinds => WellMade(kind, RedisKill(kind, action))
    BY RedisWellMade
  <1>7. /\ WellMade(kind, GcpKill(kind, action)) /\ WellMade(kind, AwsKill(kind, action, role))
        /\ WellMade(kind, Neo4jKill(kind, action)) /\ WellMade(kind, NeonKill(kind, action))
        /\ WellMade(kind, RunpodKill(kind, action))
    BY GcpWellMade, AwsWellMade, Neo4jWellMade, NeonWellMade, RunpodWellMade
  <1>8. /\ kind = "vercel" => WellMade(kind, VercelKill(action))
        /\ kind = "replicate" => WellMade(kind, ReplicateKill(action))
        /\ WellMade(kind, SnowflakeKill(action)) /\ WellMade(kind, OpenaiKill(action))
        /\ WellMade(kind, AnthropicKill(action)) /\ WellMade(kind, XaiKill(action))
        /\ WellMade(kind, DatadogKill(action))
    BY OthersWellMade DEF OpenaiKill, AnthropicKill, XaiKill, DatadogKill
  <1>9. kind \in EdgeKinds => WellMade(kind, KillSwitchGcp(kind)) /\ WellMade(kind, KillSwitchAws)
    BY EdgeWellMade
  <1>10. kind \in {"edge-gcp", "edge-nuclear"} => WellMade(kind, KillSwitchGcp(kind))
    BY <1>9 DEF EdgeKinds
  <1>11. \/ kind \in CfKinds \/ kind \in GcpKinds \/ kind \in AwsKinds \/ kind \in AtlasKinds \cup MongoKinds
         \/ kind \in RedisKinds \/ kind \in Neo4jKinds \/ kind \in NeonKinds \/ kind \in RunpodKinds
         \/ kind = "vercel" \/ kind = "replicate" \/ kind = "snowflake" \/ kind = "openai"
         \/ kind = "anthropic" \/ kind = "xai" \/ kind = "datadog"
         \/ WellMade(kind, KillSwitchAws)
    BY <1>1, <1>2, <1>9
  <1> QED BY <1>4, <1>5, <1>6, <1>7, <1>8, <1>10, <1>11, Zenon DEF KillProgram

(* What makes a program achieve something: a step that takes a part of the *)
(* kind away and pulls what is wanted, or a request that cannot be about   *)
(* the kind; or steps that pull it all together.                           *)
Counting(kind, action, step) ==
    \/ step.removes \cap Parts(kind) # {} /\ Wanted(kind, action) \subseteq step.removes
    \/ Misses(kind, step)
Achieving(kind, action, steps) ==
    \/ /\ \E i \in 1 .. Len(steps) : steps[i].removes \cap Parts(kind) # {}
       /\ \A part \in Wanted(kind, action) : \E i \in 1 .. Len(steps) : part \in steps[i].removes
    \/ \E i \in 1 .. Len(steps) : Misses(kind, steps[i])

LEMMA AchievingIs ==
  ASSUME NEW kind, NEW action, NEW steps, NEW says, says = "never" \/ Achieving(kind, action, steps)
  PROVE  Achieves(kind, action, Program(steps, says))
  BY DEF Achieves, Achieving, Program

LEMMA AchievingAt ==
  ASSUME NEW kind, NEW action, NEW steps, NEW i \in 1 .. Len(steps), Counting(kind, action, steps[i])
  PROVE  Achieving(kind, action, steps)
  BY DEF Achieving, Counting

LEMMA AchievingOne ==
  ASSUME NEW kind, NEW action, NEW a, NEW b, NEW c, NEW d
  PROVE  /\ Counting(kind, action, a) =>
              /\ Achieving(kind, action, <<a>>) /\ Achieving(kind, action, <<a, b>>)
              /\ Achieving(kind, action, <<a, b, c>>)
         /\ Counting(kind, action, b) =>
              /\ Achieving(kind, action, <<a, b>>) /\ Achieving(kind, action, <<a, b, c>>)
              /\ Achieving(kind, action, <<a, b, c, d>>)
  <1>1. /\ Len(<<a>>) = 1 /\ Len(<<a, b>>) = 2 /\ Len(<<a, b, c>>) = 3 /\ Len(<<a, b, c, d>>) = 4
        /\ <<a>>[1] = a /\ <<a, b>>[1] = a /\ <<a, b, c>>[1] = a
        /\ <<a, b>>[2] = b /\ <<a, b, c>>[2] = b /\ <<a, b, c, d>>[2] = b
        /\ 1 \in 1 .. 1 /\ 1 \in 1 .. 2 /\ 1 \in 1 .. 3 /\ 2 \in 1 .. 2 /\ 2 \in 1 .. 3 /\ 2 \in 1 .. 4
    OBVIOUS
  <1>2. ASSUME Counting(kind, action, a)
        PROVE  /\ Achieving(kind, action, <<a>>) /\ Achieving(kind, action, <<a, b>>)
               /\ Achieving(kind, action, <<a, b, c>>)
    BY <1>1, <1>2, AchievingAt
  <1>3. ASSUME Counting(kind, action, b)
        PROVE  /\ Achieving(kind, action, <<a, b>>) /\ Achieving(kind, action, <<a, b, c>>)
               /\ Achieving(kind, action, <<a, b, c, d>>)
    BY <1>1, <1>3, AchievingAt
  <1> QED BY <1>2, <1>3

LEMMA AchievingJoined ==
  ASSUME NEW kind, NEW action, NEW before \in Seq(StepShape), NEW after \in Seq(StepShape),
         Achieving(kind, action, after)
  PROVE  Achieving(kind, action, before \o after)
  <1>1. /\ Len(before \o after) = Len(before) + Len(after) /\ Len(before) \in Nat /\ Len(after) \in Nat
        /\ \A i \in 1 .. Len(after) : (before \o after)[i + Len(before)] = after[i]
    OBVIOUS
  <1>2. \A i \in 1 .. Len(after) :
            /\ i + Len(before) \in 1 .. Len(before \o after)
            /\ (before \o after)[i + Len(before)] = after[i]
    BY <1>1
  <1>3. ASSUME NEW i \in 1 .. Len(after), Misses(kind, after[i])
        PROVE  Achieving(kind, action, before \o after)
    BY <1>2, <1>3 DEF Achieving
  <1>4. ASSUME NEW i \in 1 .. Len(after), after[i].removes \cap Parts(kind) # {},
               \A part \in Wanted(kind, action) : \E j \in 1 .. Len(after) : part \in after[j].removes
        PROVE  Achieving(kind, action, before \o after)
    <2>1. (before \o after)[i + Len(before)].removes \cap Parts(kind) # {}
      BY <1>2, <1>4
    <2>2. \A part \in Wanted(kind, action) :
             \E j \in 1 .. Len(before \o after) : part \in (before \o after)[j].removes
      BY <1>2, <1>4
    <2> QED BY <1>2, <2>1, <2>2 DEF Achieving
  <1> QED BY <1>3, <1>4 DEF Achieving

(* Steps that take all of a set of parts away. *)
Covers(parts, steps) ==
    /\ steps \in Seq(StepShape)
    /\ \A part \in parts : \E i \in 1 .. Len(steps) : part \in steps[i].removes

LEMMA CoversOn ==
  ASSUME NEW these, NEW those, NEW before, NEW after, Covers(these, before), Covers(those, after)
  PROVE  Covers(these \cup those, before \o after)
  <1>1. before \in Seq(StepShape) /\ after \in Seq(StepShape)
    BY DEF Covers
  <1>2. /\ Len(before \o after) = Len(before) + Len(after) /\ Len(before) \in Nat /\ Len(after) \in Nat
        /\ \A i \in 1 .. Len(before) : (before \o after)[i] = before[i]
        /\ \A i \in 1 .. Len(after) : (before \o after)[i + Len(before)] = after[i]
        /\ before \o after \in Seq(StepShape)
    BY <1>1
  <1>3. /\ \A i \in 1 .. Len(before) : i \in 1 .. Len(before \o after)
        /\ \A i \in 1 .. Len(after) : i + Len(before) \in 1 .. Len(before \o after)
    BY <1>2
  <1>4. ASSUME NEW part \in these
        PROVE  \E i \in 1 .. Len(before \o after) : part \in (before \o after)[i].removes
    <2>1. PICK i \in 1 .. Len(before) : part \in before[i].removes
      BY DEF Covers
    <2> QED BY <1>2, <1>3, <2>1
  <1>5. ASSUME NEW part \in those
        PROVE  \E i \in 1 .. Len(before \o after) : part \in (before \o after)[i].removes
    <2>1. PICK i \in 1 .. Len(after) : part \in after[i].removes
      BY DEF Covers
    <2> QED BY <1>2, <1>3, <2>1
  <1> QED BY <1>2, <1>4, <1>5 DEF Covers

LEMMA CoversAll ==
  ASSUME NEW kind, NEW action, NEW parts, NEW steps, Covers(parts, steps),
         Wanted(kind, action) \subseteq parts, parts \cap Parts(kind) # {}
  PROVE  Achieving(kind, action, steps)
  <1>1. PICK part \in parts : part \in Parts(kind)
    OBVIOUS
  <1>2. PICK i \in 1 .. Len(steps) : part \in steps[i].removes
    BY DEF Covers
  <1>3. steps[i].removes \cap Parts(kind) # {}
    BY <1>1, <1>2
  <1>4. \A p \in Wanted(kind, action) : \E j \in 1 .. Len(steps) : p \in steps[j].removes
    BY DEF Covers
  <1> QED BY <1>3, <1>4 DEF Achieving

(* A request that is looked at counts unless it is about the kind and      *)
(* leaves up a lever that is wanted.                                       *)
LEMMA Hits ==
  ASSUME NEW kind, NEW action, NEW of \in SUBSET Kinds, NEW removes \in SUBSET PartNames,
         kind \in of => removes \cap Parts(kind) # {} /\ Wanted(kind, action) \subseteq removes
  PROVE  \A step \in {Must(of, removes), Fail(of, removes), Asks(of, removes)} :
            Counting(kind, action, step)
  <1>1. \A step \in {Must(of, removes), Fail(of, removes), Asks(of, removes)} :
             Alone(kind, step) /\ Final(step) /\ step.of = of /\ step.removes = removes
    BY Asking
  <1> QED BY <1>1 DEF Counting, Misses, Alone

(* Levers and parts by kind. *)
ByRunning == (CfKinds \ {"worker", "zone"}) \cup (GcpKinds \ {"bq", "gke"}) \cup AwsKinds \cup RunpodKinds
                \cup {"atlas", "redis-cloud", "elasticache", "elasticache-alone", "aura", "aura-summary",
                      "snowflake", "neon-billing"}
LEMMA KnownParts ==
  ASSUME NEW kind
  PROVE  /\ Whole \cap Parts(kind) # {} /\ Everything \cap Parts(kind) # {}
         /\ Endpoint \cap Parts(kind) # {} /\ {"data"} \cap Parts(kind) # {}
         /\ {"run", "data", "self"} \cap Parts(kind) # {}
         /\ kind \in ByRunning \cup {"gke", "mongo", "zone"} => {"run"} \cap Parts(kind) # {}
         /\ kind \in GcpKinds => {"run", "b", "queries"} \cap Parts(kind) # {}
         /\ kind = "bq" => {"queries"} \cap Parts(kind) # {}
         /\ kind = "zone" => {"a"} \cap Parts(kind) # {}
         /\ kind \in {"atlas", "elasticache", "snowflake", "aura", "redis-cloud"} => {"size"} \cap Parts(kind) # {}
         /\ kind \in {"neon", "mongo", "atlas"} \cup SelfHosted \cup JobKinds => {"a", "b"} \cap Parts(kind) # {}
         /\ kind \in SelfHosted =>
              {"memory"} \cap Parts(kind) # {} /\ {"memory", "data"} \cap Parts(kind) # {}
  <1>1. /\ Whole \cap Parts(kind) # {} /\ Everything \cap Parts(kind) # {}
        /\ Endpoint \cap Parts(kind) # {} /\ {"data"} \cap Parts(kind) # {}
        /\ {"run", "data", "self"} \cap Parts(kind) # {}
    BY DEF Parts, Whole, Everything, Endpoint
  <1>2. kind \in ByRunning \cup {"gke", "mongo", "zone"} => "run" \in Parts(kind)
    BY DEF Parts, Levers, OtherParts, ByRunning, CfKinds, Workers, GcpKinds, AwsKinds, AwsTotals, RunpodKinds,
           JobKinds, SelfHosted
  <1>3. kind \in GcpKinds => "run" \in Parts(kind) \/ "queries" \in Parts(kind)
    BY DEF Parts, Levers, OtherParts, GcpKinds, JobKinds, SelfHosted
  <1>4. /\ kind = "bq" => "queries" \in Parts(kind)
        /\ kind = "zone" => "a" \in Parts(kind)
        /\ kind \in SelfHosted => "memory" \in Parts(kind)
    BY DEF Parts, Levers, OtherParts, JobKinds, SelfHosted
  <1>5. kind \in {"atlas", "elasticache", "snowflake", "aura", "redis-cloud"} => "size" \in Parts(kind)
    BY DEF Parts, OtherParts, SelfHosted
  <1>6. kind \in {"neon", "mongo", "atlas"} \cup SelfHosted \cup JobKinds => "a" \in Parts(kind)
    BY DEF Parts, Levers, OtherParts, JobKinds, SelfHosted
  <1> QED BY <1>1, <1>2, <1>3, <1>4, <1>5, <1>6

(* What of the levers an action is to pull. *)
LEMMA KnownWanted ==
  ASSUME NEW kind, NEW action
  PROVE  /\ kind \in ByRunning => Wanted(kind, action) \subseteq {"run"}
         /\ kind = "gke" => /\ Wanted(kind, action) \subseteq {"run", "b"}
                            /\ action # "disable-billing" => Wanted(kind, action) \subseteq {"run"}
         /\ kind = "bq" => Wanted(kind, action) \subseteq {"queries"}
         /\ kind = "zone" => /\ action = "disconnect" => Wanted(kind, action) \subseteq {"a"}
                             /\ action # "disconnect" => Wanted(kind, action) \subseteq {"run"}
         /\ kind = "worker" => /\ Wanted(kind, action) \subseteq Everything
                               /\ action # "delete" => Wanted(kind, action) \subseteq {"subdomain", "a", "b"}
         /\ kind \in {"neon", "mongo"} \cup SelfHosted \cup JobKinds => Wanted(kind, action) \subseteq {"a", "b"}
         /\ kind = "mongo" /\ action = "delete" => Wanted(kind, action) = {}
         /\ kind \in (DataKinds \ NeonKinds) \cup {"snowflake"}
                 /\ action \in {"scale-down", "isolate", "flush-redis"} => Wanted(kind, action) = {}
  <1> USE DEF JobKinds, SelfHosted
  <1>1. kind \in ByRunning => Levers(kind) = {"run"}
    BY DEF Levers, ByRunning, CfKinds, Workers, GcpKinds, AwsKinds, AwsTotals, RunpodKinds
  <1>2. /\ kind = "gke" => Levers(kind) = {"run", "b"}
        /\ kind = "bq" => Levers(kind) = {"queries"}
        /\ kind = "zone" => Levers(kind) = {"a", "run"}
        /\ kind = "worker" => Levers(kind) = {"subdomain", "route", "a", "b"}
        /\ kind \in {"neon", "mongo"} \cup SelfHosted \cup JobKinds => Levers(kind) = {"a", "b"}
    BY DEF Levers
  <1>3. /\ kind = "gke" /\ action # "disable-billing" => Unreached(kind, action) = {"b"}
        /\ kind = "zone" /\ action = "disconnect" => Unreached(kind, action) = {"run"}
        /\ kind = "zone" /\ action # "disconnect" => Unreached(kind, action) = {"a"}
        /\ kind = "worker" /\ action # "delete" => Unreached(kind, action) = {"route"}
    BY DEF Unreached, DataKinds, AtlasKinds, MongoKinds, RedisKinds, CacheKinds, Neo4jKinds, NeonKinds
  <1>m. ASSUME kind = "mongo", action = "delete" PROVE Unreached(kind, action) = {"a", "b"}
    <2>1. action \notin {"scale-down", "isolate", "flush-redis"}
      BY <1>m
    <2> QED BY <1>m, <2>1 DEF Unreached
  <1>4. kind \in (DataKinds \ NeonKinds) \cup {"snowflake"}
            /\ action \in {"scale-down", "isolate", "flush-redis"} => Unreached(kind, action) = {"run", "a", "b"}
    BY DEF Unreached, DataKinds, NeonKinds, AtlasKinds, MongoKinds, RedisKinds, CacheKinds, Neo4jKinds
  <1>5. kind \in (DataKinds \ NeonKinds) \cup {"snowflake"} => Levers(kind) \subseteq {"run", "a", "b"}
    BY DEF Levers, DataKinds, NeonKinds, AtlasKinds, MongoKinds, RedisKinds, CacheKinds, Neo4jKinds
  <1> QED BY <1>1, <1>2, <1>3, <1>m, <1>4, <1>5 DEF Wanted, Everything

LEMMA CfAchieves ==
  ASSUME NEW kind \in CfKinds, NEW action
  PROVE  Achieves(kind, action, CloudflareKill(kind, action))
  <1>1. \/ CloudflareKill(kind, action) = Unsupported
        \/ CloudflareKill(kind, action) = PauseZone /\ (kind = "zone" => action # "disconnect")
        \/ CloudflareKill(kind, action) = DisableArgo /\ kind = "zone" /\ action = "disconnect"
        \/ CloudflareKill(kind, action) = DisableLiveInput /\ kind \in {"stream", "videos"}
        \/ CloudflareKill(kind, action) \in {DeleteR2Bucket, DeleteD1Database, DeleteQueue}
                /\ kind \in {"r2", "d1", "d1-id", "queue"}
        \/ CloudflareKill(kind, action) = DeleteWorker /\ kind = "worker"
        \/ CloudflareKill(kind, action) = DisconnectWorker /\ kind = "worker" /\ action # "delete"
    BY DEF CloudflareKill, CfKinds, Workers
  <1>2. /\ {"worker"} \in SUBSET Kinds /\ {"r2"} \in SUBSET Kinds /\ {"d1-id"} \in SUBSET Kinds
        /\ {} \in SUBSET Kinds /\ {"stream"} \in SUBSET Kinds /\ {"zone"} \in SUBSET Kinds
    BY OfKinds DEF CfKinds, Workers
  <1>3. {"a"} \in SUBSET PartNames
    BY DEF PartNames
  <1>w. {"r2", "d1", "d1-id", "queue", "stream", "videos"} \subseteq ByRunning
    BY DEF ByRunning, CfKinds
  <1>4. /\ (kind = "zone" => action # "disconnect") => Counting(kind, action, Asks({"zone"}, {"run"}))
        /\ action = "disconnect" => Counting(kind, action, Asks({"zone"}, {"a"}))
    BY <1>2, <1>3, OfParts, KnownParts, KnownWanted, Hits
  <1>5. Counting(kind, action, Asks({"stream"}, {"run"}))
    BY <1>2, <1>w, OfParts, KnownParts, KnownWanted, Hits
  <1>6. \A of \in {{"r2"}, {"d1-id"}, {}, {"worker"}} : Counting(kind, action, Asks(of, Everything))
    <2>1. kind \in {"r2", "d1-id", "worker"} => Wanted(kind, action) \subseteq Everything
      BY <1>w, KnownWanted DEF Everything
    <2> QED BY <1>2, <2>1, OfParts, KnownParts, Hits
  <1>7. /\ (kind = "zone" => action # "disconnect") => Achieves(kind, action, PauseZone)
        /\ action = "disconnect" => Achieves(kind, action, DisableArgo)
        /\ Achieves(kind, action, DisableLiveInput)
    BY <1>4, <1>5, AchievingOne, AchievingIs DEF PauseZone, DisableArgo, DisableLiveInput, Runs
  <1>8. /\ Achieves(kind, action, DeleteR2Bucket) /\ Achieves(kind, action, DeleteD1Database)
        /\ Achieves(kind, action, DeleteQueue) /\ Achieves(kind, action, DeleteWorker)
    BY <1>6, AchievingOne, AchievingIs DEF DeleteR2Bucket, DeleteD1Database, DeleteQueue, DeleteWorker, Workers, Runs
  <1>9. ASSUME kind = "worker", action # "delete" PROVE Achieves(kind, action, DisconnectWorker)
    <2> DEFINE first == Try(Workers, {"subdomain"})
               list == Listing({"a", "b"}, "true", "true")
               each == Each({"a", "b"}, "next", "true")
    <2>1. first.removes = {"subdomain"} /\ list.removes = {"a", "b"}
      BY DEF Try, Step, Listing
    <2>2. "subdomain" \in Parts(kind)
      <3>1. "subdomain" \in Levers("worker")
        BY DEF Levers, JobKinds, SelfHosted
      <3> QED BY <1>9, <3>1 DEF Parts
    <2>3. Wanted(kind, action) \subseteq {"subdomain", "a", "b"}
      BY <1>9, KnownWanted
    <2> HIDE DEF first, list, each
    <2>4. /\ Len(<<first, list, each>>) = 3 /\ 1 \in 1 .. 3 /\ 2 \in 1 .. 3
          /\ <<first, list, each>>[1] = first /\ <<first, list, each>>[2] = list
      OBVIOUS
    <2>5. Achieving(kind, action, <<first, list, each>>)
      BY <2>1, <2>2, <2>3, <2>4 DEF Achieving
    <2> QED BY <2>5, AchievingIs DEF DisconnectWorker, Runs, first, list, each
  <1>10. Achieves(kind, action, Unsupported)
    BY AchievingIs DEF Unsupported
  <1> QED BY <1>1, <1>7, <1>8, <1>9, <1>10

LEMMA GcpAchieves ==
  ASSUME NEW kind \in GcpKinds \ {"all-services"}, NEW action, action # "set-quota"
  PROVE  Achieves(kind, action, GcpKill(kind, action))
  <1>1. /\ {} \in SUBSET Kinds /\ GcpKinds \in SUBSET Kinds /\ {"cloud-run"} \in SUBSET Kinds
        /\ {"compute"} \in SUBSET Kinds /\ {"gke"} \in SUBSET Kinds /\ {"gcf"} \in SUBSET Kinds
    BY OfKinds DEF GcpKinds
  <1>2. <<AccessToken>> \in Seq(StepShape)
    <2>1. Alone(kind, AccessToken)
      BY <1>1, OfParts, Asking DEF AccessToken
    <2> QED BY <2>1 DEF Alone
  <1>p. GcpAction(kind, action) \in Seq(StepShape)
    <2>2. \A of \in SUBSET Kinds, removes \in SUBSET PartNames :
             Fail(of, removes) \in StepShape /\ Asks(of, removes) \in StepShape
      BY Asking DEF Alone
    <2> QED BY <1>1, <2>2, OfParts DEF GcpAction, DisableProjectBilling, DisableGCPService,
            SetBigQueryQuota, StopComputeInstance, ScaleGKENodePool, ScaleCloudFunction, ScaleDownService
  <1>3. \/ GcpAction(kind, action) = DisableProjectBilling
        \/ GcpAction(kind, action) \in {DisableGCPService, StopComputeInstance,
                                       ScaleGKENodePool, ScaleCloudFunction, ScaleDownService}
                /\ action # "disable-billing"
        \/ GcpAction(kind, action) = SetBigQueryQuota /\ kind = "bq"
    BY DEF GcpAction
  <1>w. /\ {"cloud-run", "compute", "gcf"} \subseteq ByRunning
        /\ kind \in ByRunning \/ kind = "bq" \/ kind = "gke"
    BY DEF ByRunning, GcpKinds, CfKinds
  <1>4. Achieving(kind, action, DisableProjectBilling) /\ Achieving(kind, action, DisableGCPService)
    <2>0. Wanted(kind, action) \subseteq {"run", "b", "queries"}
      BY <1>w, KnownWanted
    <2>1. Counting(kind, action, Asks(GcpKinds, {"run", "b", "queries"}))
      BY <1>1, <2>0, OfParts, KnownParts, Hits
    <2>2. Counting(kind, action, Asks({}, {}))
      BY <1>1, OfParts, Hits
    <2> QED BY <2>1, <2>2, AchievingOne DEF DisableProjectBilling, DisableGCPService
  <1>5. action # "disable-billing" =>
            Achieving(kind, action, StopComputeInstance) /\ Achieving(kind, action, ScaleGKENodePool)
    <2>1. Counting(kind, action, Asks({"compute"}, {"run"}))
      BY <1>1, <1>w, OfParts, KnownParts, KnownWanted, Hits
    <2>2. action # "disable-billing" => Counting(kind, action, Asks({"gke"}, {"run"}))
      BY <1>1, OfParts, KnownParts, KnownWanted, Hits
    <2> QED BY <2>1, <2>2, AchievingOne DEF StopComputeInstance, ScaleGKENodePool
  <1>6. Achieving(kind, action, ScaleCloudFunction) /\ Achieving(kind, action, ScaleDownService)
    <2>1. Counting(kind, action, Asks({"gcf"}, {"run"})) /\ Counting(kind, action, Fail({"cloud-run"}, {"run"}))
      BY <1>1, <1>w, OfParts, KnownParts, KnownWanted, Hits
    <2> QED BY <2>1, AchievingOne DEF ScaleCloudFunction, ScaleDownService
  <1>7. kind = "bq" => Achieving(kind, action, SetBigQueryQuota)
    <2>1. kind = "bq" => Counting(kind, action, Asks(GcpKinds, {"queries"}))
      BY <1>1, OfParts, KnownParts, KnownWanted, Hits
    <2> QED BY <2>1, AchievingOne DEF SetBigQueryQuota
  <1>8. Achieving(kind, action, GcpAction(kind, action))
    BY <1>3, <1>4, <1>5, <1>6, <1>7
  <1>9. Achieving(kind, action, <<AccessToken>> \o GcpAction(kind, action))
    BY <1>2, <1>p, <1>8, AchievingJoined
  <1> QED BY <1>9, AchievingIs DEF GcpKill, Runs

LEMMA AwsAchieves ==
  ASSUME NEW kind \in AwsKinds, NEW action, NEW role \in BOOLEAN
  PROVE  Achieves(kind, action, AwsKill(kind, action, role))
  <1>1. /\ AwsKinds \in SUBSET Kinds /\ {"ec2"} \in SUBSET Kinds /\ {"lambda"} \in SUBSET Kinds
        /\ {"rds"} \in SUBSET Kinds /\ {"ecs"} \in SUBSET Kinds /\ {"eks"} \in SUBSET Kinds
        /\ {"s3"} \in SUBSET Kinds /\ {"sagemaker"} \in SUBSET Kinds
    BY OfKinds DEF AwsKinds
  <1>2. \A of \in SUBSET Kinds, removes \in SUBSET PartNames :
             Fail(of, removes) \in StepShape /\ Must(of, removes) \in StepShape
    BY Asking DEF Alone
  <1>3. TagInstances \in StepShape
    BY <1>1, OfParts, Trying DEF TagInstances, Alone
  <1>4. /\ StopRDSInstance \in Seq(StepShape) /\ StopEC2Instances \in Seq(StepShape)
        /\ TerminateEC2Instances \in Seq(StepShape) /\ ThrottleLambda \in Seq(StepShape)
        /\ DenyS3BucketPolicy \in Seq(StepShape) /\ DeleteSageMakerEndpoint \in Seq(StepShape)
        /\ ScaleECSService \in Seq(StepShape) /\ ScaleEKSNodeGroup \in Seq(StepShape)
        /\ AwsCredentials(role) \in Seq(StepShape)
    BY <1>1, <1>2, <1>3, OfParts DEF StopRDSInstance, StopEC2Instances, TerminateEC2Instances, ThrottleLambda,
            DenyS3BucketPolicy, DeleteSageMakerEndpoint, ScaleECSService, ScaleEKSNodeGroup, AwsCredentials
  <1>5. AwsAction(kind, action) \in {StopRDSInstance, StopEC2Instances, TerminateEC2Instances, ThrottleLambda,
            DenyS3BucketPolicy, DeleteSageMakerEndpoint, ScaleECSService, ScaleEKSNodeGroup, Refuses}
    BY DEF AwsAction, AwsByType, AwsServiceType
  <1>w. kind \in ByRunning
    BY DEF ByRunning
  <1>6. /\ Counting(kind, action, Fail({"ec2"}, {"run"})) /\ Counting(kind, action, Fail({"rds"}, {"run"}))
        /\ Counting(kind, action, Fail({"lambda"}, {"run"})) /\ Counting(kind, action, Fail({"s3"}, {"run"}))
        /\ Counting(kind, action, Fail({"ecs"}, {"run"})) /\ Counting(kind, action, Fail({"eks"}, {"run"}))
    BY <1>1, <1>w, OfParts, KnownParts, KnownWanted, Hits
  <1>7. Counting(kind, action, Fail({"ec2"}, Everything)) /\ Counting(kind, action, Fail({"sagemaker"}, Endpoint))
    <2>1. {"run"} \subseteq Everything /\ {"run"} \subseteq Endpoint
      BY DEF Everything, Endpoint
    <2>2. Wanted(kind, action) \subseteq Everything /\ Wanted(kind, action) \subseteq Endpoint
      BY <1>w, <2>1, KnownWanted
    <2>3. Everything \cap Parts(kind) # {} /\ Endpoint \cap Parts(kind) # {}
      BY KnownParts
    <2>4. Counting(kind, action, Fail({"ec2"}, Everything))
      BY <1>1, <2>2, <2>3, OfParts, Hits
    <2>5. Counting(kind, action, Fail({"sagemaker"}, Endpoint))
      BY <1>1, <2>2, <2>3, OfParts, Hits
    <2> QED BY <2>4, <2>5
  <1>8. /\ Achieving(kind, action, StopRDSInstance) /\ Achieving(kind, action, StopEC2Instances)
        /\ Achieving(kind, action, ThrottleLambda) /\ Achieving(kind, action, DenyS3BucketPolicy)
        /\ Achieving(kind, action, ScaleECSService) /\ Achieving(kind, action, ScaleEKSNodeGroup)
    BY <1>6, AchievingOne DEF StopRDSInstance, StopEC2Instances, ThrottleLambda, DenyS3BucketPolicy,
                              ScaleECSService, ScaleEKSNodeGroup
  <1>9. Achieving(kind, action, TerminateEC2Instances) /\ Achieving(kind, action, DeleteSageMakerEndpoint)
    BY <1>7, AchievingOne DEF TerminateEC2Instances, DeleteSageMakerEndpoint
  <1>10. ASSUME AwsAction(kind, action) # Refuses
         PROVE  Achieving(kind, action, AwsCredentials(role) \o AwsAction(kind, action))
    BY <1>4, <1>5, <1>8, <1>9, <1>10, AchievingJoined
  <1> QED BY <1>10, AchievingIs DEF AwsKill

LEMMA DataAchieves ==
  ASSUME NEW kind, NEW action
  PROVE  /\ kind \in AtlasKinds \cup MongoKinds => Achieves(kind, action, MongodbKill(kind, action))
         /\ kind \in RedisKinds => Achieves(kind, action, RedisKill(kind, action))
         /\ kind \in Neo4jKinds => Achieves(kind, action, Neo4jKill(kind, action))
         /\ kind \in NeonKinds => Achieves(kind, action, NeonKill(kind, action))
  <1>1. /\ AtlasKinds \in SUBSET Kinds /\ MongoKinds \in SUBSET Kinds /\ SelfHosted \in SUBSET Kinds
        /\ {"redis-cloud"} \in SUBSET Kinds /\ CacheKinds \in SUBSET Kinds
        /\ {"aura"} \in SUBSET Kinds /\ {"neon"} \in SUBSET Kinds
    BY OfKinds DEF DataKinds, RedisKinds, Neo4jKinds, NeonKinds
  <1>2. Achieves(kind, action, Unsupported)
    BY AchievingIs DEF Unsupported
  <1>3. ASSUME NEW list, list.removes = {"a", "b"}, kind \in {"neon", "mongo"} \cup SelfHosted
        PROVE  Counting(kind, action, list)
    BY <1>3, KnownParts, KnownWanted DEF Counting
  <1>4. /\ Listing({"a", "b"}, "throw", "throw").removes = {"a", "b"}
        /\ Listing({"a", "b"}, "false", "false").removes = {"a", "b"}
        /\ Last(Try(MongoKinds, {"a", "b"})).removes = {"a", "b"}
    BY DEF Listing, Last, Try, Step
  <1>k. /\ kind = "atlas" \/ kind \in RedisKinds \ SelfHosted \/ kind \in Neo4jKinds => kind \in ByRunning
        /\ "neon-billing" \in ByRunning
    BY DEF ByRunning, RedisKinds, CacheKinds, Neo4jKinds
  <1>s. kind \in AtlasKinds \cup MongoKinds \cup RedisKinds \cup Neo4jKinds
            /\ action \in {"scale-down", "isolate", "flush-redis"} => Wanted(kind, action) = {}
    <2>1. AtlasKinds \cup MongoKinds \cup RedisKinds \cup Neo4jKinds \subseteq DataKinds \ NeonKinds
      BY DEF DataKinds, NeonKinds, AtlasKinds, MongoKinds, RedisKinds, CacheKinds, SelfHosted, Neo4jKinds
    <2> QED BY <2>1, KnownWanted
  <1>r. {"run"} \subseteq Whole /\ {"a", "b"} \subseteq Whole
    BY DEF Whole
  <1>5. ASSUME kind \in AtlasKinds \cup MongoKinds PROVE Achieves(kind, action, MongodbKill(kind, action))
    <2>1. kind = "atlas" \/ kind = "mongo"
      BY <1>5 DEF AtlasKinds, MongoKinds
    <2>2. /\ kind = "mongo" => Achieves(kind, action, Runs(KillMongoConnections))
          /\ kind = "atlas" /\ action = "isolate" => Achieves(kind, action, Runs(IsolateAtlas))
      <3>1. kind = "mongo" => Counting(kind, action, Last(Try(MongoKinds, {"a", "b"})))
        BY <1>3, <1>4
      <3>2. kind = "atlas" /\ action = "isolate" => Counting(kind, action, Listing({"a", "b"}, "throw", "throw"))
        BY <1>4, <1>5, <1>s, KnownParts DEF Counting
      <3> QED BY <3>1, <3>2, AchievingOne, AchievingIs DEF Runs, IsolateAtlas, KillMongoConnections
    <2>3. /\ kind = "atlas" =>
                /\ action = "scale-down" => Counting(kind, action, Must(AtlasKinds, {"size"}))
                /\ Counting(kind, action, Must(AtlasKinds, {"run"}))
                /\ Counting(kind, action, Must(AtlasKinds, Whole))
          /\ kind = "mongo" /\ action = "delete" => Counting(kind, action, Must(MongoKinds, {"data"}))
      <3>1. kind = "atlas" => /\ Counting(kind, action, Must(AtlasKinds, {"run"}))
                              /\ Counting(kind, action, Must(AtlasKinds, Whole))
        BY <1>1, <1>k, <1>r, OfParts, KnownParts, KnownWanted, Hits
      <3>2. kind = "atlas" /\ action = "scale-down" => Counting(kind, action, Must(AtlasKinds, {"size"}))
        BY <1>1, <1>5, <1>s, OfParts, KnownParts, Hits
      <3>3. kind = "mongo" /\ action = "delete" => Counting(kind, action, Must(MongoKinds, {"data"}))
        BY <1>1, OfParts, KnownParts, KnownWanted, Hits
      <3> QED BY <3>1, <3>2, <3>3
    <2>4. kind = "mongo" => Counting(kind, action, Step(MongoKinds, {"run", "a", "b"}, "throw", "true"))
      <3>1. kind = "mongo" => {"run"} \cap Parts(kind) # {} /\ Wanted(kind, action) \subseteq {"a", "b"}
        BY KnownParts, KnownWanted
      <3>2. kind = "mongo" =>
              {"run", "a", "b"} \cap Parts(kind) # {} /\ Wanted(kind, action) \subseteq {"run", "a", "b"}
        BY <3>1
      <3> QED BY <3>2 DEF Counting, Step
    <2>5. /\ kind = "atlas" /\ action = "scale-down" => Achieves(kind, action, Runs(ScaleDownAtlas))
          /\ kind = "atlas" => /\ Achieves(kind, action, Runs(PauseAtlas))
                               /\ Achieves(kind, action, Runs(AtlasRequest(Whole)))
          /\ kind = "mongo" /\ action = "delete" => Achieves(kind, action, Runs(DropDatabase))
          /\ kind = "mongo" => Achieves(kind, action, Runs(ShutdownSelfHosted))
      BY <2>3, <2>4, AchievingOne, AchievingIs DEF Runs, ScaleDownAtlas, PauseAtlas, AtlasRequest,
                                                   DropDatabase, ShutdownSelfHosted
    <2> QED BY <1>2, <2>2, <2>5 DEF MongodbKill
  <1>6. ASSUME kind \in RedisKinds PROVE Achieves(kind, action, RedisKill(kind, action))
    <2>1. kind \in SelfHosted => Achieves(kind, action, Runs(KillRedisConnections))
      BY <1>3, <1>4, AchievingOne, AchievingIs DEF Runs, KillRedisConnections
    <2>2. action \in {"scale-down", "isolate", "flush-redis"} /\ kind \in SelfHosted =>
             Counting(kind, action, Must(SelfHosted, {"data"})) /\ Counting(kind, action, SetMaxmemory(kind))
      BY <1>1, <1>6, <1>s, OfParts, KnownParts, Hits DEF SetMaxmemory
    <2>3. kind \notin SelfHosted =>
            /\ Counting(kind, action, Must({"redis-cloud"}, Whole))
            /\ Counting(kind, action, Must(CacheKinds, Whole))
      BY <1>1, <1>6, <1>k, <1>r, OfParts, KnownParts, KnownWanted, Hits
    <2>4. action = "scale-down" =>
            /\ kind = "redis-cloud" => Counting(kind, action, Must({"redis-cloud"}, {"size"}))
            /\ kind = "elasticache" => Counting(kind, action, Must(CacheKinds, {"size"}))
      BY <1>1, <1>6, <1>s, OfParts, KnownParts, Hits
    <2>5. action \in {"scale-down", "isolate", "flush-redis"} /\ kind \in SelfHosted =>
             /\ Achieves(kind, action, Runs(FlushSelfHosted))
             /\ Achieves(kind, action, Runs(ScaleDownSelfHosted(kind)))
      BY <2>2, AchievingOne, AchievingIs DEF Runs, FlushSelfHosted, ScaleDownSelfHosted
    <2>6. /\ action = "scale-down" =>
               /\ kind = "redis-cloud" => Achieves(kind, action, Runs(RedisCloudRequest({"size"})))
               /\ kind \in CacheKinds => Achieves(kind, action, ScaleDownElastiCache(kind))
          /\ kind \notin SelfHosted =>
               /\ Achieves(kind, action, Runs(RedisCloudRequest(Whole)))
               /\ Achieves(kind, action, Runs(DeleteElastiCache))
      BY <2>3, <2>4, AchievingOne, AchievingIs DEF Runs, RedisCloudRequest, ScaleDownElastiCache, DeleteElastiCache
    <2>7. "redis-cloud" \notin SelfHosted /\ CacheKinds \cap SelfHosted = {}
      BY DEF SelfHosted, CacheKinds
    <2> QED BY <1>2, <2>1, <2>5, <2>6, <2>7 DEF RedisKill
  <1>7. ASSUME kind \in Neo4jKinds PROVE Achieves(kind, action, Neo4jKill(kind, action))
    <2>1. /\ Counting(kind, action, Fail({"aura"}, {"run"})) /\ Counting(kind, action, Fail({"aura"}, Whole))
          /\ action = "scale-down" => Counting(kind, action, Fail({"aura"}, {"size"}))
      <3>1. Counting(kind, action, Fail({"aura"}, {"run"})) /\ Counting(kind, action, Fail({"aura"}, Whole))
        <4>1. "aura" \in ByRunning
          BY DEF ByRunning
        <4> QED BY <1>1, <1>r, <4>1, OfParts, KnownParts, KnownWanted, Hits
      <3>2. action = "scale-down" => Counting(kind, action, Fail({"aura"}, {"size"}))
        BY <1>1, <1>7, <1>s, OfParts, KnownParts, Hits
      <3> QED BY <3>1, <3>2
    <2>2. /\ Achieves(kind, action, Runs(<<AuraToken, Fail({"aura"}, {"run"})>>))
          /\ action = "scale-down" => Achieves(kind, action, Runs(<<AuraToken, Fail({"aura"}, {"size"})>>))
          /\ Achieves(kind, action, Runs(<<AuraToken, Fail({"aura"}, Whole)>>))
          /\ Achieves(kind, action, Program(<<AuraToken>>, "never"))
      BY <2>1, AchievingOne, AchievingIs DEF Runs
    <2> QED BY <2>2 DEF Neo4jKill
  <1>8. ASSUME kind \in NeonKinds PROVE Achieves(kind, action, NeonKill(kind, action))
    <2>1. Counting(kind, action, Fail({"neon"}, Whole))
      BY <1>1, <1>r, OfParts, KnownParts, KnownWanted, Hits
    <2>2. kind # "neon" => Counting(kind, action, Fail({"neon"}, {}))
      BY <1>1, OfParts, Hits
    <2>3. /\ Achieves(kind, action, Runs(<<Fail({"neon"}, Whole)>>))
          /\ Achieves(kind, action, Runs(<<Fail({"neon"}, {}), Listing({"a", "b"}, "false", "false"),
                                   Each({"a", "b"}, "false", "false")>>))
      BY <1>3, <1>4, <2>1, <2>2, AchievingOne, AchievingIs DEF Runs
    <2> QED BY <1>2, <2>3 DEF NeonKill
  <1> QED BY <1>5, <1>6, <1>7, <1>8

LEMMA ComputeAchieves ==
  ASSUME NEW kind, NEW action
  PROVE  /\ kind \in RunpodKinds => Achieves(kind, action, RunpodKill(kind, action))
         /\ kind = "vercel" => Achieves(kind, action, VercelKill(action))
         /\ kind = "replicate" => Achieves(kind, action, ReplicateKill(action))
         /\ kind = "snowflake" => Achieves(kind, action, SnowflakeKill(action))
         /\ Achieves(kind, action, Unsupported)
         /\ kind \in {"edge-gcp", "edge-nuclear"} => Achieves(kind, action, KillSwitchGcp(kind))
         /\ kind = "edge-aws" => Achieves(kind, action, KillSwitchAws)
  <1>1. Achieves(kind, action, Unsupported)
    BY AchievingIs DEF Unsupported
  <1>2. {"pod"} \in SUBSET Kinds /\ {"serverless"} \in SUBSET Kinds /\ {"snowflake"} \in SUBSET Kinds
    BY OfKinds DEF ComputeKinds, RunpodKinds
  <1>w. RunpodKinds \cup {"snowflake"} \subseteq ByRunning
    BY DEF ByRunning
  <1>3. ASSUME kind \in RunpodKinds PROVE Achieves(kind, action, RunpodKill(kind, action))
    <2>1. Wanted(kind, action) \subseteq {"run"}
      BY <1>3, <1>w, KnownWanted
    <2>2. /\ Counting(kind, action, Fail({"pod"}, {"run"})) /\ Counting(kind, action, Fail({"serverless"}, {"run"}))
          /\ Counting(kind, action, Fail({"pod"}, {"run", "data", "self"}))
      BY <1>2, <1>3, <1>w, <2>1, OfParts, KnownParts, Hits
    <2>3. /\ Achieves(kind, action, StopPod) /\ Achieves(kind, action, TerminatePod)
          /\ Achieves(kind, action, ScaleDownEndpoint)
      BY <2>2, AchievingOne, AchievingIs DEF StopPod, TerminatePod, ScaleDownEndpoint, Runs
    <2> QED BY <1>1, <2>3 DEF RunpodKill, RunpodByType
  <1>4. ASSUME kind \in {"vercel", "replicate"} PROVE Achieves(kind, action, CancelJobs)
    <2>1. {"a", "b"} \cap Parts(kind) # {} /\ Wanted(kind, action) \subseteq {"a", "b"}
      BY <1>4, KnownParts, KnownWanted DEF JobKinds
    <2>2. Counting(kind, action, Listing({"a", "b"}, "false", "false"))
      BY <2>1 DEF Counting, Listing, Step
    <2> QED BY <2>2, AchievingOne, AchievingIs DEF CancelJobs, Counts
  <1>5. ASSUME kind = "snowflake" PROVE Achieves(kind, action, SnowflakeKill(action))
    <2>1. /\ action = "scale-down" => Counting(kind, action, Fail({"snowflake"}, {"size"}))
          /\ Counting(kind, action, Fail({"snowflake"}, {"run"}))
      BY <1>2, <1>5, <1>w, OfParts, KnownParts, KnownWanted, Hits
    <2>2. /\ action = "scale-down" => Achieves(kind, action, Runs(<<Fail({"snowflake"}, {"size"})>>))
          /\ Achieves(kind, action, Runs(<<Fail({"snowflake"}, {"run"})>>))
      BY <2>1, AchievingOne, AchievingIs DEF Runs
    <2> QED BY <1>1, <2>2 DEF SnowflakeKill
  <1>6. ASSUME NEW parts \in SUBSET PartNames
        PROVE  /\ Covers(parts, Sweep(parts))
               /\ Covers(parts, <<Listing(parts, "next", "next"), Batch(parts, "next", "next")>>)
    <2> DEFINE list == Listing(parts, "next", "next")
    <2>1. "next" \in Handlers
      BY DEF Handlers
    <2>2. /\ list \in StepShape /\ list.removes = parts
          /\ Each(parts, "next", "next") \in StepShape /\ Batch(parts, "next", "next") \in StepShape
      BY <2>1, PairFields
    <2> HIDE DEF list
    <2>3. ASSUME NEW each \in StepShape PROVE Covers(parts, <<list, each>>)
      <3>1. <<list, each>> \in Seq(StepShape) /\ 1 \in 1 .. Len(<<list, each>>) /\ <<list, each>>[1] = list
        BY <2>2
      <3> QED BY <2>2, <3>1 DEF Covers
    <2> QED BY <2>2, <2>3 DEF Sweep, list
  <1>7. /\ {"svc", "svcP"} \in SUBSET PartNames /\ {"vm", "vmP"} \in SUBSET PartNames
        /\ {"fn", "fnP"} \in SUBSET PartNames /\ {"billing"} \in SUBSET PartNames
        /\ {"endpoint"} \in SUBSET PartNames
    BY DEF PartNames
  <1>8. Covers({}, AlertPagerDuty)
    <2>1. EdgeKinds \in SUBSET Kinds
      BY OfKinds DEF ComputeKinds
    <2>2. Alone(kind, Try(EdgeKinds, {}))
      BY <2>1, OfParts, Trying
    <2> QED BY <2>2 DEF AlertPagerDuty, Alone, Covers
  <1>9. /\ kind = "edge-gcp" => Levers(kind) = {"svc", "svcP", "vm", "vmP", "fn", "fnP"}
        /\ kind = "edge-aws" => Levers(kind) = {"svc", "svcP", "vm", "vmP", "fn", "fnP", "endpoint"}
        /\ kind = "edge-nuclear" => Levers(kind) = {"billing"}
        /\ Levers(kind) \subseteq Parts(kind) /\ Wanted(kind, action) \subseteq Levers(kind)
    BY DEF Levers, JobKinds, SelfHosted, Parts, Wanted
  <1>10. /\ Covers({"svc", "svcP"}, ScaleDownCloudRunServices) /\ Covers({"vm", "vmP"}, StopComputeInstances)
         /\ Covers({"fn", "fnP"}, ScaleDownCloudFunctions) /\ Covers({"billing"}, DisableBilling)
         /\ Covers({"vm", "vmP"}, EdgeStopEC2Instances) /\ Covers({"fn", "fnP"}, EdgeThrottleLambdaFunctions)
         /\ Covers({"svc", "svcP"}, EdgeScaleDownECSServices)
         /\ Covers({"endpoint"}, EdgeDeleteSageMakerEndpoints)
    BY <1>6, <1>7 DEF ScaleDownCloudRunServices, StopComputeInstances, ScaleDownCloudFunctions, DisableBilling,
                      EdgeStopEC2Instances, EdgeThrottleLambdaFunctions, EdgeScaleDownECSServices,
                      EdgeDeleteSageMakerEndpoints
  <1>11. ASSUME kind = "edge-gcp" PROVE Achieves(kind, action, KillSwitchGcp(kind))
    <2> DEFINE parts == (({"svc", "svcP"} \cup {"vm", "vmP"}) \cup {"fn", "fnP"}) \cup {}
    <2>1. Covers({"svc", "svcP"} \cup {"vm", "vmP"}, ScaleDownCloudRunServices \o StopComputeInstances)
      BY <1>10, CoversOn
    <2>2. Covers(({"svc", "svcP"} \cup {"vm", "vmP"}) \cup {"fn", "fnP"},
                 (ScaleDownCloudRunServices \o StopComputeInstances) \o ScaleDownCloudFunctions)
      BY <1>10, <2>1, CoversOn
    <2>3. Covers(parts, ((ScaleDownCloudRunServices \o StopComputeInstances) \o ScaleDownCloudFunctions)
                            \o AlertPagerDuty)
      BY <1>8, <2>2, CoversOn
    <2>4. Wanted(kind, action) \subseteq parts /\ parts \cap Parts(kind) # {}
      BY <1>9, <1>11
    <2>5. Achieving(kind, action, ((ScaleDownCloudRunServices \o StopComputeInstances) \o ScaleDownCloudFunctions)
                            \o AlertPagerDuty)
      <3> HIDE DEF parts
      <3> QED BY <2>3, <2>4, CoversAll
    <2> QED BY <1>11, <2>5, AchievingIs DEF KillSwitchGcp, Runs
  <1>12. ASSUME kind = "edge-nuclear" PROVE Achieves(kind, action, KillSwitchGcp(kind))
    <2>1. Covers({"billing"} \cup {}, DisableBilling \o AlertPagerDuty)
      BY <1>8, <1>10, CoversOn
    <2>2. Wanted(kind, action) \subseteq {"billing"} \cup {} /\ ({"billing"} \cup {}) \cap Parts(kind) # {}
      BY <1>9, <1>12
    <2>3. Achieving(kind, action, DisableBilling \o AlertPagerDuty)
      BY <2>1, <2>2, CoversAll
    <2> QED BY <1>12, <2>3, AchievingIs DEF KillSwitchGcp, Runs
  <1>13. ASSUME kind = "edge-aws" PROVE Achieves(kind, action, KillSwitchAws)
    <2> DEFINE parts == ((({"vm", "vmP"} \cup {"fn", "fnP"}) \cup {"svc", "svcP"}) \cup {"endpoint"}) \cup {}
    <2>1. Covers({"vm", "vmP"} \cup {"fn", "fnP"}, EdgeStopEC2Instances \o EdgeThrottleLambdaFunctions)
      BY <1>10, CoversOn
    <2>2. Covers(({"vm", "vmP"} \cup {"fn", "fnP"}) \cup {"svc", "svcP"},
                 (EdgeStopEC2Instances \o EdgeThrottleLambdaFunctions) \o EdgeScaleDownECSServices)
      BY <1>10, <2>1, CoversOn
    <2>3. Covers((({"vm", "vmP"} \cup {"fn", "fnP"}) \cup {"svc", "svcP"}) \cup {"endpoint"},
                 ((EdgeStopEC2Instances \o EdgeThrottleLambdaFunctions) \o EdgeScaleDownECSServices)
                            \o EdgeDeleteSageMakerEndpoints)
      BY <1>10, <2>2, CoversOn
    <2>4. Covers(parts, (((EdgeStopEC2Instances \o EdgeThrottleLambdaFunctions) \o EdgeScaleDownECSServices)
                            \o EdgeDeleteSageMakerEndpoints) \o AlertPagerDuty)
      BY <1>8, <2>3, CoversOn
    <2>5. Wanted(kind, action) \subseteq parts /\ parts \cap Parts(kind) # {}
      BY <1>9, <1>13
    <2>6. Achieving(kind, action, (((EdgeStopEC2Instances \o EdgeThrottleLambdaFunctions)
                            \o EdgeScaleDownECSServices) \o EdgeDeleteSageMakerEndpoints) \o AlertPagerDuty)
      <3> HIDE DEF parts
      <3> QED BY <2>4, <2>5, CoversAll
    <2> QED BY <2>6, AchievingIs DEF KillSwitchAws, Runs
  <1> QED BY <1>1, <1>3, <1>4, <1>5, <1>11, <1>12, <1>13 DEF VercelKill, ReplicateKill

(* Whatever is asked of an adapter, a success has something to show for     *)
(* itself: but for the sum over all services of GCP and the query quota.   *)
LEMMA ProgramsAchieve ==
  ASSUME NEW kind \in Kinds \ {"all-services"}, NEW action, action # "set-quota", NEW role \in BOOLEAN
  PROVE  Achieves(kind, action, KillProgram(kind, action, role))
  <1>1. /\ kind \in CfKinds => Achieves(kind, action, CloudflareKill(kind, action))
        /\ kind \in GcpKinds => Achieves(kind, action, GcpKill(kind, action))
        /\ kind \in AwsKinds => Achieves(kind, action, AwsKill(kind, action, role))
    BY CfAchieves, GcpAchieves, AwsAchieves
  <1>2. /\ kind \in AtlasKinds \cup MongoKinds => Achieves(kind, action, MongodbKill(kind, action))
        /\ kind \in RedisKinds => Achieves(kind, action, RedisKill(kind, action))
        /\ kind \in Neo4jKinds => Achieves(kind, action, Neo4jKill(kind, action))
        /\ kind \in NeonKinds => Achieves(kind, action, NeonKill(kind, action))
    BY DataAchieves
  <1>3. /\ kind \in RunpodKinds => Achieves(kind, action, RunpodKill(kind, action))
        /\ kind = "vercel" => Achieves(kind, action, VercelKill(action))
        /\ kind = "replicate" => Achieves(kind, action, ReplicateKill(action))
        /\ kind = "snowflake" => Achieves(kind, action, SnowflakeKill(action))
        /\ Achieves(kind, action, OpenaiKill(action)) /\ Achieves(kind, action, AnthropicKill(action))
        /\ Achieves(kind, action, XaiKill(action)) /\ Achieves(kind, action, DatadogKill(action))
        /\ kind \in {"edge-gcp", "edge-nuclear"} => Achieves(kind, action, KillSwitchGcp(kind))
    BY ComputeAchieves DEF OpenaiKill, AnthropicKill, XaiKill, DatadogKill
  <1>4. \/ kind \in CfKinds \/ kind \in GcpKinds \/ kind \in AwsKinds \/ kind \in AtlasKinds \cup MongoKinds
        \/ kind \in RedisKinds \/ kind \in Neo4jKinds \/ kind \in NeonKinds \/ kind \in RunpodKinds
        \/ kind = "vercel" \/ kind = "replicate" \/ kind = "snowflake" \/ kind = "openai"
        \/ kind = "anthropic" \/ kind = "xai" \/ kind = "datadog"
        \/ kind \in {"edge-gcp", "edge-nuclear"} \/ Achieves(kind, action, KillSwitchAws)
    BY ComputeAchieves DEF Kinds, DataKinds, ComputeKinds, LlmKinds, JobKinds, EdgeKinds
  <1>5. CASE kind \in {"edge-gcp", "edge-nuclear"}
    BY <1>1, <1>2, <1>3, <1>5, Zenon DEF KillProgram
  <1>6. CASE kind \notin {"edge-gcp", "edge-nuclear"}
    <2>1. \/ kind \in CfKinds \/ kind \in GcpKinds \/ kind \in AwsKinds \/ kind \in AtlasKinds \cup MongoKinds
          \/ kind \in RedisKinds \/ kind \in Neo4jKinds \/ kind \in NeonKinds \/ kind \in RunpodKinds
          \/ kind = "vercel" \/ kind = "replicate" \/ kind = "snowflake" \/ kind = "openai"
          \/ kind = "anthropic" \/ kind = "xai" \/ kind = "datadog"
          \/ Achieves(kind, action, KillSwitchAws)
      BY <1>4, <1>6
    <2> QED BY <1>1, <1>2, <1>3, <2>1, ZenonT(120) DEF KillProgram
  <1> QED BY <1>5, <1>6

(************************* carrying a program out **************************)
(* What is known of the kill in progress.                                  *)
CallRecords ==
    [action : AnyAction, step : Nat, todo : SUBSET PartNames, listed : SUBSET PartNames,
     accepted : SUBSET PartNames, trouble : SUBSET {"denied", "gone", "refused", "lost", "restarted"},
     hurt : BOOLEAN, result : {"none", "running", "success", "failure", "threw"}]
CallShape == call \in CallRecords
(* What has been listed is about to be taken down. *)
Awaited ==
    /\ call.step <= Len(Doing.steps)
    /\ \/ TakesDown(Current)
       \/ /\ Current.does = "act" /\ call.step + 1 <= Len(Doing.steps)
          /\ TakesDown(Doing.steps[call.step + 1])
KillInv ==
    /\ target \in Targets /\ config \in Configs
    /\ live \subseteq Parts(target) /\ CallShape
    /\ call.step > 0 <=> call.result = "running"
    /\ call.step <= Len(Doing.steps) + 1
    /\ "data" \notin call.todo
    /\ call.step > 0 /\ call.todo # {} => Awaited

(* Data that is gone was the last thing to go, or an answer was lost. *)
HurtIsLast ==
    call.hurt => \/ "lost" \in call.trouble \/ target = "redis-evicting"
                 \/ /\ Doing.says = "always"
                    /\ call.result = "success" \/ call.step = Len(Doing.steps) + 1

(* Nothing has been passed over that the adapter looks at. *)
Acceptable == call.trouble = {} \/ (target \notin BestEffortKinds /\ "restarted" \notin call.trouble)
BehindIsDown ==
    call.step > 0 /\ Acceptable =>
        \A i \in 1 .. Len(Doing.steps) : i < call.step =>
            /\ Doing.steps[i].removes \cap live \subseteq Protected \cup call.todo
            /\ ~Misses(target, Doing.steps[i])

LEMMA HandlerIs ==
  ASSUME NEW step
  PROVE  /\ HandlerFor(step, "done") = step.ok /\ HandlerFor(step, "denied") = step.auth
         /\ HandlerFor(step, "refused") = step.refused /\ HandlerFor(step, "gone") = step.refused
         /\ HandlerFor(step, "lost") = step.lost
  BY DEF HandlerFor

LEMMA ProgramIs ==
  ASSUME AdapterConstantsOK, NEW kind \in Targets, NEW action \in AnyAction, NEW role \in BOOLEAN
  PROVE  /\ KillPrograms[kind][action][role] = KillProgram(kind, action, role)
         /\ kind \in Kinds /\ WellMade(kind, KillPrograms[kind][action][role])
         /\ KillPrograms[kind][action][role].steps \in Seq(StepShape)
  <1>1. kind \in Kinds
    BY DEF AdapterConstantsOK
  <1>2. KillPrograms[kind][action][role] = KillProgram(kind, action, role)
    BY DEF KillPrograms
  <1> QED BY <1>1, <1>2, ProgramsWellMade DEF WellMade, HasShape

LEMMA DoingIs ==
  ASSUME AdapterConstantsOK, KillInv
  PROVE  /\ Doing = KillProgram(target, call.action, config.role)
         /\ target \in Kinds /\ config.role \in BOOLEAN /\ WellMade(target, Doing)
         /\ Doing.steps \in Seq(StepShape) /\ call.action \in AnyAction
  <1>1. config.role \in BOOLEAN /\ call.action \in AnyAction /\ target \in Targets
    BY DEF AdapterConstantsOK, KillInv, CallShape, CallRecords
  <1> QED BY <1>1, ProgramIs DEF Doing

(* One request, in a form the proofs can use. *)
Answer(item, o, effect) ==
    LET then == HandlerFor(Current, o) IN
    /\ Current.does \in {"act", "list"} => item = {}
    /\ Current.does = "each" => \E p \in call.todo : item = {p}
    /\ Current.does = "batch" => item = call.todo
    /\ o \in {"done", "gone", "denied", "refused", "lost"}
    /\ o = "done" /\ Current.does = "act" => target \in Current.of
    /\ effect = {} \/ (o \in {"done", "lost"} /\ effect = Removes(Current, item))
    /\ o = "done" => effect = Removes(Current, item)
    /\ live' = live \ effect
    /\ call' = [action |-> call.action, step |-> call'.step, todo |-> LeftOver(Current, item, o),
                listed |-> call'.listed, accepted |-> call'.accepted, trouble |-> call'.trouble,
                hurt |-> call'.hurt, result |-> call'.result]
    /\ call'.hurt = (call.hurt \/ "data" \in effect \cap live)
    /\ call'.trouble = IF o = "done" THEN call.trouble ELSE call.trouble \cup {o}
    /\ call'.listed \in {call.listed, LeftOver(Current, item, o)}
    /\ call'.accepted \in {call.accepted, call.accepted \cup item}
    /\ Over(then) => call'.step = 0 /\ call'.result = ResultOf(then)
    /\ ~Over(then) => /\ call'.result = call.result
                     /\ call'.step = IF Current.does = "each" /\ LeftOver(Current, item, o) # {}
                                     THEN call.step ELSE call.step + 1

LEMMA RequestIs ==
  ASSUME AdapterConstantsOK, KillInv, Request
  PROVE  /\ call.step \in 1 .. Len(Doing.steps) /\ Current \in StepShape
         /\ UNCHANGED env
         /\ \E item \in SUBSET call.todo : \E o, effect : Answer(item, o, effect)
  <1>1. /\ call.step \in 1 .. Len(Doing.steps) /\ Current \in StepShape
        /\ Doing.steps \in Seq(StepShape)
    BY DoingIs DEF WellMade, HasShape, Request, Current
  <1>2. UNCHANGED env
    BY DEF Request
  <1>p. PICK item \in Items(Current), o \in Outcomes(Current) :
          \E effect \in Effects(Current, item, o) :
            /\ live' = live \ effect
            /\ call' = Answered(Current, item, o, "data" \in effect \cap live)
    BY DEF Request
  <1>3. PICK effect \in Effects(Current, item, o) :
          /\ live' = live \ effect
          /\ call' = Answered(Current, item, o, "data" \in effect \cap live)
    BY <1>p
  <1> DEFINE left == LeftOver(Current, item, o)
             then == HandlerFor(Current, o)
  <1>4. /\ item \in SUBSET call.todo
        /\ Current.does \in {"act", "list"} => item = {}
        /\ Current.does = "each" => \E p \in call.todo : item = {p}
        /\ Current.does = "batch" => item = call.todo
    BY <1>1, <1>3 DEF Items, StepShape
  <1>5. /\ o \in {"done", "gone", "denied", "refused", "lost"}
        /\ o = "done" /\ Current.does = "act" => target \in Current.of
    BY <1>1, <1>3 DEF Outcomes, Found
  <1>6. /\ effect = {} \/ (o \in {"done", "lost"} /\ effect = Removes(Current, item))
        /\ o = "done" => effect = Removes(Current, item)
    BY <1>3, <1>5 DEF Effects
  <1> HIDE DEF left, then
  <1>7. call' = [call EXCEPT
            !.todo = left,
            !.listed = IF Current.does = "list" THEN left ELSE @,
            !.accepted = IF o = "done" THEN @ \cup item ELSE @,
            !.hurt = @ \/ "data" \in effect \cap live,
            !.trouble = IF o = "done" THEN @ ELSE @ \cup {o},
            !.step = IF Over(then) THEN 0 ELSE IF Current.does = "each" /\ left # {} THEN @ ELSE @ + 1,
            !.result = IF Over(then) THEN ResultOf(then) ELSE @]
    BY <1>3 DEF Answered, left, then
  <1>8. /\ call' = [action |-> call.action, step |-> call'.step, todo |-> left,
                listed |-> call'.listed, accepted |-> call'.accepted, trouble |-> call'.trouble,
                hurt |-> call'.hurt, result |-> call'.result]
        /\ call'.hurt = (call.hurt \/ "data" \in effect \cap live)
        /\ call'.trouble = IF o = "done" THEN call.trouble ELSE call.trouble \cup {o}
        /\ call'.listed \in {call.listed, left} /\ call'.accepted \in {call.accepted, call.accepted \cup item}
        /\ Over(then) => call'.step = 0 /\ call'.result = ResultOf(then)
        /\ ~Over(then) => /\ call'.result = call.result
                         /\ call'.step = IF Current.does = "each" /\ left # {} THEN call.step ELSE call.step + 1
    BY <1>7 DEF KillInv, CallShape, CallRecords
  <1>9. Answer(item, o, effect)
    BY <1>3, <1>4, <1>5, <1>6, <1>8 DEF Answer, left, then
  <1> QED BY <1>1, <1>2, <1>4, <1>9

(* What a step may do to the kill and to the parts. *)
Rests    == UNCHANGED <<target, config, live, call>>
Forgets  == call' = NoCall /\ UNCHANGED <<target, config, live>>
Starts   == /\ call.step = 0 /\ \E action \in AnyAction : Begin(action)
            /\ UNCHANGED <<target, config, live>>

LEMMA StepIs ==
  ASSUME AdapterConstantsOK, target \in Targets, [Next]_vars
  PROVE  Rests \/ Forgets \/ Starts \/ EndKill \/ NothingListed \/ Request \/ Restart
  <1>1. CASE UNCHANGED vars
    BY <1>1 DEF vars, Rests
  <1>2. CASE Connect \/ Publish \/ BudgetAlert \/ Surge \/ NewDay \/ Revoke
    BY <1>2 DEF Connect, Publish, BudgetAlert, Surge, NewDay, Revoke, env, Rests
  <1>3. CASE Check \/ Die
    BY <1>3 DEF Check, Die, env, Forgets
  <1>4. CASE EngineKill
    <2>1. EngineAction \in AnyAction
      BY DEF EngineAction, AnyAction
    <2>2. UNCHANGED <<target, config, live>>
      BY <1>4 DEF EngineKill, env
    <2>3. call.step = 0 /\ (Begin(EngineAction) \/ UNCHANGED call)
      BY <1>4 DEF EngineKill, Idle
    <2> QED BY <2>1, <2>2, <2>3 DEF Starts, Rests
  <1>5. CASE \E action \in Actions : AskKill(action)
    <2>1. \E action \in AnyAction : Begin(action)
      BY <1>5 DEF AskKill, AnyAction
    <2> QED BY <1>5, <2>1 DEF AskKill, Idle, env, Starts
  <1>6. CASE Deliver
    <2>1. UNCHANGED <<target, config, live>> /\ call.step = 0 /\ (Begin("sweep") \/ UNCHANGED call)
      BY <1>6 DEF Deliver, env
    <2> QED BY <2>1 DEF AnyAction, Starts, Rests
  <1> QED BY <1>1, <1>2, <1>3, <1>4, <1>5, <1>6 DEF Next, Work

(* The kill before it has done anything. *)
LEMMA NoAction == "none" \in AnyAction
  BY Zenon DEF AnyAction

Begun(action) == [NoCall EXCEPT !.action = action, !.step = 1, !.result = "running"]

LEMMA Fresh ==
  ASSUME NEW action \in AnyAction, NEW fresh, fresh = NoCall \/ fresh = Begun(action)
  PROVE  /\ fresh \in CallRecords /\ fresh.action \in AnyAction
         /\ fresh.todo = {} /\ fresh.listed = {} /\ fresh.accepted = {} /\ fresh.trouble = {}
         /\ ~fresh.hurt /\ fresh.result \in {"none", "running"} /\ fresh.step \in {0, 1}
         /\ fresh.step > 0 <=> fresh.result = "running"
  <1>1. /\ NoCall \in CallRecords
        /\ NoCall.todo = {} /\ NoCall.listed = {} /\ NoCall.accepted = {} /\ NoCall.trouble = {}
        /\ ~NoCall.hurt /\ NoCall.result = "none" /\ NoCall.step = 0
    BY NoAction DEF NoCall, CallRecords
  <1>2. CASE fresh = NoCall
    BY <1>1, <1>2, NoAction DEF CallRecords
  <1>3. CASE fresh = Begun(action)
    <2>1. fresh \in CallRecords
      BY <1>1, <1>3 DEF CallRecords, Begun
    <2>2. /\ fresh.todo = NoCall.todo /\ fresh.listed = NoCall.listed
          /\ fresh.accepted = NoCall.accepted /\ fresh.trouble = NoCall.trouble
          /\ fresh.hurt = NoCall.hurt
          /\ fresh.action = action /\ fresh.step = 1 /\ fresh.result = "running"
      BY <1>1, <1>3 DEF CallRecords, Begun
    <2> QED BY <1>1, <2>1, <2>2
  <1> QED BY <1>2, <1>3

LEMMA KillInvStarts == ASSUME AdapterConstantsOK, Init PROVE KillInv
  <1>1. /\ target \in Targets /\ config \in Configs /\ live = Parts(target) /\ call = NoCall
        /\ config.role \in BOOLEAN
    BY DEF Init, AdapterConstantsOK
  <1>2. Doing.steps \in Seq(StepShape)
    BY <1>1, ProgramIs DEF Doing, NoCall, AnyAction
  <1>3. CallShape
    BY <1>1 DEF CallShape, CallRecords, NoCall, AnyAction
  <1> QED BY <1>1, <1>2, <1>3 DEF KillInv, NoCall

LEMMA KillInvRequest ==
  ASSUME AdapterConstantsOK, KillInv, Request
  PROVE  KillInv'
  <1>1. /\ call.step \in 1 .. Len(Doing.steps) /\ Current \in StepShape /\ UNCHANGED env
        /\ Doing.steps \in Seq(StepShape) /\ DataLast(target, Doing) /\ Paired(Doing)
    BY RequestIs, DoingIs DEF WellMade
  <1>i. PICK item \in SUBSET call.todo : \E o, effect : Answer(item, o, effect)
    BY RequestIs
  <1>2. PICK o, effect : Answer(item, o, effect)
    BY <1>i
  <1>3. UNCHANGED <<target, config>> /\ live' \subseteq Parts(target) /\ target' = target
    BY <1>1, <1>2 DEF env, KillInv, Answer
  <1> DEFINE left == LeftOver(Current, item, o)
  <1>4. left \in SUBSET PartNames /\ "data" \notin left
    <2>1. CASE Current.does = "list"
      BY <1>1, <2>1 DEF LeftOver, StepShape, DataLast, Current
    <2>2. CASE Current.does # "list"
      BY <1>2, <2>2 DEF LeftOver, KillInv, CallShape, CallRecords
    <2> QED BY <2>1, <2>2
  <1>5. /\ call'.todo = left /\ call'.action = call.action
        /\ call'.step \in {0, call.step, call.step + 1}
    BY <1>2 DEF Answer
  <1>6. CallShape'
    <2>1. call'.listed \in SUBSET PartNames /\ call'.accepted \in SUBSET PartNames
      BY <1>2, <1>4 DEF Answer, KillInv, CallShape, CallRecords
    <2>2. call'.hurt \in BOOLEAN
      BY <1>2 DEF Answer, KillInv, CallShape, CallRecords
    <2>3. call'.trouble \in SUBSET {"denied", "gone", "refused", "lost", "restarted"}
      BY <1>2 DEF Answer, KillInv, CallShape, CallRecords
    <2>4. call'.result \in {"none", "running", "success", "failure", "threw"} /\ call'.step \in Nat
      BY <1>1, <1>2, <1>5 DEF Answer, KillInv, CallShape, CallRecords, ResultOf
    <2>5. call.action \in AnyAction
      BY DEF KillInv, CallShape, CallRecords
    <2>6. AnyAction' = AnyAction /\ PartNames' = PartNames
      BY DEF AnyAction, PartNames
    <2>7. call' = [action |-> call.action, step |-> call'.step, todo |-> left,
                listed |-> call'.listed, accepted |-> call'.accepted, trouble |-> call'.trouble,
                hurt |-> call'.hurt, result |-> call'.result]
      BY <1>2 DEF Answer
    <2> HIDE DEF left
    <2> QED BY <1>4, <2>1, <2>2, <2>3, <2>4, <2>5, <2>6, <2>7 DEF CallShape, CallRecords
  <1>7. call'.step > 0 <=> call'.result = "running"
    BY <1>1, <1>2 DEF Answer, KillInv, ResultOf
  <1>8. Doing' = Doing
    BY <1>3, <1>5 DEF Doing
  <1>9. call'.step <= Len(Doing.steps) + 1
    BY <1>1, <1>5
  <1>10. ASSUME call'.step > 0, call'.todo # {} PROVE Awaited'
    <2>1. ~Over(HandlerFor(Current, o)) /\ left # {}
      BY <1>2, <1>10 DEF Answer
    <2>2. CASE Current.does = "list"
      <3>1. call'.step = call.step + 1
        BY <1>2, <2>1, <2>2 DEF Answer
      <3>2. Followed(Doing, call.step)
        BY <1>1, <2>2 DEF Paired, Current
      <3> QED BY <1>1, <1>8, <3>1, <3>2 DEF Followed, Awaited, Current
    <2>3. CASE Current.does = "act"
      <3>1. call'.step = call.step + 1 /\ call.todo # {} /\ ~TakesDown(Current)
        BY <1>2, <2>1, <2>3 DEF Answer, LeftOver, TakesDown
      <3>2. call.step + 1 <= Len(Doing.steps) /\ TakesDown(Doing.steps[call.step + 1])
        BY <1>1, <3>1 DEF KillInv, Awaited
      <3> QED BY <1>8, <3>1, <3>2 DEF Awaited, Current
    <2>4. CASE Current.does = "each"
      <3>1. call'.step = call.step
        BY <1>2, <2>1, <2>4 DEF Answer
      <3> QED BY <1>1, <1>8, <2>4, <3>1 DEF Awaited, Current, TakesDown
    <2>5. CASE Current.does = "batch"
      BY <1>2, <2>1, <2>5 DEF Answer, LeftOver
    <2> QED BY <1>1, <2>2, <2>3, <2>4, <2>5 DEF StepShape
  <1> QED BY <1>3, <1>4, <1>5, <1>6, <1>7, <1>8, <1>9, <1>10 DEF KillInv

LEMMA KillInvSteps ==
  ASSUME AdapterConstantsOK, KillInv, [Next]_vars
  PROVE  KillInv'
  <1>1. /\ target \in Targets /\ config \in Configs /\ config.role \in BOOLEAN
        /\ live \in SUBSET Parts(target)
        /\ call.action \in AnyAction /\ Doing.steps \in Seq(StepShape) /\ CallShape
    BY DoingIs DEF KillInv
  <1>2. CASE Rests
    BY <1>2 DEF Rests, KillInv, CallShape, CallRecords, CallRecords, Awaited, Current, Doing
  <1>3. ASSUME NEW action \in AnyAction, UNCHANGED <<target, config, live>>,
               call' = NoCall \/ call' = Begun(action)
        PROVE  KillInv'
    <2>1. /\ call' \in CallRecords /\ call'.action \in AnyAction /\ call'.todo = {}
          /\ call'.step \in {0, 1} /\ (call'.step > 0 <=> call'.result = "running")
      BY <1>3, Fresh
    <2>2. Doing'.steps \in Seq(StepShape)
      <3>1. Doing' = KillPrograms[target][call'.action][config.role]
        BY <1>3 DEF Doing
      <3> QED BY <1>1, <2>1, <3>1, ProgramIs
    <2>3. CallShape'
      BY <2>1 DEF CallShape, CallRecords, AnyAction, PartNames
    <2> QED BY <1>1, <1>3, <2>1, <2>2, <2>3 DEF KillInv
  <1>4. CASE Forgets
    BY <1>1, <1>3, <1>4 DEF Forgets
  <1>5. CASE Starts
    <2>1. PICK action \in AnyAction : Begin(action)
      BY <1>5 DEF Starts
    <2>2. call' = Begun(action)
      BY <2>1 DEF Begin, Begun
    <2>3. UNCHANGED <<target, config, live>>
      BY <1>5 DEF Starts
    <2> QED BY <1>3, <2>2, <2>3
  <1>6. CASE EndKill \/ NothingListed
    <2>1. UNCHANGED <<target, config, live>>
      BY <1>6 DEF EndKill, NothingListed, env
    <2> DEFINE step == call'.step
               result == call'.result
    <2>2. /\ step \in Nat /\ result \in {"running", "success", "failure"}
          /\ call' = [call EXCEPT !.step = step, !.result = result]
          /\ \/ step = 0 /\ result # "running"
             \/ /\ call.step \in 1 .. Len(Doing.steps) /\ call.todo = {}
                /\ step = call.step + 1 /\ result = "running"
      <3>n. call.step \in Nat
        BY <1>1 DEF CallShape, CallRecords
      <3>1. CASE EndKill
        <4>1. Said \in {"success", "failure"}
          BY DEF Said
        <4>2. call' = [call EXCEPT !.step = 0, !.result = Said]
          BY <3>1 DEF EndKill
        <4>3. step = 0 /\ result = Said
          BY <1>1, <4>2 DEF CallShape, CallRecords
        <4> HIDE DEF step, result
        <4> QED BY <4>1, <4>2, <4>3
      <3>2. CASE NothingListed
        <4>1. call' = [call EXCEPT !.step = @ + 1] /\ call.step > 0 /\ call.step \in DOMAIN Doing.steps
              /\ call.todo = {}
          BY <3>2 DEF NothingListed
        <4>2. call.step \in 1 .. Len(Doing.steps) /\ call.result = "running"
          BY <1>1, <4>1 DEF KillInv
        <4>3. /\ call' = [call EXCEPT !.step = call.step + 1, !.result = "running"]
              /\ step = call.step + 1 /\ result = "running"
          BY <1>1, <4>1, <4>2 DEF CallShape, CallRecords
        <4> HIDE DEF step, result
        <4>4. call' = [call EXCEPT !.step = step, !.result = result]
          BY <4>3, Zenon
        <4>5. step \in Nat /\ step = call.step + 1 /\ result = "running" /\ call.todo = {}
          BY <3>n, <4>1, <4>3
        <4>6. "running" \in {"running", "success", "failure"}
          OBVIOUS
        <4> QED BY <4>2, <4>4, <4>5, <4>6, Zenon
      <3> QED BY <1>6, <3>1, <3>2
    <2> HIDE DEF step, result
    <2>3. /\ call'.action = call.action /\ call'.todo = call.todo
          /\ call'.step = step /\ call'.result = result
      BY <1>1, <2>2 DEF CallShape, CallRecords, step, result
    <2>4. CallShape'
      <3>1. call' \in [action : AnyAction, step : Nat, todo : SUBSET PartNames, listed : SUBSET PartNames,
              accepted : SUBSET PartNames, trouble : SUBSET {"denied", "gone", "refused", "lost", "restarted"},
              hurt : BOOLEAN, result : {"none", "running", "success", "failure", "threw"}]
        BY <1>1, <2>2 DEF CallShape, CallRecords
      <3> QED BY <3>1 DEF CallShape, CallRecords, AnyAction, PartNames
    <2>5. Doing' = Doing
      BY <2>1, <2>3 DEF Doing
    <2> QED BY <1>1, <2>1, <2>2, <2>3, <2>4, <2>5 DEF KillInv
  <1>7. CASE Request
    BY <1>7, KillInvRequest
  <1>8. CASE Restart
    <2>1. UNCHANGED <<target, config>> /\ live' = live \cup Levers(target)
      BY <1>8 DEF Restart
    <2>2. call' = call \/ call' = [call EXCEPT !.trouble = @ \cup {"restarted"}]
      BY <1>8 DEF Restart
    <2>3. CallShape' /\ call' = [call EXCEPT !.trouble = call'.trouble]
      BY <1>1, <2>2 DEF CallShape, CallRecords, AnyAction, PartNames
    <2>4. Doing' = Doing /\ Current' = Current /\ (Awaited <=> Awaited')
      BY <1>1, <2>1, <2>3 DEF Doing, Current, Awaited, CallShape, CallRecords
    <2>5. live' \in SUBSET Parts(target)
      BY <1>1, <2>1 DEF Parts
    <2> QED BY <1>1, <2>1, <2>3, <2>4, <2>5 DEF KillInv, CallShape, CallRecords
  <1> QED BY <1>1, <1>2, <1>4, <1>5, <1>6, <1>7, <1>8, StepIs

(************************ a failure keeps the data **************************)
LEMMA HurtSteps ==
  ASSUME AdapterConstantsOK, KillInv, HurtIsLast, [Next]_vars
  PROVE  HurtIsLast'
  <1>1. /\ target \in Targets /\ DataLast(target, Doing) /\ CallShape /\ Doing.steps \in Seq(StepShape)
        /\ call.step \in Nat
    BY DoingIs DEF KillInv, WellMade, CallShape, CallRecords
  <1>2. CASE Rests
    BY <1>2 DEF Rests, HurtIsLast, Doing
  <1>3. CASE Forgets \/ Starts
    <2>1. call' = NoCall \/ \E action \in AnyAction : call' = Begun(action)
      <3>1. \A action : Begin(action) => call' = Begun(action)
        BY DEF Begin, Begun
      <3> QED BY <1>3, <3>1 DEF Forgets, Starts
    <2>2. ~call'.hurt
      BY <2>1, Fresh, NoAction
    <2> QED BY <2>2 DEF HurtIsLast
  <1>4. CASE EndKill
    <2>1. UNCHANGED <<target, config>> /\ call.step > Len(Doing.steps)
          /\ call' = [call EXCEPT !.step = 0, !.result = Said]
      BY <1>4 DEF EndKill, env
    <2>2. /\ call'.action = call.action /\ call'.hurt = call.hurt /\ call'.trouble = call.trouble
          /\ call'.result = Said
      BY <1>1, <2>1 DEF CallShape, CallRecords
    <2>3. Doing' = Doing
      BY <2>1, <2>2 DEF Doing
    <2>4. Doing.says = "always" => Said = "success"
      BY DEF Said
    <2> QED BY <2>1, <2>2, <2>3, <2>4 DEF HurtIsLast
  <1>5. CASE NothingListed
    <2>1. /\ UNCHANGED <<target, config>> /\ call' = [call EXCEPT !.step = @ + 1]
          /\ call.step > 0 /\ call.step \in DOMAIN Doing.steps
      BY <1>5 DEF NothingListed, env
    <2>2. /\ call'.hurt = call.hurt /\ call'.trouble = call.trouble
          /\ call.step <= Len(Doing.steps) /\ call.result = "running"
      BY <1>1, <2>1 DEF CallShape, CallRecords, KillInv
    <2> QED BY <1>1, <2>1, <2>2 DEF HurtIsLast
  <1>6. CASE Request
    <2>1. /\ call.step \in 1 .. Len(Doing.steps) /\ Current \in StepShape /\ UNCHANGED env
          /\ call.result = "running"
      BY <1>6, RequestIs DEF KillInv
    <2>2. PICK item \in SUBSET call.todo : \E o, effect : Answer(item, o, effect)
      BY <1>6, RequestIs
    <2>3. PICK o, effect : Answer(item, o, effect)
      BY <2>2
    <2>4. /\ call'.hurt = (call.hurt \/ "data" \in effect \cap live)
          /\ call'.trouble = IF o = "done" THEN call.trouble ELSE call.trouble \cup {o}
          /\ call'.action = call.action
      BY <2>3 DEF Answer
    <2>5. Doing' = Doing
      BY <2>1, <2>4 DEF Doing, env
    <2>6. CASE call.hurt
      BY <1>1, <2>1, <2>4, <2>6 DEF HurtIsLast, env
    <2>7. CASE "data" \in effect /\ o # "done"
      BY <2>3, <2>4, <2>7 DEF Answer, HurtIsLast
    <2>8. CASE "data" \in effect /\ o = "done"
      <3>1. effect = Removes(Current, item) /\ HandlerFor(Current, o) = Current.ok
        BY <2>3, <2>8, HandlerIs DEF Answer
      <3>2. Current.does = "act" /\ "data" \in Current.removes
        BY <2>1, <2>8, <3>1 DEF Removes, StepShape, KillInv
      <3>3. target # "redis-evicting" =>
               call.step = Len(Doing.steps) /\ Doing.says = "always" /\ Current.ok = "next"
        BY <1>1, <2>1, <3>2 DEF DataLast, Current
      <3>4. target # "redis-evicting" => call'.step = call.step + 1
        BY <2>3, <3>1, <3>2, <3>3 DEF Answer, Over
      <3> QED BY <2>1, <2>5, <3>3, <3>4 DEF HurtIsLast, env
    <2> QED BY <2>4, <2>6, <2>7, <2>8 DEF HurtIsLast
  <1>7. CASE Restart
    <2>1. /\ UNCHANGED <<target, config>>
          /\ call' = call \/ call' = [call EXCEPT !.trouble = @ \cup {"restarted"}]
      BY <1>7 DEF Restart
    <2>2. /\ call'.action = call.action /\ call'.hurt = call.hurt /\ call.trouble \subseteq call'.trouble
          /\ call'.step = call.step /\ call'.result = call.result
      BY <1>1, <2>1 DEF CallShape, CallRecords
    <2>3. Doing' = Doing
      BY <2>1, <2>2 DEF Doing
    <2> QED BY <2>1, <2>2, <2>3 DEF HurtIsLast
  <1> QED BY <1>1, <1>2, <1>3, <1>4, <1>5, <1>6, <1>7, StepIs

(* A kill that is reported as failed has destroyed no data, unless the     *)
(* answer to the request that did was lost: in every adapter the request   *)
(* that destroys is the last one, and what a listing finds is never data.  *)
(* Except for a Redis that evicts before it is told to: setMaxmemory       *)
(* destroys there, and the command after it may fail.                      *)
LEMMA FailureLosesNothing == Spec => []FailureKeepsData
  <1> USE AdapterConstantsOK
  <1>1. Init => KillInv /\ HurtIsLast
    BY KillInvStarts DEF Init, HurtIsLast, NoCall
  <1>2. KillInv /\ HurtIsLast /\ [Next]_vars => KillInv' /\ HurtIsLast'
    BY KillInvSteps, HurtSteps
  <1>3. KillInv /\ HurtIsLast => FailureKeepsData
    <2> SUFFICES ASSUME KillInv, HurtIsLast, call.hurt, call.result \in {"failure", "threw"}
                 PROVE  "lost" \in call.trouble \/ target = "redis-evicting"
      BY DEF FailureKeepsData
    <2>1. call.step = 0 /\ Len(Doing.steps) \in Nat
      BY DoingIs DEF KillInv, CallShape, CallRecords
    <2> QED BY <2>1 DEF HurtIsLast
  <1> QED BY <1>1, <1>2, <1>3, PTL DEF Spec

(************************* a success is a success ***************************)
Stopped(i) ==
    /\ Doing.steps[i].removes \cap live \subseteq Protected \cup call.todo
    /\ ~Misses(target, Doing.steps[i])

LEMMA BehindRequest ==
  ASSUME AdapterConstantsOK, KillInv, BehindIsDown, Request
  PROVE  BehindIsDown'
  <1>1. /\ call.step \in 1 .. Len(Doing.steps) /\ Current \in StepShape /\ UNCHANGED env
        /\ Doing.steps \in Seq(StepShape) /\ Paired(Doing) /\ Strict(target, Doing)
    BY RequestIs, DoingIs DEF WellMade
  <1>i. PICK item \in SUBSET call.todo : \E o, effect : Answer(item, o, effect)
    BY RequestIs
  <1>2. PICK o, effect : Answer(item, o, effect)
    BY <1>i
  <1>3. /\ call'.action = call.action /\ call'.todo = LeftOver(Current, item, o) /\ live' = live \ effect
        /\ call'.trouble = IF o = "done" THEN call.trouble ELSE call.trouble \cup {o}
        /\ target' = target
    BY <1>1, <1>2 DEF Answer, env
  <1>4. Doing' = Doing
    BY <1>1, <1>3 DEF Doing, env
  <1> SUFFICES ASSUME call'.step > 0, Acceptable',
                      NEW i \in 1 .. Len(Doing.steps), i < call'.step
               PROVE  Stopped(i)'
    BY <1>4 DEF BehindIsDown, Stopped
  <1>5. Acceptable
    BY <1>3 DEF Acceptable
  <1>6. \A j \in 1 .. Len(Doing.steps) : j < call.step => Stopped(j)
    BY <1>1, <1>5 DEF BehindIsDown, Stopped
  <1>7. /\ ~Over(HandlerFor(Current, o))
        /\ call'.step = IF Current.does = "each" /\ LeftOver(Current, item, o) # {}
                        THEN call.step ELSE call.step + 1
    BY <1>2 DEF Answer
  <1>8. o = "done" \/ (Idling(Current) /\ target \notin BestEffortKinds)
    <2> SUFFICES ASSUME o # "done" PROVE Idling(Current) /\ target \notin BestEffortKinds
      OBVIOUS
    <2>1. target \notin BestEffortKinds
      BY <1>3 DEF Acceptable
    <2>2. Final(Current) \/ Idling(Current)
      BY <1>1, <2>1 DEF Strict, Current
    <2>3. ~Final(Current)
      BY <1>2, <1>7, HandlerIs DEF Final, Over, Answer
    <2> QED BY <2>1, <2>2, <2>3
  <1>9. /\ Current.does = "list" => call.todo = {}
        /\ TakesDown(Current) /\ i = call.step => LeftOver(Current, item, o) = {}
    <2>1. Current.does = "list" => call.todo = {}
      BY <1>1 DEF KillInv, Awaited, TakesDown
    <2>2. Current.does = "batch" => LeftOver(Current, item, o) = {}
      BY <1>2 DEF Answer, LeftOver
    <2>3. Current.does = "each" /\ i = call.step => LeftOver(Current, item, o) = {}
      BY <1>1, <1>7
    <2> QED BY <2>1, <2>2, <2>3 DEF TakesDown
  (* What was behind stays down: what is taken down leaves the list. *)
  <1>10. ASSUME NEW parts, parts \cap live \subseteq Protected \cup call.todo
         PROVE  parts \cap live' \subseteq Protected \cup call'.todo
    <2>1. CASE Current.does = "list"
      BY <1>3, <1>9, <1>10, <2>1
    <2>2. CASE Current.does = "act"
      BY <1>2, <1>3, <1>10, <2>2 DEF Answer, LeftOver
    <2>3. CASE Current.does \in {"each", "batch"}
      <3>1. o = "done"
        BY <1>8, <2>3 DEF Idling
      <3>2. effect = item
        BY <1>2, <2>3, <3>1 DEF Answer, Removes
      <3> QED BY <1>3, <1>10, <2>3, <3>2 DEF LeftOver
    <2> QED BY <1>1, <2>1, <2>2, <2>3 DEF StepShape
  <1>11. CASE i < call.step
    BY <1>1, <1>4, <1>6, <1>10, <1>11, <1>3 DEF Stopped, Misses
  <1>12. CASE i = call.step
    <2>1. ~Misses(target, Current)
      BY <1>2, <1>8 DEF Answer, Misses, Idling, Final
    <2>2. Current.removes \cap live' \subseteq Protected \cup call'.todo
      <3>1. CASE Current.does = "list" /\ o = "done"
        BY <1>3, <3>1 DEF LeftOver
      <3>2. CASE Current.does = "act" /\ o = "done"
        BY <1>2, <1>3, <3>2 DEF Answer, Removes
      <3>3. CASE Idling(Current)
        BY <3>3 DEF Idling
      <3>4. CASE TakesDown(Current)
        <4>1. PICK j \in 1 .. Len(Doing.steps) :
                 j < call.step /\ Doing.steps[j].removes = Current.removes
          BY <1>1, <3>4 DEF Paired, Preceded, Current
        <4> QED BY <1>6, <1>10, <4>1 DEF Stopped
      <3> QED BY <1>1, <1>8, <3>1, <3>2, <3>3, <3>4 DEF StepShape, TakesDown
    <2> QED BY <1>3, <1>4, <1>12, <2>1, <2>2 DEF Stopped, Current, Misses
  <1> QED BY <1>1, <1>7, <1>11, <1>12

LEMMA BehindSteps ==
  ASSUME AdapterConstantsOK, KillInv, BehindIsDown, [Next]_vars
  PROVE  BehindIsDown'
  <1>1. /\ target \in Targets /\ CallShape /\ Doing.steps \in Seq(StepShape) /\ call.step \in Nat
    BY DoingIs DEF KillInv, CallShape, CallRecords
  <1>2. CASE Rests
    <2>1. UNCHANGED <<target, live, call>> /\ Doing' = Doing
      BY <1>2 DEF Rests, Doing
    <2> QED BY <2>1 DEF BehindIsDown, Acceptable, Misses
  <1>3. CASE Forgets \/ Starts
    <2>1. call' = NoCall \/ \E action \in AnyAction : call' = Begun(action)
      <3>1. \A action : Begin(action) => call' = Begun(action)
        BY DEF Begin, Begun
      <3> QED BY <1>3, <3>1 DEF Forgets, Starts
    <2>2. call'.step \in {0, 1}
      BY <2>1, Fresh, NoAction
    <2> QED BY <2>2 DEF BehindIsDown
  <1>4. CASE EndKill
    <2>1. call'.step = 0
      BY <1>1, <1>4 DEF EndKill, CallShape, CallRecords
    <2> QED BY <2>1 DEF BehindIsDown
  <1>5. CASE NothingListed
    <2>1. /\ UNCHANGED <<target, config, live>> /\ call' = [call EXCEPT !.step = @ + 1]
          /\ call.step > 0 /\ call.step \in DOMAIN Doing.steps /\ TakesDown(Current) /\ call.todo = {}
      BY <1>5 DEF NothingListed, env, TakesDown
    <2>2. /\ call'.trouble = call.trouble /\ call'.todo = call.todo /\ call'.step = call.step + 1
          /\ call'.action = call.action
      BY <1>1, <2>1 DEF CallShape, CallRecords
    <2>3. Doing' = Doing /\ (Acceptable' <=> Acceptable)
      BY <2>1, <2>2 DEF Doing, Acceptable
    <2>4. PICK j \in 1 .. Len(Doing.steps) :
             j < call.step /\ Doing.steps[j].removes = Current.removes
      <3>1. Paired(Doing) /\ call.step \in 1 .. Len(Doing.steps)
        BY <1>1, <2>1, DoingIs DEF WellMade
      <3>2. Preceded(Doing, call.step)
        BY <2>1, <3>1 DEF Paired, Current
      <3> QED BY <3>1, <3>2 DEF Preceded, Current
    <2> SUFFICES ASSUME Acceptable, NEW i \in 1 .. Len(Doing.steps), i < call.step + 1
                 PROVE  Stopped(i)
      BY <2>1, <2>2, <2>3 DEF BehindIsDown, Stopped, Misses
    <2>5. \A k \in 1 .. Len(Doing.steps) : k < call.step => Stopped(k)
      BY <2>1 DEF BehindIsDown, Stopped
    <2>6. CASE i = call.step
      BY <2>1, <2>4, <2>5, <2>6 DEF Stopped, Current, Misses, TakesDown
    <2> QED BY <1>1, <2>5, <2>6
  <1>6. CASE Request
    BY <1>6, BehindRequest
  <1>7. CASE Restart
    <2>1. call' = call \/ "restarted" \in call'.trouble
      BY <1>1, <1>7 DEF Restart, CallShape, CallRecords
    <2>2. call' = call => call = NoCall \/ "restarted" \in call'.trouble
      BY <1>1, <1>7 DEF Restart, CallShape, CallRecords
    <2>3. NoCall.step = 0
      BY DEF NoCall
    <2> QED BY <2>1, <2>2, <2>3 DEF BehindIsDown, Acceptable
  <1> QED BY <1>1, <1>2, <1>3, <1>4, <1>5, <1>6, <1>7, StepIs

LEMMA SuccessSteps ==
  ASSUME AdapterConstantsOK, KillInv, BehindIsDown, SuccessIsReal, [Next]_vars
  PROVE  SuccessIsReal'
  <1>1. /\ target \in Targets /\ CallShape /\ Doing.steps \in Seq(StepShape) /\ call.step \in Nat
        /\ WellMade(target, Doing) /\ target \in Kinds /\ config.role \in BOOLEAN
        /\ Doing = KillProgram(target, call.action, config.role)
    BY DoingIs DEF KillInv, CallShape, CallRecords
  <1>2. CASE Rests
    <2>1. UNCHANGED <<target, live, call>> /\ Doing' = Doing
      BY <1>2 DEF Rests, Doing
    <2> QED BY <2>1 DEF SuccessIsReal, AccountWide, BestEffort
  <1>3. CASE Forgets \/ Starts
    <2>1. call' = NoCall \/ \E action \in AnyAction : call' = Begun(action)
      <3>1. \A action : Begin(action) => call' = Begun(action)
        BY DEF Begin, Begun
      <3> QED BY <1>3, <3>1 DEF Forgets, Starts
    <2>2. call'.result # "success"
      BY <2>1, Fresh, NoAction
    <2> QED BY <2>2 DEF SuccessIsReal
  <1>4. CASE EndKill
    <2>1. /\ UNCHANGED <<target, config, live>> /\ call.step > Len(Doing.steps) /\ call.step > 0
          /\ call' = [call EXCEPT !.step = 0, !.result = Said]
      BY <1>4 DEF EndKill, env
    <2>2. /\ call'.trouble = call.trouble /\ call'.action = call.action /\ call'.result = Said
      BY <1>1, <2>1 DEF CallShape, CallRecords
    <2>3. Doing' = Doing
      BY <2>1, <2>2 DEF Doing
    <2> SUFFICES ASSUME Said = "success", target # "all-services", call.action # "set-quota", Acceptable
                 PROVE  /\ Effect(Doing) \cap Parts(target) # {}
                        /\ Effect(Doing) \cap live \subseteq Protected
                        /\ live \cap Levers(target) \subseteq Protected \cup Unreached(target, call.action)
      BY <2>1, <2>2, <2>3 DEF SuccessIsReal, AccountWide, BestEffort, Acceptable, BestEffortKinds
    <2>4. \A i \in 1 .. Len(Doing.steps) : Stopped(i)
      BY <1>1, <2>1 DEF BehindIsDown, Stopped
    <2>5. call.todo = {}
      BY <1>1, <2>1 DEF KillInv, Awaited
    <2>6. Achieves(target, call.action, Doing) /\ Doing.says # "never"
      BY <1>1, ProgramsAchieve DEF Said
    <2>7. /\ \E i \in 1 .. Len(Doing.steps) : Doing.steps[i].removes \cap Parts(target) # {}
          /\ Wanted(target, call.action) \subseteq Effect(Doing)
      <3>1. /\ \E i \in 1 .. Len(Doing.steps) : Doing.steps[i].removes \cap Parts(target) # {}
            /\ \A part \in Wanted(target, call.action) :
                 \E i \in 1 .. Len(Doing.steps) : part \in Doing.steps[i].removes
        BY <2>4, <2>6 DEF Achieves, Stopped
      <3> QED BY <1>1, <3>1 DEF Effect
    <2>8. Effect(Doing) \cap Parts(target) # {}
      BY <1>1, <2>7 DEF Effect
    <2>9. Effect(Doing) \cap live \subseteq Protected
      BY <1>1, <2>4, <2>5 DEF Effect, Stopped
    <2> QED BY <2>7, <2>8, <2>9 DEF Wanted
  <1>5. CASE NothingListed
    <2>1. call'.result = call.result /\ call.result = "running"
      BY <1>1, <1>5 DEF NothingListed, KillInv, CallShape, CallRecords
    <2> QED BY <2>1 DEF SuccessIsReal
  <1>6. CASE Request
    <2>1. /\ call.step \in 1 .. Len(Doing.steps) /\ Current \in StepShape /\ UNCHANGED env
          /\ call.result = "running"
      BY <1>6, RequestIs DEF KillInv
    <2>i. PICK item \in SUBSET call.todo : \E o, effect : Answer(item, o, effect)
      BY <1>6, RequestIs
    <2>2. PICK o, effect : Answer(item, o, effect)
      BY <2>i
    <2>3. /\ call'.trouble = IF o = "done" THEN call.trouble ELSE call.trouble \cup {o}
          /\ call'.action = call.action /\ live' = live \ effect
          /\ o = "done" => effect = Removes(Current, item)
          /\ o \in {"done", "gone", "denied", "refused", "lost"}
      BY <2>2 DEF Answer
    <2>4. Doing' = Doing /\ target' = target
      BY <2>1, <2>3 DEF Doing, env
    <2> SUFFICES ASSUME call'.result = "success", Acceptable'
                 PROVE  /\ Effect(Doing) \cap Parts(target) # {}
                        /\ Effect(Doing) \cap live' \subseteq Protected
                        /\ live' \cap Levers(target) = {}
      BY <2>4 DEF SuccessIsReal, BestEffort, Acceptable, BestEffortKinds
    <2>5. HandlerFor(Current, o) = "true"
      BY <2>1, <2>2 DEF Answer, ResultOf, Over
    <2>6. o = "done"
      <3> SUFFICES ASSUME o # "done" PROVE FALSE
        OBVIOUS
      <3>1. target \notin BestEffortKinds
        BY <2>3, <2>4 DEF Acceptable
      <3>2. Final(Current) \/ Idling(Current)
        BY <1>1, <2>1, <3>1 DEF WellMade, Strict, Current
      <3> QED BY <2>3, <2>5, <3>2, HandlerIs DEF Final, Idling
    <2>7. /\ Current.does = "act" /\ Current.removes \cap Parts(target) # {}
          /\ \A j \in 1 .. Len(Doing.steps) : Doing.steps[j].removes \subseteq Current.removes
          /\ Levers(target) \subseteq Current.removes
      BY <1>1, <2>1, <2>5, <2>6, HandlerIs DEF WellMade, EndsWell, Current
    <2>8. Effect(Doing) = Current.removes
      BY <1>1, <2>1, <2>7 DEF Effect, Current
    <2> QED BY <2>3, <2>6, <2>7, <2>8 DEF Removes
  <1>7. CASE Restart
    <2>1. call' = NoCall \/ "restarted" \in call'.trouble
      BY <1>1, <1>7 DEF Restart, CallShape, CallRecords
    <2>2. NoCall.result # "success"
      BY DEF NoCall
    <2> QED BY <2>1, <2>2 DEF SuccessIsReal
  <1> QED BY <1>1, <1>2, <1>3, <1>4, <1>5, <1>6, <1>7, StepIs

(* A kill reported as a success has taken down everything it was meant to, *)
(* whatever was refused or lost on the way, and of the resource nothing    *)
(* runs but what the action does not reach (a worker's zone routes, GKE's  *)
(* other pools); only the adapters whose requests are best effort may pass *)
(* over one that failed.                                                   *)
THEOREM SuccessStops == Spec => []SuccessIsReal
  <1> USE AdapterConstantsOK
  <1>1. Init => KillInv /\ BehindIsDown /\ SuccessIsReal
    BY KillInvStarts DEF Init, BehindIsDown, SuccessIsReal, NoCall
  <1>2. KillInv /\ BehindIsDown /\ SuccessIsReal /\ [Next]_vars
           => KillInv' /\ BehindIsDown' /\ SuccessIsReal'
    BY KillInvSteps, BehindSteps, SuccessSteps
  <1> QED BY <1>1, <1>2, PTL DEF Spec

(********************** no cluster without a snapshot ***********************)
SavesFirst(program) ==
    /\ program.steps \in Seq(StepShape)
    /\ \A i \in 1 .. Len(program.steps) :
        /\ program.steps[i].does = "act"
        /\ "self" \in program.steps[i].removes =>
              /\ i = 2 /\ program.steps[1].removes = {"unsaved"}
              /\ Final(program.steps[1])

LEMMA ElastiCacheKill ==
  ASSUME NEW kind \in CacheKinds, NEW action, NEW role
  PROVE  KillProgram(kind, action, role)
           \in {Runs(DeleteElastiCache), ScaleDownElastiCache(kind), Unsupported}
  <1>1. KillProgram(kind, action, role) = RedisKill(kind, action)
    <2>1. kind \in RedisKinds
      BY DEF RedisKinds
    <2>2. /\ kind \notin CfKinds \cup GcpKinds \cup AwsKinds \cup AtlasKinds \cup MongoKinds
          /\ kind \notin Neo4jKinds \cup NeonKinds \cup RunpodKinds \cup EdgeKinds
          /\ kind \notin {"vercel", "replicate", "snowflake", "openai", "anthropic", "xai", "datadog"}
      BY DEF CfKinds, Workers, GcpKinds, AwsKinds, AwsTotals, AtlasKinds, MongoKinds, CacheKinds,
             Neo4jKinds, NeonKinds, RunpodKinds, EdgeKinds
    <2> QED BY <2>1, <2>2 DEF KillProgram, EdgeKinds
  <1>2. RedisKill(kind, action) \in {Runs(DeleteElastiCache), ScaleDownElastiCache(kind), Unsupported}
    <2>1. kind \notin SelfHosted /\ kind # "redis-cloud"
      BY DEF CacheKinds, SelfHosted
    <2> QED BY <2>1 DEF RedisKill
  <1> QED BY <1>1, <1>2

LEMMA ElastiCacheSaves ==
  ASSUME NEW kind \in CacheKinds, NEW action, NEW role
  PROVE  SavesFirst(KillProgram(kind, action, role))
  <1>1. CacheKinds \in SUBSET Kinds /\ {"unsaved"} \in SUBSET PartNames /\ Whole \in SUBSET PartNames
        /\ {"size"} \in SUBSET PartNames /\ {} \in SUBSET PartNames /\ "throw" \in Handlers
    BY DEF Kinds, DataKinds, RedisKinds, PartNames, Whole, Handlers
  <1> DEFINE none == Must(CacheKinds, {})
             snap == Must(CacheKinds, {"unsaved"})
             drop == Must(CacheKinds, Whole)
             size == Must(CacheKinds, {"size"})
  <1>2. /\ none \in StepShape /\ none.does = "act" /\ none.removes = {}
        /\ snap \in StepShape /\ snap.does = "act" /\ snap.removes = {"unsaved"} /\ Final(snap)
        /\ drop \in StepShape /\ drop.does = "act"
        /\ size \in StepShape /\ size.does = "act" /\ size.removes = {"size"}
    BY <1>1, StepFields DEF Must, Final
  <1>3. /\ Runs(DeleteElastiCache).steps = <<snap, drop>> /\ Unsupported.steps = <<>>
        /\ ScaleDownElastiCache(kind).steps \in {<<none>>, <<none, size>>}
    BY DEF Runs, Program, DeleteElastiCache, CreateSnapshot, ScaleDownElastiCache, Unsupported
  <1> HIDE DEF none, snap, drop, size
  <1>4. SavesFirst(Runs(DeleteElastiCache))
    BY <1>2, <1>3 DEF SavesFirst
  <1>5. SavesFirst(ScaleDownElastiCache(kind))
    <2>1. CASE ScaleDownElastiCache(kind).steps = <<none>>
      BY <1>2, <2>1 DEF SavesFirst
    <2>2. CASE ScaleDownElastiCache(kind).steps = <<none, size>>
      BY <1>2, <2>2 DEF SavesFirst
    <2> QED BY <1>3, <2>1, <2>2
  <1>6. SavesFirst(Unsupported)
    BY <1>3 DEF SavesFirst
  <1> QED BY <1>4, <1>5, <1>6, ElastiCacheKill

(* When the request that deletes the cluster is next, the snapshot is there. *)
SnapshotFirst ==
    target \in CacheKinds =>
        /\ ~Exists => "unsaved" \notin live
        /\ call.step \in 1 .. Len(Doing.steps) /\ "self" \in Current.removes => "unsaved" \notin live

LEMMA SnapshotSteps ==
  ASSUME AdapterConstantsOK, KillInv, SnapshotFirst, [Next]_vars
  PROVE  SnapshotFirst'
  <1> SUFFICES ASSUME target' \in CacheKinds
               PROVE  SnapshotFirst'
    BY DEF SnapshotFirst
  <1>1. /\ target \in Targets /\ CallShape /\ Doing.steps \in Seq(StepShape) /\ call.step \in Nat
        /\ Doing = KillProgram(target, call.action, config.role)
    BY DoingIs DEF KillInv, CallShape, CallRecords
  <1>2. CASE Rests
    <2>1. UNCHANGED <<target, live, call>> /\ Doing' = Doing
      BY <1>2 DEF Rests, Doing
    <2> QED BY <2>1 DEF SnapshotFirst, Exists, Current
  <1>3. CASE Forgets \/ Starts
    <2>1. call' = NoCall \/ \E action \in AnyAction : call' = Begun(action)
      <3>1. \A action : Begin(action) => call' = Begun(action)
        BY DEF Begin, Begun
      <3> QED BY <1>3, <3>1 DEF Forgets, Starts
    <2>2. call'.step \in {0, 1} /\ UNCHANGED <<target, config, live>> /\ call'.action \in AnyAction
      BY <1>3, <2>1, Fresh, NoAction DEF Forgets, Starts
    <2>3. SavesFirst(Doing')
      <3>1. Doing' = KillPrograms[target][call'.action][config.role] /\ config.role \in BOOLEAN
        BY <2>2, DoingIs DEF Doing
      <3> QED BY <1>1, <2>2, <3>1, ProgramIs, ElastiCacheSaves
    <2> QED BY <2>2, <2>3 DEF SnapshotFirst, Exists, Current, SavesFirst
  <1>4. CASE EndKill
    <2>1. call'.step = 0 /\ UNCHANGED <<target, live>>
      BY <1>1, <1>4 DEF EndKill, CallShape, CallRecords, env
    <2> QED BY <2>1 DEF SnapshotFirst, Exists
  <1>5. CASE NothingListed
    <2>1. target \in CacheKinds /\ call.step \in 1 .. Len(Doing.steps) /\ TakesDown(Current)
      BY <1>1, <1>5 DEF NothingListed, env, TakesDown
    <2> QED BY <1>1, <2>1, ElastiCacheSaves DEF SavesFirst, Current, TakesDown
  <1>6. CASE Request
    <2>1. /\ call.step \in 1 .. Len(Doing.steps) /\ Current \in StepShape /\ UNCHANGED env
      BY <1>6, RequestIs
    <2>i. PICK item \in SUBSET call.todo : \E o, effect : Answer(item, o, effect)
      BY <1>6, RequestIs
    <2>2. PICK o, effect : Answer(item, o, effect)
      BY <2>i
    <2>3. UNCHANGED <<target, config>> /\ call'.action = call.action /\ live' = live \ effect
      BY <2>1, <2>2 DEF Answer, env
    <2>4. Doing' = Doing /\ SavesFirst(Doing) /\ Current.does = "act"
      BY <1>1, <2>1, <2>3, ElastiCacheSaves DEF Doing, SavesFirst, Current
    <2>5. effect \subseteq Current.removes
      BY <2>2, <2>4 DEF Answer, Removes
    <2>6. "self" \notin live' => "unsaved" \notin live'
      <3>1. CASE "self" \in Current.removes
        BY <2>1, <2>3, <3>1 DEF SnapshotFirst
      <3>2. CASE "self" \notin Current.removes
        BY <2>3, <2>5, <3>2 DEF SnapshotFirst, Exists
      <3> QED BY <3>1, <3>2
    <2>7. ASSUME call'.step \in 1 .. Len(Doing.steps), "self" \in Doing.steps[call'.step].removes
          PROVE  "unsaved" \notin live'
      <3>1. call'.step = call.step + 1 /\ ~Over(HandlerFor(Current, o))
        BY <2>2, <2>4, <2>7 DEF Answer
      <3>2. call'.step = 2 /\ Current.removes = {"unsaved"} /\ Final(Current)
        BY <2>1, <2>4, <2>7, <3>1 DEF SavesFirst, Current
      <3>3. o = "done"
        BY <2>2, <3>1, <3>2, HandlerIs DEF Answer, Over, Final
      <3> QED BY <2>2, <2>3, <2>4, <3>2, <3>3 DEF Answer, Removes
    <2> QED BY <2>4, <2>6, <2>7 DEF SnapshotFirst, Exists, Current
  <1>7. CASE Restart
    <2>1. /\ UNCHANGED <<target, config>> /\ live' = live \cup Levers(target) /\ Exists
          /\ call' = call \/ call' = [call EXCEPT !.trouble = @ \cup {"restarted"}]
      BY <1>7 DEF Restart
    <2>2. call'.action = call.action /\ call'.step = call.step
      BY <1>1, <2>1 DEF CallShape, CallRecords
    <2>3. Doing' = Doing
      BY <2>1, <2>2 DEF Doing
    <2>4. \A kind \in CacheKinds : "unsaved" \notin Levers(kind)
      BY DEF Levers, JobKinds, SelfHosted, CacheKinds
    <2> QED BY <2>1, <2>2, <2>3, <2>4 DEF SnapshotFirst, Exists, Current
  <1> QED BY <1>1, <1>2, <1>3, <1>4, <1>5, <1>6, <1>7, StepIs

(* An ElastiCache cluster is not deleted before a snapshot of it exists,   *)
(* whatever fails in between: CreateSnapshot throws unless it was taken.   *)
LEMMA SnapshotComesFirst == Spec => []SavedBeforeGone
  <1> USE AdapterConstantsOK
  <1>1. Init => KillInv /\ SnapshotFirst
    <2> SUFFICES ASSUME Init PROVE KillInv /\ SnapshotFirst
      OBVIOUS
    <2>1. call.step = 0 /\ "self" \in live
      BY DEF Init, NoCall, Parts
    <2> QED BY <2>1, KillInvStarts DEF SnapshotFirst, Exists
  <1>2. KillInv /\ SnapshotFirst /\ [Next]_vars => KillInv' /\ SnapshotFirst'
    BY KillInvSteps, SnapshotSteps
  <1>3. SnapshotFirst => SavedBeforeGone
    BY DEF SnapshotFirst, SavedBeforeGone
  <1> QED BY <1>1, <1>2, <1>3, PTL DEF Spec

(* Data is given up neither on the way to a failure nor before it is saved. *)
THEOREM NothingLostUnreported == Spec => []NoDataLostInVain
  <1>1. FailureKeepsData /\ SavedBeforeGone => NoDataLostInVain
    BY DEF NoDataLostInVain
  <1> QED BY <1>1, FailureLosesNothing, SnapshotComesFirst, PTL

(******************* a check that cannot see says so ************************)
(* A query whose failure always leaves checkUsage as an exception, and one *)
(* whose failure is always followed by the next query.                     *)
Tells(query) == {query.auth, query.refused, query.lost} = {"throw"}
Goes(query)  == {query.auth, query.refused, query.lost} = {"next"}
Loud(queries) ==
    /\ queries # <<>> /\ 1 \in DOMAIN queries
    /\ \/ Tells(queries[1])
       \/ 2 \in DOMAIN queries /\ Goes(queries[1]) /\ Tells(queries[2])

LEMMA AnswerThrows ==
  ASSUME NEW kind, NEW queries, NEW credential, Loud(queries),
         \A i \in DOMAIN queries : ~Permits(credential, queries[i]) \/ (i # 1 /\ Tells(queries[1])),
         NEW answer \in AnswersOf(kind, queries, credential)
  PROVE  answer.threw
  <1> DEFINE usual(i) == IF Permits(credential, queries[i]) THEN "done" ELSE "denied"
             came(bad, how) == [i \in DOMAIN queries |-> IF i = bad THEN how ELSE usual(i)]
  <1> DEFINE result(bad, how) == [threw  |-> "throw" \in AnswerWith(queries, came(bad, how)).threw,
                                  seen   |-> kind \in AnswerWith(queries, came(bad, how)).seen,
                                  failed |-> bad # 0]
  <1>a. AnswersOf(kind, queries, credential)
          = {result(bad, how) : bad \in DOMAIN queries \cup {0}, how \in {"refused", "lost"}}
    BY DEF AnswersOf
  <1>b. \A bad, how : result(bad, how).threw = ("throw" \in AnswerWith(queries, came(bad, how)).threw)
    BY Zenon
  <1> HIDE DEF result
  <1>p. PICK bad \in DOMAIN queries \cup {0}, how \in {"refused", "lost"} : answer = result(bad, how)
    BY <1>a
  <1>1. answer.threw = ("throw" \in AnswerWith(queries, came(bad, how)).threw)
    BY <1>b, <1>p, Zenon
  <1> DEFINE outcome == came(bad, how)
  <1>2. \A i \in DOMAIN queries :
           outcome[i] \in {"denied", "refused", "lost"} \/ (i # 1 /\ Tells(queries[1]))
    OBVIOUS
  <1> HIDE DEF outcome
  <1>3. \A query, o : o \in {"denied", "refused", "lost"} =>
           /\ Tells(query) => HandlerFor(query, o) = "throw"
           /\ Goes(query) => HandlerFor(query, o) = "next"
    BY HandlerIs DEF Tells, Goes
  <1>4. \E i \in DOMAIN queries :
           Asked(queries, outcome, i) /\ HandlerFor(queries[i], outcome[i]) = "throw"
    <2>1. CASE Tells(queries[1])
      BY <1>2, <1>3, <2>1 DEF Loud, Asked
    <2>2. CASE 2 \in DOMAIN queries /\ Goes(queries[1]) /\ Tells(queries[2]) /\ ~Tells(queries[1])
      <3>1. HandlerFor(queries[1], outcome[1]) = "next" /\ HandlerFor(queries[2], outcome[2]) = "throw"
        BY <1>2, <1>3, <2>2 DEF Loud
      <3>2. Asked(queries, outcome, 2)
        BY <3>1 DEF Asked
      <3> QED BY <2>2, <3>1, <3>2
    <2> QED BY <2>1, <2>2 DEF Loud
  <1>5. "throw" \in AnswerWith(queries, outcome).threw
    BY <1>4 DEF AnswerWith
  <1> QED BY <1>1, <1>5 DEF outcome

QueryShape == [does : {"query", "graphql", "act"}, of : SUBSET Kinds, removes : SUBSET PartNames,
               ok : Handlers, auth : Handlers, refused : Handlers, lost : Handlers]

LEMMA QueryFields ==
  ASSUME NEW of \in SUBSET Kinds, NEW auth \in Handlers, NEW refused \in Handlers, NEW lost \in Handlers
  PROVE  LET query == Query(of, auth, refused, lost)
             graph == [query EXCEPT !.does = "graphql"] IN
         /\ query \in QueryShape /\ graph \in QueryShape
         /\ query.auth = auth /\ query.refused = refused /\ query.lost = lost
         /\ graph.auth = auth /\ graph.refused = refused /\ graph.lost = lost /\ graph.does = "graphql"
  BY DEF Query, QueryShape, Handlers, PartNames

LEMMA FirstStays ==
  ASSUME NEW S, NEW a \in Seq(S), NEW b \in Seq(S), Len(a) > 0
  PROVE  a \o b \in Seq(S) /\ Len(a \o b) > 0 /\ (a \o b)[1] = a[1]
  OBVIOUS

LEMMA CloudflareLoud ==
  Loud(CloudflareUsage) /\ Tells(CloudflareUsage[1]) /\ CloudflareUsage[1].does = "graphql"
  <1>1. /\ Workers \in SUBSET Kinds /\ {"ai"} \in SUBSET Kinds /\ {"aigw"} \in SUBSET Kinds
        /\ {"r2"} \in SUBSET Kinds /\ {"d1", "d1-id"} \in SUBSET Kinds /\ {"queue"} \in SUBSET Kinds
        /\ {"stream"} \in SUBSET Kinds /\ {"videos"} \in SUBSET Kinds /\ {} \in SUBSET Kinds
        /\ "throw" \in Handlers /\ "next" \in Handlers /\ "skip" \in Handlers
    BY DEF Kinds, CfKinds, Workers, Handlers
  <1>2. \A of \in SUBSET Kinds, other \in Handlers :
           /\ GraphQL(of, other) \in QueryShape /\ GraphQL(of, other).does = "graphql"
           /\ other = "throw" => Tells(GraphQL(of, other))
    BY <1>1, QueryFields DEF GraphQL, Tells
  <1>3. /\ QueryDOUsage \in Seq(QueryShape) /\ Len(QueryDOUsage) > 0
        /\ Tells(QueryDOUsage[1]) /\ QueryDOUsage[1].does = "graphql"
    BY <1>1, <1>2 DEF QueryDOUsage
  <1>4. QueryWorkerUsage \in Seq(QueryShape) /\ QueryAIUsage \in Seq(QueryShape)
        /\ QueryAIGatewayUsage \in Seq(QueryShape)
    BY <1>1, <1>2 DEF QueryWorkerUsage, QueryAIUsage, QueryAIGatewayUsage
  <1>5. QueryR2Usage \in Seq(QueryShape) /\ QueryD1Usage \in Seq(QueryShape)
    <2>1. Query({}, "skip", "skip", "throw") \in QueryShape
      BY <1>1, QueryFields
    <2> QED BY <1>1, <1>2, <2>1 DEF QueryR2Usage, QueryD1Usage
  <1>6. QueryQueuesUsage \in Seq(QueryShape) /\ QueryStreamUsage \in Seq(QueryShape)
    <2>1. \A of \in {{"queue"}, {"stream"}, {"videos"}} : Query(of, "next", "next", "throw") \in QueryShape
      BY <1>1, QueryFields
    <2> QED BY <2>1 DEF QueryQueuesUsage, QueryStreamUsage
  <1> DEFINE first(s) == s \in Seq(QueryShape) /\ Len(s) > 0 /\ s[1] = QueryDOUsage[1]
  <1>7. \A a, b : first(a) /\ b \in Seq(QueryShape) => first(a \o b)
    BY FirstStays
  <1>8. first(QueryDOUsage)
    BY <1>3
  <1> HIDE DEF first
  <1>9. first(CloudflareUsage)
    BY <1>4, <1>5, <1>6, <1>7, <1>8, Zenon DEF CloudflareUsage
  <1>10. CloudflareUsage # <<>> /\ 1 \in DOMAIN CloudflareUsage
    BY <1>9 DEF first
  <1> QED BY <1>3, <1>9, <1>10 DEF first, Loud

LEMMA UsageIsLoud ==
  ASSUME NEW kind \in Kinds \ (CfKinds \cup RunpodKinds), NEW role \in BOOLEAN, kind \in AwsKinds => role
  PROVE  Loud(CheckUsage(kind, role))
  <1>1. {} \in SUBSET Kinds /\ "throw" \in Handlers /\ "next" \in Handlers /\ "skip" \in Handlers
    BY DEF Handlers
  <1>2. \A of \in SUBSET Kinds : /\ Tells(Query(of, "throw", "throw", "throw"))
                                /\ Tells(Must(of, {}))
    <2> TAKE of \in SUBSET Kinds
    <2>1. Tells(Query(of, "throw", "throw", "throw"))
      <3> DEFINE query == Query(of, "throw", "throw", "throw")
      <3>1. query.auth = "throw" /\ query.refused = "throw" /\ query.lost = "throw"
        BY DEF Query
      <3> HIDE DEF query
      <3>2. Tells(query)
        BY <3>1 DEF Tells
      <3> QED BY <3>2 DEF query
    <2>2. Tells(Must(of, {}))
      BY <1>1, StepFields DEF Tells, Must
    <2> QED BY <2>1, <2>2
  <1>3. Loud(GcpUsage)
    <2>1. Tells(AccessToken)
      BY <1>2 DEF AccessToken, Kinds
    <2> QED BY <2>1 DEF GcpUsage, Loud
  <1>4. Loud(AwsUsage(TRUE))
    <2>1. Tells(Must(AwsKinds, {}))
      BY <1>2 DEF Kinds
    <2> DEFINE S == {Must(AwsKinds, {}), ListEC2Instances, ListLambdaFunctions, ListRDSInstances,
                     ListECSServices, ListEKSNodeGroups, ListSageMakerEndpoints, QueryCostExplorer}
               a == <<Must(AwsKinds, {})>>
               b == <<ListEC2Instances, ListLambdaFunctions, ListRDSInstances,
                      ListECSServices, ListEKSNodeGroups, ListSageMakerEndpoints, QueryCostExplorer>>
    <2>2. a \in Seq(S) /\ b \in Seq(S) /\ Len(a) > 0 /\ a[1] = Must(AwsKinds, {})
      OBVIOUS
    <2>3. AwsUsage(TRUE) = a \o b
      BY DEF AwsUsage, AwsCredentials
    <2> HIDE DEF S, a, b
    <2>4. a \o b \in Seq(S) /\ Len(a \o b) > 0 /\ (a \o b)[1] = Must(AwsKinds, {})
      BY <2>2, FirstStays
    <2>5. a \o b # <<>> /\ 1 \in DOMAIN (a \o b)
      BY <2>4
    <2> QED BY <2>1, <2>3, <2>4, <2>5 DEF Loud
  <1>5. Loud(MongodbUsage(kind))
    BY <1>1, <1>2 DEF MongodbUsage, CheckAtlas, CheckSelfHostedMongo, Loud
  <1>6. Loud(RedisUsage(kind))
    BY <1>1, <1>2 DEF RedisUsage, CheckRedisCloud, CheckElastiCache, CheckSelfHostedRedis, Loud
  <1>7. Loud(Neo4jUsage)
    BY <1>1, <1>2 DEF Neo4jUsage, AuraToken, Kinds, DataKinds, Loud
  <1>8. Loud(NeonUsage)
    BY <1>1, <1>2 DEF NeonUsage, Kinds, DataKinds, Loud
  <1>9. Loud(DailyRateWatcher)
    BY <1>1, <1>2 DEF DailyRateWatcher, Kinds, ComputeKinds, EdgeKinds, Loud
  <1>10. \A k \in Kinds : Loud(UsageOrProbe(k))
    <2> TAKE k \in Kinds
    <2>1. Goes(Or(Query({k}, "next", "next", "next")))
      BY DEF Query, Or, Goes
    <2> QED BY <1>1, <1>2, <2>1 DEF UsageOrProbe, Loud
  <1>11. /\ Loud(VercelUsage) /\ Loud(ReplicateUsage) /\ Loud(SnowflakeUsage) /\ Loud(OpenaiUsage)
         /\ Loud(AnthropicUsage) /\ Loud(XaiUsage) /\ Loud(DatadogUsage)
    BY <1>10 DEF VercelUsage, ReplicateUsage, SnowflakeUsage, OpenaiUsage, AnthropicUsage, XaiUsage,
                 DatadogUsage, Kinds, ComputeKinds, JobKinds, LlmKinds
  <1>12. kind \in AwsKinds => AwsUsage(role) = AwsUsage(TRUE)
    OBVIOUS
  <1> QED BY <1>3, <1>4, <1>5, <1>6, <1>7, <1>8, <1>9, <1>11, <1>12, ZenonT(60) DEF CheckUsage

(* Who asks, with what, and what the last answer was. *)
CheckShape == check \in [saw : Usages \cup {"calm"}, blind : BOOLEAN,
                         by : {"none", "clear", "violation", "error"}]
WatchInv ==
    /\ target \in Targets /\ config \in Configs /\ (config.role => target \in AwsKinds)
    /\ account \in {"absent", "connected"} /\ usage \in Usages \cup {"calm"} /\ mail \in 0 .. MaxMail
    /\ cred \in Credentials /\ (cred = "blind" => target \in CfKinds)
    /\ CheckShape /\ BlindIsLoud

LEMMA BlindThrows ==
  ASSUME AdapterConstantsOK, WatchInv, cred # "good", ~Swallows,
         NEW answer \in Answers[target][config.role][cred]
  PROVE  answer.threw
  <1>1. target \in Kinds /\ config.role \in BOOLEAN /\ cred \in Credentials
    BY DEF AdapterConstantsOK, WatchInv
  <1> DEFINE queries == CheckUsage(target, config.role)
  <1>2. answer \in AnswersOf(target, queries, cred)
    BY <1>1 DEF Answers, WatchInv
  <1>3. CASE target \in CfKinds
    <2>1. queries = CloudflareUsage
      <3>1. target \notin GcpKinds \cup AwsKinds \cup AtlasKinds \cup MongoKinds \cup RedisKinds
                           \cup Neo4jKinds \cup NeonKinds \cup RunpodKinds \cup LlmKinds \cup JobKinds \cup {"snowflake"}
        BY <1>3 DEF CfKinds, Workers, GcpKinds, AwsKinds, AwsTotals, AtlasKinds, MongoKinds, RedisKinds, CacheKinds,
             SelfHosted, Neo4jKinds, NeonKinds, RunpodKinds, LlmKinds, JobKinds
      <3> QED BY <1>3, <3>1 DEF CheckUsage, LlmKinds, JobKinds
    <2> HIDE DEF queries
    <2>2. \A i \in DOMAIN queries : ~Permits(cred, queries[i]) \/ (i # 1 /\ Tells(queries[1]))
      BY <1>1, <2>1, CloudflareLoud DEF Permits, Credentials
    <2> QED BY <1>2, <2>1, <2>2, CloudflareLoud, AnswerThrows
  <1>4. CASE target \notin CfKinds
    <2>1. Loud(queries)
      BY <1>1, <1>4, UsageIsLoud DEF Swallows
    <2> HIDE DEF queries
    <2>2. \A i \in DOMAIN queries : ~Permits(cred, queries[i])
      BY <1>1, <1>4 DEF Permits, Credentials, WatchInv
    <2> QED BY <1>2, <2>1, <2>2, AnswerThrows
  <1> QED BY <1>3, <1>4

LEMMA WatchSteps ==
  ASSUME AdapterConstantsOK, WatchInv, [Next]_vars
  PROVE  WatchInv'
  <1>m. MaxMail \in Nat
    BY DEF AdapterConstantsOK
  <1> USE DEF WatchInv, CheckShape, BlindIsLoud, Swallows
  <1>1. CASE UNCHANGED vars
    BY <1>1 DEF vars
  <1>2. CASE Connect
    BY <1>2 DEF Connect
  <1>3. CASE Check
    <2>1. UNCHANGED <<env, mail>>
      BY <1>3 DEF Check
    <2>2. PICK answer \in Answers[target][config.role][cred] :
             LET saw == IF answer.seen THEN Reported ELSE "calm"
             IN check' = [saw |-> saw, blind |-> cred # "good",
                           by |-> CASE answer.threw -> "error"
                                    [] ~answer.threw /\ saw = "calm" -> "clear"
                                    [] OTHER -> "violation"]
      BY <1>3 DEF Check
    <2> DEFINE saw == IF answer.seen THEN Reported ELSE "calm"
    <2>3. saw \in Usages \cup {"calm"}
      BY DEF Reported
    <2>4. check'.blind = (cred # "good") /\ (answer.threw => check'.by = "error")
      BY <2>2
    <2>5. CheckShape'
      BY <2>2, <2>3
    <2> QED BY <2>1, <2>4, <2>5, BlindThrows DEF env
  <1>4. CASE Publish
    <2>1. UNCHANGED env /\ mail < MaxMail /\ mail' \in {mail, mail + 1}
      BY <1>4 DEF Publish
    <2>2. check' = NoCheck \/ check' = [check EXCEPT !.by = "error"]
      BY <1>4 DEF Publish
    <2>3. NoCheck.by = "none" /\ NoCheck \in [saw : Usages \cup {"calm"}, blind : BOOLEAN,
                                              by : {"none", "clear", "violation", "error"}]
      BY DEF NoCheck
    <2>4. CASE check' = NoCheck
      BY <1>m, <2>1, <2>3, <2>4 DEF env
    <2>5. CASE check' = [check EXCEPT !.by = "error"]
      BY <1>m, <2>1, <2>5 DEF env
    <2> QED BY <2>2, <2>4, <2>5
  <1>5. CASE EngineKill
    BY <1>5 DEF EngineKill, NoCheck, env
  <1>6. CASE Deliver
    BY <1>m, <1>6 DEF Deliver, env
  <1>7. CASE EndKill \/ NothingListed \/ Request
    <2>1. UNCHANGED <<env, check, mail>>
      BY <1>7 DEF EndKill, NothingListed, Request
    <2> QED BY <2>1 DEF env
  <1>8. CASE Die
    <2>1. UNCHANGED env /\ check' = NoCheck /\ mail' \in 0 .. MaxMail
      BY <1>m, <1>8 DEF Die
    <2> QED BY <2>1 DEF env, NoCheck
  <1>9. CASE \E action \in Actions : AskKill(action)
    <2>1. UNCHANGED <<env, check, mail>>
      BY <1>9 DEF AskKill
    <2> QED BY <2>1 DEF env
  <1>10. CASE BudgetAlert
    BY <1>m, <1>10 DEF BudgetAlert, env
  <1>11. CASE Surge \/ NewDay
    BY <1>11 DEF Surge, NewDay
  <1>12. CASE Restart
    BY <1>12 DEF Restart
  <1>13. CASE Revoke
    BY <1>13 DEF Revoke, Credentials
  <1> QED BY <1>1, <1>2, <1>3, <1>4, <1>5, <1>6, <1>7, <1>8, <1>9, <1>10, <1>11, <1>12, <1>13
          DEF Next, Work

LEMMA WatchStarts == ASSUME AdapterConstantsOK, Init PROVE WatchInv
  <1>1. check \in [saw : Usages \cup {"calm"}, blind : BOOLEAN,
                   by : {"none", "clear", "violation", "error"}] /\ check.by = "none"
    BY DEF Init, NoCheck
  <1>2. account \in {"absent", "connected"} /\ mail = 0 /\ MaxMail \in Nat
    BY DEF Init, AdapterConstantsOK
  <1> QED BY <1>1, <1>2 DEF Init, WatchInv, CheckShape, BlindIsLoud, Credentials

(* The types of the state. *)
THEOREM TypeCorrect == Spec => []TypeOK
  <1> USE AdapterConstantsOK
  <1>1. Init => KillInv /\ WatchInv
    BY KillInvStarts, WatchStarts
  <1>2. KillInv /\ WatchInv /\ [Next]_vars => KillInv' /\ WatchInv'
    BY KillInvSteps, WatchSteps
  <1>3. KillInv /\ WatchInv => TypeOK
    BY DEF KillInv, CallShape, CallRecords, WatchInv, CheckShape, TypeOK, Credentials
  <1> QED BY <1>1, <1>2, <1>3, PTL DEF Spec

(* A check begun with a credential that no longer works, or lacks the      *)
(* analytics right, does not end in "all clear": the first query of every  *)
(* adapter that does not swallow its failures lets the exception out, or   *)
(* sends a probe that does.                                                *)
THEOREM BlindnessIsTold == Spec => []BlindIsLoud
  <1> USE AdapterConstantsOK
  <1>1. Init => WatchInv
    BY WatchStarts
  <1>2. WatchInv /\ [Next]_vars => WatchInv'
    BY WatchSteps
  <1>3. WatchInv => BlindIsLoud
    BY DEF WatchInv
  <1> QED BY <1>1, <1>2, <1>3, PTL DEF Spec
=============================================================================
