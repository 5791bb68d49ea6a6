---------------------------- MODULE EngineProofs ----------------------------
(***************************************************************************)
(* Proofs about Engine, for every number of requests, every bound of a     *)
(* channel, of the queue and of the arena, and every configuration of the  *)
(* scheduler that EngineAssumption allows.                                 *)
(*                                                                         *)
(* What the engine's calls do to the scheduler is taken from the proofs    *)
(* about the scheduler on its own.                                         *)
(***************************************************************************)
EXTENDS Engine, SequenceTheorems, FiniteSetTheorems, TLAPS

SP == INSTANCE SchedulerProofs WITH SequenceIds <- Requests

-----------------------------------------------------------------------------
(* Sequences without repetition, and what they list.                       *)

\* The empty sequence lists nothing, and only that does.
LEMMA Empty ==
  ASSUME NEW T
  PROVE  /\ << >> \in Seq(T) /\ Len(<< >>) = 0
         /\ Range(<< >>) = {} /\ IsInjective(<< >>)
         /\ \A q \in Seq(T) : q # << >> => Range(q) # {}
<1>1. << >> \in Seq(T) /\ Len(<< >>) = 0 /\ DOMAIN << >> = {} OBVIOUS
<1>2. ASSUME NEW q \in Seq(T), q # << >> PROVE Range(q) # {}
  <2>1. 1 \in DOMAIN q BY <1>2
  <2>2. QED BY <2>1 DEF Range
<1>3. QED BY <1>1, <1>2 DEF Range, IsInjective

\* A sequence of one element.
LEMMA Single ==
  ASSUME NEW T, NEW e \in T
  PROVE  /\ <<e>> \in Seq(T) /\ <<e>> # << >> /\ Head(<<e>>) = e /\ Tail(<<e>>) = << >>
         /\ Range(<<e>>) = {e} /\ IsInjective(<<e>>)
<1>1. <<e>> \in Seq(T) /\ <<e>> # << >> /\ Head(<<e>>) = e /\ Tail(<<e>>) = << >> OBVIOUS
<1>2. DOMAIN <<e>> = {1} /\ <<e>>[1] = e OBVIOUS
<1>3. QED BY <1>1, <1>2 DEF Range, IsInjective

\* Taking the first element off.
LEMMA Taken ==
  ASSUME NEW T, NEW q \in Seq(T), q # << >>
  PROVE  /\ Head(q) \in T /\ Head(q) \in Range(q) /\ Range(q) \subseteq T
         /\ Tail(q) \in Seq(T) /\ Len(Tail(q)) = Len(q) - 1 /\ Len(q) \in Nat
         /\ Range(q) = Range(Tail(q)) \cup {Head(q)}
         /\ IsInjective(q) => IsInjective(Tail(q)) /\ Range(Tail(q)) = Range(q) \ {Head(q)}
<1> DEFINE t == Tail(q)
<1>1. /\ Len(q) \in Nat \ {0} /\ DOMAIN q = 1 .. Len(q)
      /\ \A i \in 1 .. Len(q) : q[i] \in T
      /\ t \in Seq(T) /\ Len(t) = Len(q) - 1 /\ DOMAIN t = 1 .. Len(q) - 1
      /\ \A i \in 1 .. Len(q) - 1 : t[i] = q[i + 1]
      /\ Head(q) = q[1]
  OBVIOUS
<1> HIDE DEF t
<1>2. 1 \in DOMAIN q BY <1>1
<1>3. \A i \in DOMAIN t : i + 1 \in DOMAIN q /\ i + 1 # 1 /\ t[i] = q[i + 1] BY <1>1
<1>4. \A j \in DOMAIN q : j # 1 => j - 1 \in DOMAIN t /\ t[j - 1] = q[j] BY <1>1
<1>5. Range(q) = Range(t) \cup {q[1]} BY <1>2, <1>3, <1>4 DEF Range
<1>6. ASSUME IsInjective(q) PROVE IsInjective(t) /\ q[1] \notin Range(t)
  <2>1. \A i, j \in DOMAIN q : q[i] = q[j] => i = j BY <1>6 DEF IsInjective
  <2>2. \A i, j \in DOMAIN t : t[i] = t[j] => i = j BY <1>1, <1>3, <2>1
  <2>3. q[1] \notin Range(t) BY <1>2, <1>3, <2>1 DEF Range
  <2>4. QED BY <2>2, <2>3 DEF IsInjective
<1>7. Range(q) \subseteq T BY <1>1 DEF Range
<1>8. QED BY <1>1, <1>2, <1>5, <1>6, <1>7 DEF t

\* Putting one behind.
LEMMA Put ==
  ASSUME NEW T, NEW q \in Seq(T), NEW e \in T
  PROVE  /\ Append(q, e) \in Seq(T) /\ Len(Append(q, e)) = Len(q) + 1 /\ Len(q) \in Nat
         /\ Append(q, e) # << >>
         /\ Range(Append(q, e)) = Range(q) \cup {e}
         /\ IsInjective(q) /\ e \notin Range(q) => IsInjective(Append(q, e))
<1> DEFINE a == Append(q, e)
<1>1. /\ Len(q) \in Nat /\ DOMAIN q = 1 .. Len(q)
      /\ a \in Seq(T) /\ Len(a) = Len(q) + 1 /\ DOMAIN a = 1 .. Len(q) + 1
      /\ \A i \in 1 .. Len(q) : a[i] = q[i]
      /\ a[Len(q) + 1] = e
  OBVIOUS
<1> HIDE DEF a
<1>2. Range(a) = Range(q) \cup {e}
  <2>1. \A i \in DOMAIN a : i \in DOMAIN q \/ i = Len(q) + 1 BY <1>1
  <2>2. DOMAIN q \subseteq DOMAIN a /\ Len(q) + 1 \in DOMAIN a BY <1>1
  <2>3. QED BY <1>1, <2>1, <2>2 DEF Range
<1>3. ASSUME IsInjective(q), e \notin Range(q) PROVE IsInjective(a)
  <2>1. \A i, j \in DOMAIN q : q[i] = q[j] => i = j BY <1>3 DEF IsInjective
  <2>2. \A i \in DOMAIN q : q[i] # e BY <1>3 DEF Range
  <2>3. \A i, j \in DOMAIN a : a[i] = a[j] => i = j BY <1>1, <2>1, <2>2
  <2>4. QED BY <2>3 DEF IsInjective
<1>4. a # << >> BY <1>1
<1>5. QED BY <1>1, <1>2, <1>3, <1>4 DEF a

-----------------------------------------------------------------------------
(* The scheduler.  SchedulerProofs speaks of an instance of Scheduler that *)
(* is equal to the one in Engine.                                          *)

\* The engine's configuration of the scheduler is a valid one.
LEMMA Valid == SP!IsValid
BY EngineAssumption DEF SP!IsValid, S!IsValid, SP!IsFiniteSet, S!IsFiniteSet

\* The function `remove` is the same in both, and is the removal from the pending queue.
LEMMA SameWithout ==
  ASSUME NEW q, NEW r
  PROVE  S!Without(q, r) = SP!Without(q, r) /\ RemoveFirst(q, r) = SP!Without(q, r)
BY DEF S!Without, SP!Without, S!RemoveFirst, SP!RemoveFirst, RemoveFirst,
       S!RemoveAt, SP!RemoveAt, RemoveAt, S!SelectInSeq, SP!SelectInSeq, SelectInSeq,
       S!Min, SP!Min, Min

\* Taking one element out of the middle.
LEMMA Removed ==
  ASSUME NEW T, NEW q \in Seq(T), IsInjective(q), NEW e \in Range(q)
  PROVE  /\ RemoveFirst(q, e) \in Seq(T) /\ Len(RemoveFirst(q, e)) = Len(q) - 1
         /\ IsInjective(RemoveFirst(q, e))
         /\ Range(RemoveFirst(q, e)) = Range(q) \ {e}
<1> DEFINE w == RemoveFirst(q, e)
<1>1. SP!Lists(q, Range(q)) BY DEF SP!Lists, Range, IsInjective
<1>2. w \in Seq(T) /\ Len(w) = Len(q) - 1 /\ SP!Lists(w, Range(q) \ {e}) BY <1>1, SP!ListsWithout, SameWithout, Valid
<1> HIDE DEF w
<1>3. QED BY <1>2 DEF SP!Lists, Range, IsInjective, w

\* The invariant of SchedulerProofs gives the types of the instance in Engine.
LEMMA SchedulerTypes == ASSUME SP!Inv PROVE S!TypeOK
BY DEF SP!Inv, S!TypeOK, SP!TypeOK, S!Phase, SP!Phase, S!BatchPlan, SP!BatchPlan, S!NoPlan, SP!NoPlan

\* It holds at the start, and while the scheduler is left alone.
LEMMA SchedulerInit == ASSUME S!Init PROVE SP!Inv
<1>1. SP!Init BY DEF S!Init, SP!Init, S!NoPlan, SP!NoPlan
<1>2. QED BY <1>1, SP!InitInv, Valid

LEMMA SchedulerSame == ASSUME SP!Inv, UNCHANGED scheduler PROVE SP!Inv'
<1>1. /\ phase' = phase /\ remaining' = remaining /\ planned' = planned /\ waited' = waited
      /\ waiting' = waiting /\ prefill' = prefill /\ decode' = decode
      /\ active' = active /\ plan' = plan
  BY DEF scheduler
<1>2. SP!TypeOK' BY <1>1 DEF SP!Inv, SP!TypeOK, SP!BatchPlan, SP!NoPlan, SP!Phase
<1>3. SP!QueuesMatchPhases' BY <1>1 DEF SP!Inv, SP!QueuesMatchPhases, SP!Lists, SP!In
<1>4. SP!ActiveExact'
  <2>1. SP!AdmittedSet' = SP!AdmittedSet BY <1>1 DEF SP!AdmittedSet, SP!Admitted
  <2>2. QED BY <1>1, <2>1 DEF SP!Inv, SP!ActiveExact
<1>5. SP!PromptAccounted' BY <1>1 DEF SP!Inv, SP!PromptAccounted, SP!Smaller
<1>6. QED BY <1>2, <1>3, <1>4, <1>5 DEF SP!Inv

\* What each call of the scheduler does to the phases, all that the engine's registries
\* are compared with.
Moves(r, to) == phase' = [phase EXCEPT ![r] = to]

LEMMA EnqueueEffect ==
  ASSUME SP!Inv, NEW r \in Requests, NEW prompt \in 1 .. MaxPrompt, S!Enqueue(r, prompt)
  PROVE  SP!Inv' /\ Moves(r, "Waiting") /\ phase[r] = "Absent"
<1>1. SP!Enqueue(r, prompt) BY DEF S!Enqueue, SP!Enqueue, S!NoPlan, SP!NoPlan
<1>2. QED BY <1>1, SP!EnqueueInv, Valid DEF SP!Enqueue, Moves

LEMMA AdmitEffect ==
  ASSUME SP!Inv, NEW r \in Requests, S!AdmitReserved(r)
  PROVE  SP!Inv' /\ Moves(r, "Prefill")
<1>1. SP!AdmitReserved(r) BY DEF S!AdmitReserved, SP!AdmitReserved, S!NoPlan, SP!NoPlan
<1>2. QED BY <1>1, SP!AdmitReservedInv, Valid DEF SP!AdmitReserved, Moves

LEMMA CompletePrefillEffect ==
  ASSUME SP!Inv, NEW r \in Requests, S!CompletePrefill(r, planned[r])
  PROVE  SP!Inv' /\ (Moves(r, "Prefill") \/ Moves(r, "Decode"))
<1>1. SP!CompletePrefill(r, planned[r])
  BY DEF S!CompletePrefill, SP!CompletePrefill, S!NoPlan, SP!NoPlan
<1>2. planned[r] \in Nat BY DEF SP!Inv, SP!TypeOK
<1>3. QED BY <1>1, <1>2, SP!CompletePrefillInv, Valid DEF SP!CompletePrefill, Moves

LEMMA CompleteDecodeEffect ==
  ASSUME SP!Inv, NEW r \in Requests, NEW terminal \in BOOLEAN, S!CompleteDecode(r, terminal)
  PROVE  SP!Inv' /\ Moves(r, IF terminal THEN "Absent" ELSE "Decode")
<1>1. SP!CompleteDecode(r, terminal)
  BY DEF S!CompleteDecode, SP!CompleteDecode, S!Forget, SP!Forget, S!NoPlan, SP!NoPlan
<1>2. QED BY <1>1, SP!CompleteDecodeInv, Valid DEF SP!CompleteDecode, SP!Forget, Moves

LEMMA CancelEffect ==
  ASSUME SP!Inv, NEW r \in Requests, S!Cancel(r)
  PROVE  SP!Inv' /\ Moves(r, "Absent")
<1>1. SP!Cancel(r)
  BY SameWithout DEF S!Cancel, SP!Cancel, S!Forget, SP!Forget, S!NoPlan, SP!NoPlan
<1>2. QED BY <1>1, SP!CancelInv, Valid DEF SP!Cancel, SP!Forget, Moves

LEMMA RemoveTerminalEffect ==
  ASSUME SP!Inv, NEW r \in Requests, S!RemoveTerminal(r)
  PROVE  SP!Inv' /\ Moves(r, "Absent")
<1>1. SP!RemoveTerminal(r)
  BY SameWithout DEF S!RemoveTerminal, SP!RemoveTerminal, S!Forget, SP!Forget, S!NoPlan, SP!NoPlan
<1>2. QED BY <1>1, SP!RemoveTerminalInv, Valid DEF SP!RemoveTerminal, SP!Forget, Moves

LEMMA TickEffect ==
  ASSUME SP!Inv, S!Tick
  PROVE  SP!Inv' /\ phase' = phase
<1>1. SP!Tick
  BY DEF S!Tick, SP!Tick, S!NoPlan, SP!NoPlan, S!Admitted, SP!Admitted, S!Smaller, SP!Smaller
<1>2. QED BY <1>1, SP!TickInv, Valid DEF SP!Tick

LEMMA PlanEffect ==
  ASSUME SP!Inv, S!Plan
  PROVE  /\ SP!Inv'
         /\ plan'.decode \in Seq(Requests) /\ IsInjective(plan'.decode)
         /\ plan'.prefill \in Seq(Requests) /\ IsInjective(plan'.prefill)
         /\ plan'.stable \in BOOLEAN
         /\ \A r \in Range(plan'.decode) : phase[r] = "Decode" /\ phase'[r] = "InFlightDecode"
         /\ \A r \in Range(plan'.prefill) : phase[r] = "Prefill" /\ phase'[r] = "InFlightPrefill"
         /\ \A r \in Requests \ (Range(plan'.decode) \cup Range(plan'.prefill)) : phase'[r] = phase[r]
<1>1. SP!Plan
  BY DEF S!Plan, SP!Plan, S!PrefillOrder, SP!PrefillOrder, S!DecodeRows, SP!DecodeRows,
         S!Smaller, SP!Smaller, S!Aged, SP!Aged, S!FirstAged, SP!FirstAged, S!Takes, SP!Takes,
         S!Chunk, SP!Chunk, S!FamilyFor, SP!FamilyFor, S!IsStable, SP!IsStable
<1>2. SP!Inv' BY <1>1, SP!PlanInv, Valid
<1>3. PICK D \in SUBSET SP!In("Decode"), P \in SUBSET SP!In("Prefill") :
        /\ plan'.decode \in Seq(Requests) /\ SP!Lists(plan'.decode, D)
        /\ plan'.prefill \in Seq(Requests) /\ SP!Lists(plan'.prefill, P)
        /\ phase' = [s \in Requests |-> IF s \in D THEN "InFlightDecode"
                                        ELSE IF s \in P THEN "InFlightPrefill" ELSE phase[s]]
        /\ plan'.stable \in BOOLEAN
  BY <1>1, SP!PlanTakes, Valid
<1>4. /\ Range(plan'.decode) = D /\ IsInjective(plan'.decode)
      /\ Range(plan'.prefill) = P /\ IsInjective(plan'.prefill)
  BY <1>3 DEF SP!Lists, Range, IsInjective
<1>5. /\ \A r \in D : r \in Requests /\ phase[r] = "Decode"
      /\ \A r \in P : r \in Requests /\ phase[r] = "Prefill"
  BY <1>3 DEF SP!In
<1>6. QED BY <1>2, <1>3, <1>4, <1>5

-----------------------------------------------------------------------------
(* The inductive invariant.                                                *)

ClientTypes ==
  /\ commands \in Seq(Command) /\ Len(commands) <= CommandCapacity
  /\ client \in [Requests ->
       {"New", "Checked", "Refused", "Reading", "Told", "Closed", "Gone"}]
  /\ events \in [Requests -> Seq({"Raw"} \cup Terminal)]
  /\ \A r \in Requests : Len(events[r]) <= EventCapacity
  /\ {cancelled, overdue, waitedOut} \subseteq [Requests -> BOOLEAN]
  /\ need \in [Requests -> PageDemands \cup {0}]
  /\ left \in [Requests -> Nat]

LoopTypes ==
  /\ pc \in {"drain", "expire", "expiring", "admit", "admitting", "plan", "decode",
             "decodeRows", "checkRow", "finish", "failing", "stable", "return", "prefill",
             "prefillRows", "remove", "end", "blocked", "stopping", "stopped"}
  /\ readiness \in {"Ready", "ShuttingDown", "Stopped"}
  /\ queue \in Seq(Requests) /\ Len(queue) <= MaxQueued
  /\ {activeRequests, held, todo} \subseteq SUBSET Requests
  /\ drained \in 0 .. MaxCommands
  /\ submission \in {"None", "Decode", "Stable", "Prefill"}
  /\ {rows, survivors, nextPrefill} \subseteq Seq(Requests)
  /\ {changed, delivered, submitted} \subseteq BOOLEAN

\* Which lists may hold requests, and what is being run, at each point of the loop.
Where ==
  /\ rows # << >> => pc \in {"admitting", "decode", "decodeRows", "checkRow", "finish", "failing",
                             "prefillRows", "remove"}
  /\ pc \in {"admitting", "checkRow", "finish", "remove"} => rows # << >>
  /\ pc = "admitting" => Tail(rows) = << >>
  /\ survivors # << >> =>
       pc \in {"decodeRows", "checkRow", "finish", "return"} /\ submission = "Stable"
  /\ nextPrefill # << >> =>
       \/ pc \in {"decode", "decodeRows", "checkRow", "return", "prefill"}
       \/ pc \in {"finish", "failing"} /\ submission # "Prefill"
  /\ todo # {} => pc = "expiring"
  /\ pc \in {"decode", "decodeRows", "return"} => submission \in {"Decode", "Stable"}
  /\ pc = "checkRow" => submission = "Stable"
  /\ pc \in {"prefillRows", "remove"} => submission = "Prefill"
  /\ pc \in {"finish", "failing"} => submission # "None"
  /\ pc \in {"decode", "decodeRows", "checkRow", "finish", "failing", "return", "prefill",
             "prefillRows", "remove"} => submitted

\* Both name active requests.
NamesActive ==
  /\ IsInjective(nextPrefill)
  /\ Range(nextPrefill) \subseteq activeRequests
  /\ todo \subseteq activeRequests

\* Nobody waits for pages that nobody would give back.
Resting ==
  /\ pc = "plan" /\ activeRequests = {} => queue = << >>
  /\ pc = "end" /\ ~submitted /\ activeRequests = {} => queue = << >>
  /\ pc \in {"blocked", "stopped"} => activeRequests = {} /\ queue = << >>
  /\ pc = "stopped" => readiness = "Stopped" /\ commands = << >>

Senders == Submitted \cup Range(queue) \cup Owned

\* A client hears of its request, and last of all how it ended.
Heard ==
  \A r \in Requests :
    /\ r \in Senders => client[r] \notin {"New", "Checked", "Refused", "Told"}
    /\ client[r] # "Reading" => events[r] = << >>
    /\ \A i \in DOMAIN events[r] : events[r][i] \in Terminal => i = Len(events[r]) /\ r \notin Senders

TokensLeft ==
  \A r \in Owned : left[r] > 0 \/ (pc \in {"finish", "remove"} /\ r = Head(rows))

\* SameRequests, and the points at which a row is out of step.
Registered ==
  /\ held = Owned
  /\ pc = "finish" => phase[Head(rows)] = "Absent"
  /\ \A r \in Requests :
       /\ phase[r] = "Waiting" => pc = "admitting" /\ r = Head(rows)
       /\ phase[r] \notin {"Absent", "Waiting"} => r \in Owned
       /\ r \in Owned =>
            phase[r] \notin {"Absent", "Waiting"} \/ (pc \in {"admitting", "finish"} /\ r = Head(rows))
       /\ r \in activeRequests => phase[r] \in {"Prefill", "Decode"} \/ r \in Range(nextPrefill)

IInv ==
  /\ ClientTypes /\ LoopTypes /\ SP!Inv
  /\ OnePlace /\ Where /\ NamesActive /\ Resting
  /\ Heard /\ TokensLeft /\ Registered

LEMMA TypesOf == IInv => TypeOK
BY SchedulerTypes DEF IInv, TypeOK, ClientTypes, LoopTypes

-----------------------------------------------------------------------------
(* The command channel.                                                    *)

SubmitsOnce ==
  \A i, j \in DOMAIN commands : commands[i].kind = "Submit" /\ commands[i] = commands[j] => i = j

\* Receiving a command.
LEMMA CommandTaken ==
  ASSUME ClientTypes, SubmitsOnce, commands # << >>, commands' = Tail(commands)
  PROVE  /\ commands' \in Seq(Command) /\ Len(commands') <= CommandCapacity
         /\ SubmitsOnce'
         /\ Head(commands) \in Command
         /\ Head(commands).kind = "Submit" =>
              /\ Head(commands).request \in Requests \cap Submitted
              /\ Submitted' = Submitted \ {Head(commands).request}
         /\ Head(commands).kind # "Submit" => Submitted' = Submitted
<1> DEFINE c == Head(commands)
<1>1. commands \in Seq(Command) /\ Len(commands) <= CommandCapacity /\ CommandCapacity \in Nat
  BY EngineAssumption DEF ClientTypes
<1>2. /\ c \in Command /\ commands' \in Seq(Command) /\ Len(commands') = Len(commands) - 1
      /\ Len(commands) \in Nat /\ Range(commands) = Range(commands') \cup {c}
      /\ c \in Range(commands)
  BY <1>1, Taken
<1>3. /\ DOMAIN commands = 1 .. Len(commands) /\ DOMAIN commands' = 1 .. Len(commands) - 1
      /\ \A i \in 1 .. Len(commands) - 1 : commands'[i] = commands[i + 1]
      /\ c = commands[1] /\ 1 \in DOMAIN commands
  BY <1>1, <1>2
<1>4. SubmitsOnce'
  <2>1. ASSUME NEW i \in DOMAIN commands', NEW j \in DOMAIN commands',
               commands'[i].kind = "Submit", commands'[i] = commands'[j]
        PROVE  i = j
    <3>1. /\ i + 1 \in DOMAIN commands /\ j + 1 \in DOMAIN commands
          /\ commands'[i] = commands[i + 1] /\ commands'[j] = commands[j + 1]
      BY <1>2, <1>3
    <3>2. i + 1 = j + 1 BY <2>1, <3>1 DEF SubmitsOnce
    <3>3. QED BY <3>2, <1>2, <1>3
  <2>2. QED BY <2>1 DEF SubmitsOnce
<1>5. ASSUME c.kind = "Submit"
      PROVE  c.request \in Requests \cap Submitted /\ Submitted' = Submitted \ {c.request}
  <2>1. c \in [kind : {"Submit", "Cancel"}, request : Requests] BY <1>2, <1>5 DEF Command
  <2>2. c = [kind |-> "Submit", request |-> c.request] /\ c.request \in Requests BY <2>1, <1>5
  <2>3. c \notin Range(commands')
    <3>1. \A i \in DOMAIN commands' : i + 1 \in DOMAIN commands /\ i + 1 # 1 /\ commands'[i] = commands[i + 1]
      BY <1>2, <1>3
    <3>2. \A i \in DOMAIN commands' : commands[i + 1] # c BY <3>1, <1>3, <1>5 DEF SubmitsOnce
    <3>3. QED BY <3>1, <3>2 DEF Range
  <2>4. \A r \in Requests : r # c.request => [kind |-> "Submit", request |-> r] # c BY <2>2
  <2>5. QED BY <1>2, <2>2, <2>3, <2>4 DEF Submitted
<1>6. ASSUME c.kind # "Submit" PROVE Submitted' = Submitted
  <2>1. \A r \in Requests : [kind |-> "Submit", request |-> r] # c BY <1>6
  <2>2. QED BY <1>2, <2>1 DEF Submitted
<1>7. QED BY <1>1, <1>2, <1>4, <1>5, <1>6

\* Sending one.
LEMMA CommandSent ==
  ASSUME ClientTypes, SubmitsOnce, NEW c \in Command, commands' = Append(commands, c),
         Len(commands) < CommandCapacity,
         c.kind = "Submit" => c.request \notin Submitted
  PROVE  /\ commands' \in Seq(Command) /\ Len(commands') <= CommandCapacity
         /\ SubmitsOnce'
         /\ c.kind = "Submit" => Submitted' = Submitted \cup {c.request}
         /\ c.kind # "Submit" => Submitted' = Submitted
<1>1. commands \in Seq(Command) /\ CommandCapacity \in Nat BY EngineAssumption DEF ClientTypes
<1>2. /\ commands' \in Seq(Command) /\ Len(commands') = Len(commands) + 1 /\ Len(commands) \in Nat
      /\ Range(commands') = Range(commands) \cup {c}
  BY <1>1, Put
<1>3. /\ DOMAIN commands = 1 .. Len(commands) /\ DOMAIN commands' = 1 .. Len(commands) + 1
      /\ \A i \in 1 .. Len(commands) : commands'[i] = commands[i]
      /\ commands'[Len(commands) + 1] = c
  BY <1>1, <1>2
<1>4. c.kind = "Submit" =>
        /\ c = [kind |-> "Submit", request |-> c.request] /\ c.request \in Requests
        /\ \A r \in Requests : r # c.request => [kind |-> "Submit", request |-> r] # c
        /\ c \notin Range(commands)
  <2> SUFFICES ASSUME c.kind = "Submit"
               PROVE  /\ c = [kind |-> "Submit", request |-> c.request] /\ c.request \in Requests
                      /\ \A r \in Requests : r # c.request => [kind |-> "Submit", request |-> r] # c
                      /\ c \notin Range(commands)
    OBVIOUS
  <2>1. c \in [kind : {"Submit", "Cancel"}, request : Requests] BY DEF Command
  <2>2. c = [kind |-> "Submit", request |-> c.request] /\ c.request \in Requests BY <2>1
  <2>3. \A r \in Requests : r # c.request => [kind |-> "Submit", request |-> r] # c BY <2>2
  <2>4. QED BY <2>2, <2>3 DEF Submitted
<1>5. SubmitsOnce'
  <2>1. ASSUME NEW i \in DOMAIN commands', NEW j \in DOMAIN commands',
               commands'[i].kind = "Submit", commands'[i] = commands'[j]
        PROVE  i = j
    <3>1. CASE i = Len(commands) + 1 /\ j \in DOMAIN commands
      BY <3>1, <2>1, <1>3, <1>4 DEF Range
    <3>2. CASE j = Len(commands) + 1 /\ i \in DOMAIN commands
      BY <3>2, <2>1, <1>3, <1>4 DEF Range
    <3>3. CASE i \in DOMAIN commands /\ j \in DOMAIN commands
      BY <3>3, <2>1, <1>3 DEF SubmitsOnce
    <3>4. QED BY <3>1, <3>2, <3>3, <1>2, <1>3
  <2>2. QED BY <2>1 DEF SubmitsOnce
<1>6. c.kind = "Submit" => Submitted' = Submitted \cup {c.request} BY <1>2, <1>4 DEF Submitted
<1>7. c.kind # "Submit" => Submitted' = Submitted
  <2>1. c.kind # "Submit" => \A r \in Requests : [kind |-> "Submit", request |-> r] # c OBVIOUS
  <2>2. QED BY <1>2, <2>1 DEF Submitted
<1>8. QED BY <1>1, <1>2, <1>5, <1>6, <1>7

-----------------------------------------------------------------------------
(* The event channels.                                                     *)

EventTypes ==
  /\ events \in [Requests -> Seq({"Raw"} \cup Terminal)]
  /\ \A r \in Requests : Len(events[r]) <= EventCapacity

\* Nothing is said.
LEMMA Quiet ==
  ASSUME ClientTypes, Heard, UNCHANGED <<client, events>>, Senders' \subseteq Senders
  PROVE  EventTypes' /\ Heard'
BY DEF ClientTypes, EventTypes, Heard

\* A request that has a sender is told something: a token, or how it ended.
LEMMA Said ==
  ASSUME ClientTypes, Heard, NEW r \in Requests, r \in Senders,
         NEW event \in {"Raw"} \cup Terminal, Send(r, event), UNCHANGED client,
         Senders' \subseteq Senders, event \in Terminal => r \notin Senders'
  PROVE  EventTypes' /\ Heard'
<1>1. /\ events \in [Requests -> Seq({"Raw"} \cup Terminal)]
      /\ \A s \in Requests : Len(events[s]) <= EventCapacity
      /\ EventCapacity \in Nat
  BY EngineAssumption DEF ClientTypes
<1>2. CASE ~CanSend(r)
  <2>1. events' = events BY <1>2 DEF Send
  <2>2. QED BY <2>1, Quiet
<1>3. CASE CanSend(r)
  <2>1. events' = [events EXCEPT ![r] = Append(events[r], event)] BY <1>3 DEF Send
  <2>2. client[r] = "Reading" /\ Len(events[r]) < EventCapacity BY <1>3 DEF CanSend
  <2> DEFINE q == events[r]
             a == Append(events[r], event)
  <2>3. q \in Seq({"Raw"} \cup Terminal) BY <1>1
  <2>4. /\ a \in Seq({"Raw"} \cup Terminal) /\ Len(a) = Len(q) + 1 /\ Len(q) \in Nat
        /\ DOMAIN a = 1 .. Len(q) + 1 /\ DOMAIN q = 1 .. Len(q)
        /\ a[Len(q) + 1] = event /\ \A i \in 1 .. Len(q) : a[i] = q[i]
    BY <2>3
  <2>5. \A i \in DOMAIN q : q[i] \notin Terminal BY DEF Heard
  <2>6. /\ events'[r] = a
        /\ \A s \in Requests \ {r} : events'[s] = events[s]
        /\ events' \in [Requests -> Seq({"Raw"} \cup Terminal)]
    BY <2>1, <2>4, <1>1
  <2> HIDE DEF a, q
  <2>7. EventTypes'
    <3>1. Len(a) <= EventCapacity BY <2>2, <2>4, <1>1 DEF q
    <3>2. \A s \in Requests : Len(events'[s]) <= EventCapacity BY <3>1, <2>6, <1>1
    <3>3. QED BY <3>2, <2>6 DEF EventTypes
  <2>8. \A i \in DOMAIN a : a[i] \in Terminal => i = Len(a) /\ r \notin Senders'
    <3>1. \A i \in DOMAIN a : i = Len(q) + 1 \/ i \in DOMAIN q BY <2>4
    <3>2. \A i \in DOMAIN q : a[i] \notin Terminal BY <2>4, <2>5
    <3>3. QED BY <3>1, <3>2, <2>4
  <2>9. Heard' BY <2>2, <2>6, <2>8 DEF Heard
  <2>10. QED BY <2>7, <2>9
<1>4. QED BY <1>2, <1>3

-----------------------------------------------------------------------------
(* Steps that leave part of the state alone.                               *)

LEMMA SameOwned ==
  ASSUME UNCHANGED <<activeRequests, rows, survivors>>
  PROVE  Owned' = Owned
BY DEF Owned

LEMMA SamePlaces ==
  ASSUME OnePlace, UNCHANGED <<commands, queue, activeRequests, rows, survivors>>
  PROVE  OnePlace' /\ Submitted' = Submitted /\ Owned' = Owned /\ Senders' = Senders
BY DEF OnePlace, Submitted, Owned, Senders

LEMMA OwnedRequests == ASSUME IInv PROVE Owned \subseteq Requests
<1>1. Range(rows) \subseteq Requests /\ Range(survivors) \subseteq Requests
  BY DEF IInv, LoopTypes, Range
<1>2. QED BY <1>1 DEF IInv, LoopTypes, Owned

\* A task's step changes nothing the engine keeps for itself, and the scheduler's
\* clock only the waiting times.
LEMMA EngineSideSame ==
  ASSUME IInv, UNCHANGED engineSide
  PROVE  /\ LoopTypes' /\ SP!Inv' /\ Where' /\ NamesActive'
         /\ Owned' = Owned /\ Registered'
         /\ commands' = commands \/ pc # "stopped" => Resting'
         /\ (\A r \in Owned : left'[r] = left[r]) => TokensLeft'
         /\ UNCHANGED <<queue, pc, readiness, activeRequests, rows, survivors>>
<1>1. /\ UNCHANGED scheduler /\ UNCHANGED phase
      /\ UNCHANGED <<pc, readiness, queue, activeRequests, held, drained>>
      /\ UNCHANGED <<todo, submission, rows, survivors, changed, delivered, nextPrefill, submitted>>
  BY DEF engineSide, scheduler, loop
<1>2. Owned' = Owned BY <1>1 DEF Owned
<1>3. LoopTypes' BY <1>1 DEF IInv, LoopTypes
<1>4. SP!Inv' BY <1>1, SchedulerSame DEF IInv
<1>5. Where' BY <1>1 DEF IInv, Where
<1>6. NamesActive' BY <1>1 DEF IInv, NamesActive
<1>7. Registered' BY <1>1, <1>2 DEF IInv, Registered
<1>8. commands' = commands \/ pc # "stopped" => Resting' BY <1>1 DEF IInv, Resting
<1>9. (\A r \in Owned : left'[r] = left[r]) => TokensLeft' BY <1>1, <1>2 DEF IInv, TokensLeft
<1>10. QED BY <1>1, <1>2, <1>3, <1>4, <1>5, <1>6, <1>7, <1>8, <1>9

-----------------------------------------------------------------------------
(* The HTTP tasks.                                                         *)

LEMMA CheckReadyInv == ASSUME IInv, NEW r \in Requests, CheckReady(r) PROVE IInv'
<1>1. /\ client[r] = "New" /\ client' \in {[client EXCEPT ![r] = "Checked"], [client EXCEPT ![r] = "Refused"]}
      /\ UNCHANGED engineSide /\ UNCHANGED <<commands, events, cancelled, overdue, waitedOut, need, left>>
  BY DEF CheckReady, demand
<1>2. /\ LoopTypes' /\ SP!Inv' /\ Where' /\ NamesActive' /\ Registered' /\ Resting' /\ TokensLeft'
      /\ UNCHANGED <<queue, activeRequests, rows, survivors>>
  BY <1>1, EngineSideSame
<1>3. OnePlace' /\ Senders' = Senders BY <1>1, <1>2, SamePlaces DEF IInv
<1>4. ClientTypes' BY <1>1 DEF IInv, ClientTypes
<1>5. Heard'
  <2>1. /\ client'[r] \in {"Checked", "Refused"} /\ \A s \in Requests \ {r} : client'[s] = client[s]
    BY <1>1 DEF IInv, ClientTypes
  <2>2. r \notin Senders BY <1>1 DEF IInv, Heard
  <2>3. events[r] = << >> BY <1>1 DEF IInv, Heard
  <2>4. QED BY <1>1, <1>3, <2>1, <2>2, <2>3 DEF IInv, Heard
<1>6. QED BY <1>2, <1>3, <1>4, <1>5 DEF IInv

LEMMA SubmitInv == ASSUME IInv, NEW r \in Requests, Submit(r) PROVE IInv'
<1>1. client[r] = "Checked" /\ UNCHANGED engineSide /\ UNCHANGED <<events, cancelled, overdue, waitedOut>>
  BY DEF Submit
<1>2. r \notin Senders /\ events[r] = << >> BY <1>1 DEF IInv, Heard
<1>3. CASE client' = [client EXCEPT ![r] = "Refused"] /\ UNCHANGED <<commands, demand>>
  <2>1. /\ LoopTypes' /\ SP!Inv' /\ Where' /\ NamesActive' /\ Registered' /\ Resting' /\ TokensLeft'
        /\ UNCHANGED <<queue, activeRequests, rows, survivors>>
    BY <1>1, <1>3, EngineSideSame DEF demand
  <2>2. OnePlace' /\ Senders' = Senders BY <1>3, <2>1, SamePlaces DEF IInv
  <2>3. ClientTypes' BY <1>1, <1>3 DEF IInv, ClientTypes, demand
  <2>4. client'[r] = "Refused" /\ \A s \in Requests \ {r} : client'[s] = client[s]
    BY <1>3 DEF IInv, ClientTypes
  <2>5. Heard' BY <1>1, <1>2, <2>2, <2>4 DEF IInv, Heard
  <2>6. QED BY <2>1, <2>2, <2>3, <2>5 DEF IInv
<1>4. CASE /\ pc # "stopped" /\ Len(commands) # CommandCapacity
           /\ client' = [client EXCEPT ![r] = "Reading"]
           /\ commands' = Append(commands, [kind |-> "Submit", request |-> r])
           /\ need' \in {[need EXCEPT ![r] = n] : n \in PageDemands}
           /\ left' \in {[left EXCEPT ![r] = n] : n \in TokenBudgets}
  <2> DEFINE c == [kind |-> "Submit", request |-> r]
  <2>1. c \in Command /\ c.kind = "Submit" /\ c.request = r BY DEF Command
  <2>2. SubmitsOnce /\ r \notin Submitted /\ Len(commands) < CommandCapacity
    BY <1>2, <1>4, EngineAssumption DEF IInv, OnePlace, SubmitsOnce, Senders, ClientTypes
  <2>3. /\ commands' \in Seq(Command) /\ Len(commands') <= CommandCapacity
        /\ SubmitsOnce' /\ Submitted' = Submitted \cup {r}
    <3> HIDE DEF c
    <3>1. commands' = Append(commands, c) BY <1>4 DEF c
    <3>2. QED BY <2>1, <2>2, <3>1, CommandSent DEF IInv
  <2>4. /\ left' \in [Requests -> Nat] /\ \A s \in Requests \ {r} : left'[s] = left[s]
        /\ need' \in [Requests -> PageDemands \cup {0}]
    BY <1>4, EngineAssumption DEF IInv, ClientTypes
  <2>5. client'[r] = "Reading" /\ \A s \in Requests \ {r} : client'[s] = client[s]
    BY <1>4 DEF IInv, ClientTypes
  <2>6. ClientTypes' BY <1>1, <1>4, <2>3, <2>4 DEF IInv, ClientTypes
  <2>7. r \notin Owned /\ r \notin Range(queue) BY <1>2 DEF Senders
  <2>8. Owned \subseteq Requests BY OwnedRequests
  <2>9. /\ LoopTypes' /\ SP!Inv' /\ Where' /\ NamesActive' /\ Registered' /\ Resting' /\ TokensLeft'
        /\ Owned' = Owned
        /\ UNCHANGED <<queue, activeRequests, rows, survivors>>
    BY <1>1, <1>4, <2>4, <2>7, <2>8, EngineSideSame DEF IInv
  <2>10. OnePlace' BY <2>3, <2>7, <2>9 DEF IInv, OnePlace, SubmitsOnce
  <2>11. Senders' = Senders \cup {r} BY <2>3, <2>9 DEF Senders
  <2>12. Heard' BY <1>1, <1>2, <2>5, <2>11 DEF IInv, Heard
  <2>13. QED BY <2>6, <2>9, <2>10, <2>12 DEF IInv
<1>5. QED BY <1>3, <1>4 DEF Submit

LEMMA ReceiveInv == ASSUME IInv, NEW r \in Requests, Receive(r) PROVE IInv'
<1>1. /\ client[r] = "Reading" /\ events[r] # << >>
      /\ client' = [client EXCEPT ![r] = IF Head(events[r]) \in Terminal THEN "Told" ELSE @]
      /\ events' = [events EXCEPT ![r] = Tail(@)]
      /\ UNCHANGED engineSide /\ UNCHANGED <<commands, cancelled, overdue, waitedOut, need, left>>
  BY DEF Receive, demand
<1>2. /\ LoopTypes' /\ SP!Inv' /\ Where' /\ NamesActive' /\ Registered' /\ Resting' /\ TokensLeft'
      /\ UNCHANGED <<queue, activeRequests, rows, survivors>>
  BY <1>1, EngineSideSame
<1>3. OnePlace' /\ Senders' = Senders BY <1>1, <1>2, SamePlaces DEF IInv
<1> DEFINE q == events[r]
           t == Tail(events[r])
<1>4. /\ q \in Seq({"Raw"} \cup Terminal) /\ q # << >> /\ Len(q) <= EventCapacity /\ EventCapacity \in Nat
  BY <1>1, EngineAssumption DEF IInv, ClientTypes
<1>5. /\ t \in Seq({"Raw"} \cup Terminal) /\ Len(t) = Len(q) - 1 /\ Len(q) \in Nat \ {0}
      /\ DOMAIN t = 1 .. Len(q) - 1 /\ DOMAIN q = 1 .. Len(q)
      /\ Head(q) = q[1] /\ \A i \in 1 .. Len(q) - 1 : t[i] = q[i + 1]
  BY <1>4
<1>6. /\ events'[r] = t /\ \A s \in Requests \ {r} : events'[s] = events[s]
      /\ events' \in [Requests -> Seq({"Raw"} \cup Terminal)]
      /\ client'[r] = IF Head(q) \in Terminal THEN "Told" ELSE "Reading"
      /\ \A s \in Requests \ {r} : client'[s] = client[s]
      /\ client' \in [Requests -> {"New", "Checked", "Refused", "Reading", "Told", "Closed", "Gone"}]
  BY <1>1, <1>5 DEF IInv, ClientTypes
<1>7. \A i \in DOMAIN q : q[i] \in Terminal => i = Len(q) /\ r \notin Senders BY DEF IInv, Heard
<1> HIDE DEF q, t
<1>8. ClientTypes'
  <2>1. Len(t) <= EventCapacity BY <1>4, <1>5
  <2>2. \A s \in Requests : Len(events'[s]) <= EventCapacity BY <2>1, <1>6 DEF IInv, ClientTypes
  <2>3. QED BY <2>2, <1>1, <1>6 DEF IInv, ClientTypes
<1>9. Heard'
  <2>1. \A i \in DOMAIN t : t[i] \in Terminal => i = Len(t) /\ r \notin Senders
    <3>1. ASSUME NEW i \in DOMAIN t, t[i] \in Terminal PROVE i = Len(t) /\ r \notin Senders
      <4>1. i + 1 \in DOMAIN q /\ q[i + 1] \in Terminal BY <1>5, <3>1
      <4>2. i + 1 = Len(q) /\ r \notin Senders BY <4>1, <1>7
      <4>3. QED BY <4>2, <1>5
    <3>2. QED BY <3>1
  <2>2. Head(q) \in Terminal => t = << >> /\ r \notin Senders
    <3>1. SUFFICES ASSUME Head(q) \in Terminal PROVE t = << >> /\ r \notin Senders OBVIOUS
    <3>2. 1 = Len(q) /\ r \notin Senders BY <1>5, <1>7, <3>1
    <3>3. QED BY <3>2, <1>5
  <2>3. client[r] = "Reading" BY <1>1
  <2>4. \A s \in Requests \ {r} :
          /\ s \in Senders => client'[s] \notin {"New", "Checked", "Refused", "Told"}
          /\ client'[s] # "Reading" => events'[s] = << >>
          /\ \A i \in DOMAIN events'[s] : events'[s][i] \in Terminal => i = Len(events'[s]) /\ s \notin Senders
    BY <1>6 DEF IInv, Heard
  <2>5. QED BY <1>3, <1>6, <2>1, <2>2, <2>4 DEF Heard
<1>10. QED BY <1>2, <1>3, <1>8, <1>9 DEF IInv

\* The guard speaks for a client that was reading, whatever made it stop.
LEMMA CancelGuardInv ==
  ASSUME IInv, NEW r \in Requests, client[r] = "Reading",
         NEW outcome \in {"Closed", "Gone"}, CancelGuard(r, outcome)
  PROVE  IInv'
<1>1. /\ client' = [client EXCEPT ![r] = outcome] /\ events' = [events EXCEPT ![r] = << >>]
      /\ cancelled' = [cancelled EXCEPT ![r] = TRUE]
      /\ UNCHANGED engineSide /\ UNCHANGED <<overdue, waitedOut, need, left>>
  BY DEF CancelGuard, CancelToken, demand
<1> DEFINE c == [kind |-> "Cancel", request |-> r]
<1>2. /\ commands' \in Seq(Command) /\ Len(commands') <= CommandCapacity
      /\ SubmitsOnce' /\ Submitted' = Submitted
      /\ commands' = commands \/ pc # "stopped"
  <2>1. c \in Command /\ c.kind = "Cancel" BY DEF Command
  <2>2. SubmitsOnce BY DEF IInv, OnePlace, SubmitsOnce
  <2>3. CASE commands' = commands
    BY <2>2, <2>3 DEF IInv, ClientTypes, SubmitsOnce, Submitted
  <2>4. CASE pc # "stopped" /\ Len(commands) < CommandCapacity /\ commands' = Append(commands, c)
    <3> HIDE DEF c
    <3>1. QED BY <2>1, <2>2, <2>4, CommandSent DEF IInv
  <2>5. QED BY <2>3, <2>4 DEF CancelGuard, TrySend
<1>3. /\ LoopTypes' /\ SP!Inv' /\ Where' /\ NamesActive' /\ Registered' /\ Resting' /\ TokensLeft'
      /\ Owned' = Owned
      /\ UNCHANGED <<queue, activeRequests, rows, survivors>>
  BY <1>1, <1>2, EngineSideSame
<1>4. OnePlace' BY <1>2, <1>3 DEF IInv, OnePlace, SubmitsOnce
<1>5. Senders' = Senders BY <1>2, <1>3 DEF Senders
<1>6. /\ client'[r] = outcome /\ events'[r] = << >>
      /\ \A s \in Requests \ {r} : client'[s] = client[s] /\ events'[s] = events[s]
      /\ events' \in [Requests -> Seq({"Raw"} \cup Terminal)]
      /\ client' \in [Requests -> {"New", "Checked", "Refused", "Reading", "Told", "Closed", "Gone"}]
      /\ cancelled' \in [Requests -> BOOLEAN]
  <2>1. << >> \in Seq({"Raw"} \cup Terminal) OBVIOUS
  <2>2. QED BY <1>1, <2>1 DEF IInv, ClientTypes
<1>7. ClientTypes'
  <2>1. Len(events'[r]) <= EventCapacity
    <3>1. Len(<< >>) = 0 OBVIOUS
    <3>2. QED BY <3>1, <1>6, EngineAssumption
  <2>2. \A s \in Requests : Len(events'[s]) <= EventCapacity BY <2>1, <1>6 DEF IInv, ClientTypes
  <2>3. QED BY <2>2, <1>1, <1>2, <1>6 DEF IInv, ClientTypes
<1>8. Heard'
  <2>1. DOMAIN << >> = {} OBVIOUS
  <2>2. QED BY <1>5, <1>6, <2>1 DEF IInv, Heard
<1>9. QED BY <1>3, <1>4, <1>7, <1>8 DEF IInv

\* A step that only adds a command nobody submitted, or lets time pass.
LEMMA BystanderInv ==
  ASSUME IInv, UNCHANGED <<engineSide, client, events, cancelled, need, left>>,
         overdue' \in [Requests -> BOOLEAN], waitedOut' \in [Requests -> BOOLEAN],
         commands' \in Seq(Command), Len(commands') <= CommandCapacity,
         SubmitsOnce', Submitted' = Submitted, commands' = commands \/ pc # "stopped"
  PROVE  IInv'
<1>1. /\ LoopTypes' /\ SP!Inv' /\ Where' /\ NamesActive' /\ Registered' /\ Resting' /\ TokensLeft'
      /\ Owned' = Owned
      /\ UNCHANGED <<queue, activeRequests, rows, survivors>>
  BY EngineSideSame
<1>2. OnePlace' BY <1>1 DEF IInv, OnePlace, SubmitsOnce
<1>3. Senders' = Senders BY <1>1 DEF Senders
<1>4. ClientTypes' BY DEF IInv, ClientTypes
<1>5. Heard' BY <1>3 DEF IInv, Heard
<1>6. QED BY <1>1, <1>2, <1>4, <1>5 DEF IInv

LEMMA RequestShutdownInv == ASSUME IInv, RequestShutdown PROVE IInv'
<1> DEFINE c == [kind |-> "Shutdown"]
<1>1. c \in Command /\ c.kind = "Shutdown" BY DEF Command
<1>2. SubmitsOnce BY DEF IInv, OnePlace, SubmitsOnce
<1>3. /\ readiness = "Ready" /\ Len(commands) < CommandCapacity /\ commands' = Append(commands, c)
      /\ UNCHANGED <<engineSide, client, events, cancelled, overdue, waitedOut, need, left>>
  BY DEF RequestShutdown, clients, demand
<1> HIDE DEF c
<1>4. /\ commands' \in Seq(Command) /\ Len(commands') <= CommandCapacity
      /\ SubmitsOnce' /\ Submitted' = Submitted
  BY <1>1, <1>2, <1>3, CommandSent DEF IInv
<1>5. pc # "stopped" BY <1>3 DEF IInv, Resting
<1>6. QED BY <1>3, <1>4, <1>5, BystanderInv DEF IInv, ClientTypes

LEMMA TimeInv ==
  ASSUME IInv, NEW r \in Requests, DeadlinePasses(r) \/ AdmissionWaitPasses(r)
  PROVE  IInv'
<1>1. SubmitsOnce BY DEF IInv, OnePlace, SubmitsOnce
<1>2. /\ UNCHANGED <<engineSide, commands, client, events, cancelled, need, left>>
      /\ overdue' \in [Requests -> BOOLEAN] /\ waitedOut' \in [Requests -> BOOLEAN]
  BY DEF DeadlinePasses, AdmissionWaitPasses, demand, IInv, ClientTypes
<1>3. Submitted' = Submitted /\ SubmitsOnce' BY <1>1, <1>2 DEF Submitted, SubmitsOnce
<1>4. QED BY <1>2, <1>3, BystanderInv DEF IInv, ClientTypes

LEMMA ClockTicksInv == ASSUME IInv, ClockTicks PROVE IInv'
<1>1. /\ pc = "plan" /\ S!Tick
      /\ UNCHANGED <<commands, client, events, cancelled, overdue, waitedOut, need, left>>
      /\ UNCHANGED <<pc, readiness, queue, activeRequests, held, drained>>
      /\ UNCHANGED <<todo, submission, rows, survivors, changed, delivered, nextPrefill, submitted>>
  BY DEF ClockTicks, clients, demand, loop
<1>2. SP!Inv' /\ phase' = phase BY <1>1, TickEffect DEF IInv
<1>3. OnePlace' /\ Owned' = Owned /\ Senders' = Senders BY <1>1, SamePlaces DEF IInv
<1>4. ClientTypes' BY <1>1 DEF IInv, ClientTypes
<1>5. LoopTypes' BY <1>1 DEF IInv, LoopTypes
<1>6. Where' BY <1>1 DEF IInv, Where
<1>7. NamesActive' /\ Resting' BY <1>1 DEF IInv, NamesActive, Resting
<1>8. Heard' BY <1>1, <1>3 DEF IInv, Heard
<1>9. TokensLeft' BY <1>1, <1>3 DEF IInv, TokensLeft
<1>10. Registered' BY <1>1, <1>2, <1>3 DEF IInv, Registered
<1>11. QED BY <1>2, <1>3, <1>4, <1>5, <1>6, <1>7, <1>8, <1>9, <1>10 DEF IInv

LEMMA EnvironmentInv == ASSUME IInv, Environment PROVE IInv'
<1>1. ASSUME NEW r \in Requests, SeeClosed(r) PROVE IInv'
  BY <1>1, CancelGuardInv DEF SeeClosed
<1>2. ASSUME NEW r \in Requests, Disconnect(r) PROVE IInv'
  BY <1>2, CancelGuardInv DEF Disconnect
<1>3. QED
  BY <1>1, <1>2, CheckReadyInv, SubmitInv, ReceiveInv, TimeInv, RequestShutdownInv, ClockTicksInv
  DEF Environment

-----------------------------------------------------------------------------
(* Steps of the loop that only move it on.                                 *)

LEMMA MovesOn ==
  ASSUME IInv,
         UNCHANGED <<scheduler, commands, clients, demand, queue, activeRequests, held,
                     rows, survivors, nextPrefill>>,
         todo' \subseteq activeRequests, pc \notin {"admitting", "finish", "remove"}, pc' # "finish",
         LoopTypes', Where', Resting'
  PROVE  IInv'
<1>1. /\ UNCHANGED <<scheduler, commands, client, events, cancelled, overdue, waitedOut, need, left>>
      /\ UNCHANGED <<phase, queue, activeRequests, held, rows, survivors, nextPrefill>>
  BY DEF clients, demand, scheduler
<1>2. SP!Inv' BY <1>1, SchedulerSame DEF IInv
<1>3. OnePlace' /\ Owned' = Owned /\ Senders' = Senders BY <1>1, SamePlaces DEF IInv
<1>4. ClientTypes' BY <1>1 DEF IInv, ClientTypes
<1>5. NamesActive' BY <1>1 DEF IInv, NamesActive
<1>6. Heard' BY <1>1, <1>3 DEF IInv, Heard
<1>7. TokensLeft' BY <1>1, <1>3 DEF IInv, TokensLeft
<1>8. Registered' BY <1>1, <1>3 DEF IInv, Registered
<1>9. QED BY <1>2, <1>3, <1>4, <1>5, <1>6, <1>7, <1>8 DEF IInv

LEMMA DrainDoneInv == ASSUME IInv, DrainDone PROVE IInv'
<1>1. MaxCommands \in Nat BY EngineAssumption
<1>2. UNCHANGED <<commands, readiness, queue, activeRequests, held, todo, submission, rows,
                  survivors, changed, delivered, nextPrefill, submitted>>
  BY DEF DrainDone, loop
<1>3. LoopTypes' BY <1>1, <1>2 DEF DrainDone, IInv, LoopTypes
<1>4. Where' BY <1>2 DEF DrainDone, IInv, Where
<1>5. Resting' BY <1>2 DEF DrainDone, IInv, Resting
<1>6. QED BY <1>2, <1>3, <1>4, <1>5, MovesOn DEF DrainDone, IInv, NamesActive

LEMMA CollectExpiredInv == ASSUME IInv, CollectExpired PROVE IInv'
<1>1. UNCHANGED <<commands, readiness, queue, activeRequests, held, drained, submission, rows,
                  survivors, changed, delivered, nextPrefill, submitted>>
  BY DEF CollectExpired, channel
<1>2. todo' \subseteq activeRequests BY DEF CollectExpired
<1>3. LoopTypes' BY <1>1, <1>2 DEF CollectExpired, IInv, LoopTypes
<1>4. Where' BY <1>1 DEF CollectExpired, IInv, Where
<1>5. Resting' BY <1>1 DEF CollectExpired, IInv, Resting
<1>6. QED BY <1>1, <1>2, <1>3, <1>4, <1>5, MovesOn DEF CollectExpired

\* The limit of active requests is reached by somebody who is active.
LEMMA FullOfActive ==
  ASSUME IInv, pc = "admit", ~(active < MaxActiveSequences)
  PROVE  activeRequests # {}
<1>1. MaxActiveSequences \in Nat \ {0} BY EngineAssumption DEF S!IsValid
<1>2. active = SP!Cardinality(SP!AdmittedSet) /\ active \in Nat
  BY DEF IInv, SP!Inv, SP!ActiveExact, SP!TypeOK
<1>3. active # 0 BY <1>1, <1>2
<1>4. SP!AdmittedSet # {}
  <2>1. SP!Cardinality({}) = 0 BY FS_EmptySet DEF SP!Cardinality, Cardinality
  <2>2. QED BY <2>1, <1>2, <1>3
<1>5. PICK r \in Requests : phase[r] \notin {"Absent", "Waiting"}
  BY <1>4 DEF SP!AdmittedSet, SP!Admitted
<1>6. r \in Owned BY <1>5 DEF IInv, Registered
<1>7. Owned = activeRequests BY Empty DEF IInv, Where, Owned
<1>8. QED BY <1>6, <1>7

LEMMA GoPlanInv ==
  ASSUME IInv, pc = "admit", GoPlan, activeRequests # {} \/ queue = << >>
  PROVE  IInv'
<1>1. UNCHANGED <<commands, readiness, queue, activeRequests, held, drained, todo, submission, rows,
                  survivors, changed, delivered, nextPrefill, submitted>>
  BY DEF GoPlan, channel, loop
<1>2. LoopTypes' BY <1>1 DEF GoPlan, IInv, LoopTypes
<1>3. Where' BY <1>1 DEF GoPlan, IInv, Where
<1>4. Resting' BY <1>1 DEF GoPlan, IInv, Resting
<1>5. QED BY <1>1, <1>2, <1>3, <1>4, MovesOn DEF GoPlan, channel, IInv, NamesActive

LEMMA AdmitDoneInv == ASSUME IInv, AdmitDone PROVE IInv'
BY FullOfActive, GoPlanInv DEF AdmitDone, CanAdmit

LEMMA HeadBlockedInv == ASSUME IInv, HeadBlocked PROVE IInv'
BY GoPlanInv DEF HeadBlocked, CanAdmit

LEMMA RunDecodeInv == ASSUME IInv, RunDecode PROVE IInv'
<1>1. UNCHANGED <<commands, readiness, queue, activeRequests, held, drained, todo, submission, rows,
                  survivors, delivered, nextPrefill, submitted>>
  BY DEF RunDecode, channel
<1>2. pc = "decode" /\ pc' \in {"decodeRows", "failing"} /\ changed' = FALSE BY DEF RunDecode
<1>3. LoopTypes' BY <1>1, <1>2 DEF IInv, LoopTypes
<1>4. Where' BY <1>1, <1>2 DEF IInv, Where
<1>5. Resting' BY <1>1, <1>2 DEF IInv, Resting
<1>6. QED BY <1>1, <1>2, <1>3, <1>4, <1>5, MovesOn DEF RunDecode, channel, IInv, NamesActive

LEMMA RowsDoneInv == ASSUME IInv, DecodeDone \/ StableYield \/ PrefillDone PROVE IInv'
<1>1. UNCHANGED <<commands, readiness, queue, activeRequests, held, drained, todo, submission, rows,
                  survivors, changed, delivered, nextPrefill, submitted>>
  BY DEF DecodeDone, StableYield, PrefillDone, channel, loop
<1>2. pc \in {"decodeRows", "prefillRows"} BY DEF DecodeDone, StableYield, PrefillDone
<1>3. \/ pc' = "prefill" /\ submission = "Decode"
      \/ pc' = "end" /\ (submission # "Stable") /\ nextPrefill = << >>
      \/ pc' = "return" /\ submission = "Stable"
  BY DEF DecodeDone, StableYield, PrefillDone, AfterDecode, IInv, Where
<1>4. rows = << >> BY DEF DecodeDone, StableYield, PrefillDone
<1>5. LoopTypes' BY <1>1, <1>3 DEF IInv, LoopTypes
<1>6. Where' BY <1>1, <1>2, <1>3, <1>4 DEF IInv, Where
<1>7. Resting' BY <1>1, <1>2, <1>3 DEF IInv, Where, Resting
<1>8. pc' # "finish" BY <1>3
<1>9. QED
  BY <1>1, <1>2, <1>5, <1>6, <1>7, <1>8, MovesOn
  DEF DecodeDone, StableYield, PrefillDone, channel, IInv, NamesActive

LEMMA EndIterationInv == ASSUME IInv, EndIteration PROVE IInv'
<1>1. UNCHANGED <<commands, readiness, queue, activeRequests, held, drained, todo, rows,
                  survivors, changed, delivered, nextPrefill>>
  BY DEF EndIteration, channel
<1>2. LoopTypes' BY <1>1 DEF EndIteration, IInv, LoopTypes
<1>3. Where' BY <1>1 DEF EndIteration, IInv, Where
<1>4. Resting' BY <1>1 DEF EndIteration, IInv, Resting, LoopTypes
<1>5. QED BY <1>1, <1>2, <1>3, <1>4, MovesOn DEF EndIteration, channel, IInv, NamesActive

-----------------------------------------------------------------------------
(* Ways in which a request leaves the map of active requests, or a row.    *)

\* Where nothing runs, what the engine owns is active.
LEMMA AtRest ==
  ASSUME IInv, pc \in {"drain", "expire", "expiring", "admit", "plan", "end", "blocked",
                       "stopping", "stopped"}
  PROVE  /\ rows = << >> /\ survivors = << >> /\ nextPrefill = << >>
         /\ Range(rows) = {} /\ Range(survivors) = {} /\ Range(nextPrefill) = {}
         /\ Owned = activeRequests
BY Empty DEF IInv, Where, Owned

\* An active request is cancelled where nothing runs.
LEMMA ActiveLetGo ==
  ASSUME IInv, pc \in {"drain", "expire", "expiring", "admit", "plan", "end", "blocked",
                       "stopping", "stopped"},
         NEW r \in activeRequests, S!Cancel(r), CancelActive(r),
         activeRequests' = activeRequests \ {r}, pc' \notin {"admitting", "finish"},
         UNCHANGED <<client, left, queue, rows, survivors, nextPrefill>>,
         SubmitsOnce', Submitted' = Submitted
  PROVE  /\ SP!Inv' /\ OnePlace' /\ NamesActive' = (todo' \subseteq activeRequests')
         /\ cancelled' \in [Requests -> BOOLEAN] /\ held' \in SUBSET Requests
         /\ activeRequests' \in SUBSET Requests
         /\ EventTypes' /\ Heard' /\ TokensLeft' /\ Registered'
<1>1. r \in Requests /\ activeRequests \in SUBSET Requests /\ held \in SUBSET Requests
  BY DEF IInv, LoopTypes
<1>2. SP!Inv' /\ phase' = [phase EXCEPT ![r] = "Absent"] BY <1>1, CancelEffect DEF IInv, Moves
<1>3. /\ Range(rows) = {} /\ Range(survivors) = {} /\ Range(nextPrefill) = {} /\ Owned = activeRequests
      /\ Range(rows') = {} /\ Range(survivors') = {} /\ Range(nextPrefill') = {}
  BY AtRest
<1>4. Owned' = Owned \ {r} BY <1>3 DEF Owned
<1>5. Senders' = Senders \ {r} BY <1>3, <1>4 DEF Senders, IInv, OnePlace
<1>6. OnePlace' BY <1>3, <1>4 DEF IInv, OnePlace, SubmitsOnce
<1>7. NamesActive' = (todo' \subseteq activeRequests')
  BY <1>3 DEF IInv, NamesActive
<1>8. /\ cancelled' = [cancelled EXCEPT ![r] = TRUE] /\ held' = held \ {r} /\ Send(r, "Cancelled")
  BY DEF CancelActive, CancelToken, Release
<1>9. cancelled' \in [Requests -> BOOLEAN] BY <1>8 DEF IInv, ClientTypes
<1>10. EventTypes' /\ Heard'
  BY <1>1, <1>3, <1>5, <1>8, Said DEF IInv, Senders, Terminal
<1>11. TokensLeft' BY <1>4 DEF IInv, TokensLeft
<1>12. \A s \in Requests : phase'[s] = IF s = r THEN "Absent" ELSE phase[s]
  BY <1>2 DEF IInv, SP!Inv, SP!TypeOK
<1>13. Registered' BY <1>3, <1>4, <1>8, <1>12 DEF IInv, Registered
<1>14. QED BY <1>1, <1>2, <1>6, <1>7, <1>8, <1>9, <1>10, <1>11, <1>13

-----------------------------------------------------------------------------
(* handle_command.                                                         *)

LEMMA HandleSubmitInv ==
  ASSUME IInv, pc \in {"drain", "blocked"}, NEW r \in Requests, r \in Submitted, HandleSubmit(r),
         pc' \in {"drain", "stopping"}, drained' \in 0 .. MaxCommands,
         commands' \in Seq(Command), Len(commands') <= CommandCapacity, SubmitsOnce',
         Submitted' = Submitted \ {r}, UNCHANGED <<clock, demand, loop>>
  PROVE  IInv'
<1>1. /\ UNCHANGED <<client, overdue, waitedOut, need, left>>
      /\ UNCHANGED <<todo, submission, rows, survivors, changed, delivered, nextPrefill, submitted>>
      /\ UNCHANGED <<scheduler, phase, activeRequests, held, cancelled, readiness>>
  BY DEF clock, demand, loop, HandleSubmit, scheduler
<1>2. r \notin Range(queue) /\ r \notin Owned BY DEF IInv, OnePlace
<1>3. Owned' = Owned BY <1>1, SameOwned
<1>4. queue \in Seq(Requests) /\ Len(queue) <= MaxQueued /\ MaxQueued \in Nat
  BY EngineAssumption DEF IInv, LoopTypes
<1>5. /\ queue' \in Seq(Requests) /\ Len(queue') <= MaxQueued /\ IsInjective(queue')
      /\ Range(queue') \subseteq Range(queue) \cup {r}
      /\ EventTypes' /\ Heard'
  <2>1. CASE Send(r, "Failed") /\ UNCHANGED queue
    <3>1. Senders' = Senders \ {r} BY <1>2, <1>3, <2>1 DEF Senders
    <3>2. r \in Senders BY DEF Senders
    <3>3. "Failed" \in Terminal BY DEF Terminal
    <3>4. EventTypes' /\ Heard' BY <1>1, <2>1, <3>1, <3>2, <3>3, Said DEF IInv
    <3>5. QED BY <1>4, <2>1, <3>4 DEF IInv, OnePlace
  <2>2. CASE Len(queue) < MaxQueued /\ queue' = Append(queue, r) /\ UNCHANGED events
    <3>1. /\ queue' \in Seq(Requests) /\ Len(queue') = Len(queue) + 1 /\ Len(queue) \in Nat
          /\ Range(queue') = Range(queue) \cup {r} /\ IsInjective(queue')
      BY <1>2, <1>4, <2>2, Put DEF IInv, OnePlace
    <3>2. Senders' \subseteq Senders BY <1>3, <3>1 DEF Senders
    <3>3. EventTypes' /\ Heard' BY <1>1, <2>2, <3>2, Quiet DEF IInv
    <3>4. QED BY <1>4, <2>2, <3>1, <3>3
  <2>3. Len(queue) \in Nat BY <1>4
  <2>4. QED BY <1>4, <2>1, <2>2, <2>3 DEF HandleSubmit
<1>6. OnePlace' BY <1>1, <1>2, <1>3, <1>5 DEF IInv, OnePlace, SubmitsOnce
<1>7. ClientTypes' BY <1>1, <1>5 DEF IInv, ClientTypes, EventTypes
<1>8. LoopTypes' BY <1>1, <1>5 DEF IInv, LoopTypes
<1>9. SP!Inv' BY <1>1, SchedulerSame DEF IInv
<1>10. Where' BY <1>1 DEF IInv, Where
<1>11. NamesActive' /\ Resting' BY <1>1 DEF IInv, NamesActive, Resting
<1>12. TokensLeft' BY <1>1, <1>3 DEF IInv, TokensLeft
<1>13. Registered' BY <1>1, <1>3 DEF IInv, Registered
<1>14. QED BY <1>5, <1>6, <1>7, <1>8, <1>9, <1>10, <1>11, <1>12, <1>13 DEF IInv

LEMMA HandleCancelInv ==
  ASSUME IInv, pc \in {"drain", "blocked"}, NEW r \in Requests, HandleCancel(r),
         pc' \in {"drain", "stopping"}, drained' \in 0 .. MaxCommands,
         commands' \in Seq(Command), Len(commands') <= CommandCapacity, SubmitsOnce',
         Submitted' = Submitted, UNCHANGED <<clock, demand, loop>>
  PROVE  IInv'
<1>1. /\ UNCHANGED <<client, overdue, waitedOut, need, left>>
      /\ UNCHANGED <<todo, submission, rows, survivors, changed, delivered, nextPrefill, submitted>>
  BY DEF clock, demand, loop
<1>2. Resting' /\ Where' BY <1>1 DEF IInv, Resting, Where
<1>3. CASE /\ r \in activeRequests /\ S!Cancel(r) /\ activeRequests' = activeRequests \ {r}
           /\ CancelActive(r) /\ UNCHANGED <<queue, readiness>>
  <2>1. todo' = {} BY <1>1 DEF IInv, Where
  <2>2. /\ SP!Inv' /\ OnePlace' /\ NamesActive' = (todo' \subseteq activeRequests')
        /\ cancelled' \in [Requests -> BOOLEAN] /\ held' \in SUBSET Requests
        /\ activeRequests' \in SUBSET Requests
        /\ EventTypes' /\ Heard' /\ TokensLeft' /\ Registered'
    BY <1>1, <1>3, ActiveLetGo
  <2>3. ClientTypes' BY <1>1, <2>2 DEF IInv, ClientTypes, EventTypes
  <2>4. LoopTypes' BY <1>1, <1>3, <2>2 DEF IInv, LoopTypes
  <2>5. QED BY <1>2, <2>1, <2>2, <2>3, <2>4 DEF IInv
<1>4. CASE /\ r \notin activeRequests
           /\ IF r \in Range(queue)
              THEN queue' = RemoveFirst(queue, r) /\ Send(r, "Cancelled")
              ELSE UNCHANGED <<queue, events>>
           /\ UNCHANGED <<scheduler, activeRequests, held, cancelled, readiness>>
  <2>1. Owned' = Owned BY <1>1, <1>4, SameOwned
  <2>2. queue \in Seq(Requests) /\ Len(queue) <= MaxQueued /\ MaxQueued \in Nat /\ IsInjective(queue)
    BY EngineAssumption DEF IInv, LoopTypes, OnePlace
  <2>3. /\ queue' \in Seq(Requests) /\ Len(queue') <= MaxQueued /\ IsInjective(queue')
        /\ Range(queue') \subseteq Range(queue)
        /\ EventTypes' /\ Heard'
    <3>1. CASE r \in Range(queue)
      <4>1. /\ queue' \in Seq(Requests) /\ Len(queue') = Len(queue) - 1 /\ IsInjective(queue')
            /\ Range(queue') = Range(queue) \ {r}
        BY <1>4, <2>2, <3>1, Removed
      <4>2. r \in Senders /\ r \notin Submitted /\ r \notin Owned
        BY <3>1 DEF Senders, IInv, OnePlace
      <4>3. Senders' = Senders \ {r} BY <2>1, <4>1, <4>2 DEF Senders
      <4>4. "Cancelled" \in Terminal BY DEF Terminal
      <4>5. EventTypes' /\ Heard' BY <1>1, <1>4, <3>1, <4>2, <4>3, <4>4, Said DEF IInv
      <4>6. Len(queue) \in Nat BY <2>2
      <4>7. QED BY <2>2, <4>1, <4>5, <4>6
    <3>2. CASE r \notin Range(queue)
      <4>1. UNCHANGED <<queue, events>> BY <1>4, <3>2
      <4>2. Senders' = Senders BY <2>1, <4>1 DEF Senders
      <4>3. QED BY <1>1, <2>2, <4>1, <4>2, Quiet DEF IInv
    <3>3. QED BY <3>1, <3>2
  <2>4. OnePlace' BY <1>1, <1>4, <2>1, <2>3 DEF IInv, OnePlace, SubmitsOnce
  <2>5. ClientTypes' BY <1>1, <1>4, <2>3 DEF IInv, ClientTypes, EventTypes
  <2>6. LoopTypes' BY <1>1, <1>4, <2>3 DEF IInv, LoopTypes
  <2>7. SP!Inv' BY <1>4, SchedulerSame DEF IInv
  <2>8. NamesActive' BY <1>1, <1>4 DEF IInv, NamesActive
  <2>9. TokensLeft' BY <1>1, <2>1 DEF IInv, TokensLeft
  <2>10. Registered' BY <1>1, <1>4, <2>1 DEF IInv, Registered, scheduler
  <2>11. QED BY <1>2, <2>3, <2>4, <2>5, <2>6, <2>7, <2>8, <2>9, <2>10 DEF IInv
<1>5. QED BY <1>3, <1>4 DEF HandleCancel

LEMMA HandleCommandInv ==
  ASSUME IInv, pc \in {"drain", "blocked"}, HandleCommand,
         pc' \in {"drain", "stopping"}, drained' \in 0 .. MaxCommands
  PROVE  IInv'
<1> DEFINE c == Head(commands)
<1>1. commands # << >> /\ commands' = Tail(commands) /\ UNCHANGED <<clock, demand, loop>>
  BY DEF HandleCommand
<1>2. SubmitsOnce BY DEF IInv, OnePlace, SubmitsOnce
<1>3. /\ commands' \in Seq(Command) /\ Len(commands') <= CommandCapacity
      /\ SubmitsOnce' /\ c \in Command
      /\ c.kind = "Submit" => c.request \in Requests \cap Submitted /\ Submitted' = Submitted \ {c.request}
      /\ c.kind # "Submit" => Submitted' = Submitted
  BY <1>1, <1>2, CommandTaken DEF IInv
<1>4. \/ c.kind = "Submit" /\ HandleSubmit(c.request)
      \/ c.kind = "Cancel" /\ HandleCancel(c.request)
      \/ c.kind = "Shutdown" /\ HandleShutdown
  BY DEF HandleCommand
<1> HIDE DEF c
<1>5. CASE c.kind = "Submit" /\ HandleSubmit(c.request)
  BY <1>1, <1>3, <1>5, HandleSubmitInv
<1>6. CASE c.kind = "Cancel" /\ HandleCancel(c.request)
  <2>1. c.request \in Requests BY <1>3, <1>6 DEF Command
  <2>2. QED BY <1>1, <1>3, <1>6, <2>1, HandleCancelInv
<1>7. CASE c.kind = "Shutdown" /\ HandleShutdown
  <2>1. /\ UNCHANGED <<client, overdue, waitedOut, need, left>>
        /\ UNCHANGED <<todo, submission, rows, survivors, changed, delivered, nextPrefill, submitted>>
        /\ UNCHANGED <<scheduler, phase, queue, activeRequests, held, events, cancelled>>
        /\ readiness' = "ShuttingDown" /\ Submitted' = Submitted
    BY <1>1, <1>3, <1>7 DEF clock, demand, loop, HandleShutdown, scheduler
  <2>2. Owned' = Owned BY <2>1, SameOwned
  <2>3. Senders' = Senders BY <2>1, <2>2 DEF Senders
  <2>4. OnePlace' BY <1>3, <2>1, <2>2 DEF IInv, OnePlace, SubmitsOnce
  <2>5. ClientTypes' BY <1>3, <2>1 DEF IInv, ClientTypes
  <2>6. LoopTypes' BY <2>1 DEF IInv, LoopTypes
  <2>7. SP!Inv' BY <2>1, SchedulerSame DEF IInv
  <2>8. Where' BY <2>1 DEF IInv, Where
  <2>9. NamesActive' /\ Resting' BY <2>1 DEF IInv, NamesActive, Resting
  <2>10. Heard' BY <2>1, <2>3 DEF IInv, Heard
  <2>11. TokensLeft' BY <2>1, <2>2 DEF IInv, TokensLeft
  <2>12. Registered' BY <2>1, <2>2 DEF IInv, Registered
  <2>13. QED BY <2>4, <2>5, <2>6, <2>7, <2>8, <2>9, <2>10, <2>11, <2>12 DEF IInv
<1>8. QED BY <1>4, <1>5, <1>6, <1>7

LEMMA DrainCommandInv == ASSUME IInv, DrainCommand PROVE IInv'
<1>1. drained' \in 0 .. MaxCommands
  BY EngineAssumption DEF DrainCommand, IInv, LoopTypes
<1>2. QED BY <1>1, HandleCommandInv DEF DrainCommand

LEMMA WakeUpInv == ASSUME IInv, WakeUp PROVE IInv'
BY HandleCommandInv DEF WakeUp, IInv, LoopTypes

-----------------------------------------------------------------------------
(* Expiry and admission.                                                   *)

LEMMA CancelExpiredInv == ASSUME IInv, NEW r \in Requests, CancelExpired(r) PROVE IInv'
<1>1. /\ UNCHANGED <<commands, readiness, client, overdue, waitedOut, need, left, queue, drained>>
      /\ UNCHANGED <<submission, rows, survivors, changed, delivered, nextPrefill, submitted>>
  BY DEF CancelExpired, channel, clock, demand
<1>2. /\ pc = "expiring" /\ r \in todo /\ todo' = todo \ {r}
      /\ activeRequests' = activeRequests \ {r} /\ S!Cancel(r) /\ CancelActive(r)
      /\ pc' = IF todo' = {} THEN "admit" ELSE "expiring"
  BY DEF CancelExpired
<1>3. r \in activeRequests /\ todo \subseteq activeRequests BY <1>2 DEF IInv, NamesActive
<1>4. SubmitsOnce' /\ Submitted' = Submitted
  BY <1>1 DEF IInv, OnePlace, SubmitsOnce, Submitted
<1>5. /\ SP!Inv' /\ OnePlace' /\ NamesActive' = (todo' \subseteq activeRequests')
      /\ cancelled' \in [Requests -> BOOLEAN] /\ held' \in SUBSET Requests
      /\ activeRequests' \in SUBSET Requests
      /\ EventTypes' /\ Heard' /\ TokensLeft' /\ Registered'
  BY <1>1, <1>2, <1>3, <1>4, ActiveLetGo
<1>6. NamesActive' BY <1>2, <1>3, <1>5
<1>7. ClientTypes' BY <1>1, <1>5 DEF IInv, ClientTypes, EventTypes
<1>8. LoopTypes' BY <1>1, <1>2, <1>5 DEF IInv, LoopTypes
<1>9. Where' BY <1>1, <1>2 DEF IInv, Where
<1>10. Resting' BY <1>1, <1>2 DEF IInv, Resting
<1>11. QED BY <1>5, <1>6, <1>7, <1>8, <1>9, <1>10 DEF IInv

\* The head of the pending queue leaves it, with an answer, and is not admitted.
LEMMA HeadAnswered ==
  ASSUME IInv, pc \in {"admit", "stopping"}, queue # << >>, queue' = Tail(queue),
         NEW event \in Terminal, Send(Head(queue), event),
         cancelled' \in [Requests -> BOOLEAN],
         UNCHANGED <<scheduler, channel, clock, demand, pc, activeRequests, held, drained, loop>>
  PROVE  IInv'
<1> DEFINE r == Head(queue)
<1>1. /\ UNCHANGED <<commands, readiness, client, overdue, waitedOut, need, left, phase>>
      /\ UNCHANGED <<pc, activeRequests, held, drained, scheduler>>
      /\ UNCHANGED <<todo, submission, rows, survivors, changed, delivered, nextPrefill, submitted>>
  BY DEF channel, clock, demand, loop, scheduler
<1>2. queue \in Seq(Requests) /\ Len(queue) <= MaxQueued /\ IsInjective(queue) /\ MaxQueued \in Nat
  BY EngineAssumption DEF IInv, LoopTypes, OnePlace
<1>3. /\ r \in Requests /\ r \in Range(queue) /\ queue' \in Seq(Requests)
      /\ Len(queue') = Len(queue) - 1 /\ Len(queue) \in Nat /\ IsInjective(queue')
      /\ Range(queue') = Range(queue) \ {r}
  BY <1>2, Taken
<1>4. Send(r, event) OBVIOUS
<1> HIDE DEF r
<1>5. Owned' = Owned /\ Submitted' = Submitted BY <1>1 DEF Owned, Submitted
<1>6. r \in Senders /\ Senders' = Senders \ {r}
  BY <1>3, <1>5 DEF IInv, OnePlace, Senders
<1>7. EventTypes' /\ Heard' BY <1>1, <1>3, <1>4, <1>6, Said DEF IInv
<1>8. OnePlace' BY <1>1, <1>3, <1>5 DEF IInv, OnePlace, SubmitsOnce
<1>9. ClientTypes' BY <1>1, <1>7 DEF IInv, ClientTypes, EventTypes
<1>10. LoopTypes'
  <2>1. Len(queue') <= MaxQueued BY <1>2, <1>3
  <2>2. QED BY <1>1, <1>3, <2>1 DEF IInv, LoopTypes
<1>11. SP!Inv' BY <1>1, SchedulerSame DEF IInv
<1>12. Where' BY <1>1 DEF IInv, Where
<1>13. NamesActive' /\ Resting' BY <1>1 DEF IInv, NamesActive, Resting
<1>14. TokensLeft' BY <1>1, <1>5 DEF IInv, TokensLeft
<1>15. Registered' BY <1>1, <1>5 DEF IInv, Registered
<1>16. QED BY <1>7, <1>8, <1>9, <1>10, <1>11, <1>12, <1>13, <1>14, <1>15 DEF IInv

LEMMA AnswerHeadInv == ASSUME IInv, AnswerHead PROVE IInv'
<1>1. PICK event \in Terminal : Answer(event) BY DEF AnswerHead, Terminal
<1>2. pc = "admit" /\ queue # << >> BY DEF AnswerHead, CanAdmit
<1>3. /\ queue' = Tail(queue) /\ Send(Head(queue), event) /\ cancelled' = cancelled
      /\ UNCHANGED <<scheduler, channel, clock, demand, pc, activeRequests, held, drained, loop>>
  BY <1>1 DEF Answer
<1>4. QED BY <1>2, <1>3, HeadAnswered DEF IInv, ClientTypes

LEMMA ReserveHeadInv == ASSUME IInv, ReserveHead PROVE IInv'
<1> DEFINE r == Head(queue)
<1>1. PICK prompt \in 1 .. MaxPrompt : S!Enqueue(r, prompt) BY DEF ReserveHead
<1>2. /\ UNCHANGED <<commands, readiness, client, events, cancelled, overdue, waitedOut, need, left>>
      /\ UNCHANGED <<activeRequests, drained, todo, submission, survivors, changed, delivered,
                     nextPrefill, submitted>>
  BY DEF ReserveHead, channel, clients, demand
<1>3. /\ pc = "admit" /\ pc' = "admitting" /\ queue # << >> /\ queue' = Tail(queue) /\ rows' = <<r>>
      /\ held' = held \cup {r} /\ left[r] > 0
  BY DEF ReserveHead, CanAdmit
<1>4. queue \in Seq(Requests) /\ Len(queue) <= MaxQueued /\ IsInjective(queue) /\ MaxQueued \in Nat
  BY EngineAssumption DEF IInv, LoopTypes, OnePlace
<1>5. /\ r \in Requests /\ r \in Range(queue) /\ queue' \in Seq(Requests)
      /\ Len(queue') = Len(queue) - 1 /\ Len(queue) \in Nat /\ IsInjective(queue')
      /\ Range(queue') = Range(queue) \ {r}
  BY <1>3, <1>4, Taken
<1> HIDE DEF r
<1>6. SP!Inv' /\ phase' = [phase EXCEPT ![r] = "Waiting"] /\ phase[r] = "Absent"
  BY <1>1, <1>5, EnqueueEffect DEF IInv, Moves
<1>7. /\ Range(rows') = {r} /\ IsInjective(rows') /\ rows' # << >> /\ Tail(rows') = << >>
      /\ Head(rows') = r /\ rows' \in Seq(Requests)
  BY <1>3, <1>5, Single
<1>8. /\ rows = << >> /\ survivors = << >> /\ nextPrefill = << >> /\ Range(rows) = {}
      /\ Range(survivors) = {} /\ Range(nextPrefill) = {} /\ Owned = activeRequests
  BY <1>3, AtRest
<1>9. Owned' = Owned \cup {r} /\ Submitted' = Submitted BY <1>2, <1>7, <1>8 DEF Owned, Submitted
<1>10. r \notin Owned /\ r \notin Submitted BY <1>5 DEF IInv, OnePlace
<1>11. Senders' = Senders BY <1>5, <1>9 DEF Senders
<1>12. OnePlace'
  <2>1. Range(survivors') = {} BY <1>2, <1>8
  <2>2. QED BY <1>2, <1>5, <1>7, <1>8, <1>9, <1>10, <2>1 DEF IInv, OnePlace
<1>13. ClientTypes' BY <1>2 DEF IInv, ClientTypes
<1>14. LoopTypes'
  <2>1. Len(queue') <= MaxQueued BY <1>4, <1>5
  <2>2. held' \in SUBSET Requests BY <1>3, <1>5 DEF IInv, LoopTypes
  <2>3. QED BY <1>2, <1>3, <1>5, <1>7, <2>1, <2>2 DEF IInv, LoopTypes
<1>15. Where' BY <1>2, <1>3, <1>7, <1>8 DEF IInv, Where
<1>16. NamesActive' BY <1>2 DEF IInv, NamesActive
<1>17. Resting' BY <1>2, <1>3 DEF IInv, Resting
<1>18. Heard' BY <1>2, <1>11 DEF IInv, Heard
<1>19. TokensLeft' BY <1>2, <1>3, <1>9 DEF IInv, TokensLeft
<1>20. Registered'
  <2>1. \A s \in Requests : phase'[s] = IF s = r THEN "Waiting" ELSE phase[s]
    BY <1>6 DEF IInv, SP!Inv, SP!TypeOK
  <2>2. QED BY <1>2, <1>3, <1>5, <1>7, <1>8, <1>9, <1>10, <2>1 DEF IInv, Registered
<1>21. QED BY <1>6, <1>12, <1>13, <1>14, <1>15, <1>16, <1>17, <1>18, <1>19, <1>20 DEF IInv

LEMMA AdmitReservedInv == ASSUME IInv, AdmitReserved PROVE IInv'
<1> DEFINE r == Head(rows)
<1>1. /\ UNCHANGED <<commands, readiness, client, events, cancelled, overdue, waitedOut, need, left>>
      /\ UNCHANGED <<queue, held, drained, todo, submission, survivors, changed, delivered,
                     nextPrefill, submitted>>
  BY DEF AdmitReserved, channel, clients, demand
<1>2. /\ pc = "admitting" /\ pc' = "admit" /\ rows' = << >> /\ S!AdmitReserved(r)
      /\ activeRequests' = activeRequests \cup {r}
  BY DEF AdmitReserved
<1>3. rows \in Seq(Requests) /\ rows # << >> /\ Tail(rows) = << >> BY <1>2 DEF IInv, LoopTypes, Where
<1>4. r \in Requests /\ Range(rows) = {r} BY <1>3, Taken, Empty
<1> HIDE DEF r
<1>5. SP!Inv' /\ phase' = [phase EXCEPT ![r] = "Prefill"] BY <1>2, <1>4, AdmitEffect DEF IInv, Moves
<1>6. Range(rows') = {} /\ IsInjective(rows') /\ rows' \in Seq(Requests) BY <1>2, Empty
<1>7. Owned' = Owned /\ Submitted' = Submitted BY <1>1, <1>2, <1>4, <1>6 DEF Owned, Submitted
<1>8. Senders' = Senders BY <1>1, <1>7 DEF Senders
<1>9. OnePlace' BY <1>1, <1>2, <1>4, <1>6, <1>7 DEF IInv, OnePlace
<1>10. ClientTypes' BY <1>1 DEF IInv, ClientTypes
<1>11. LoopTypes' BY <1>1, <1>2, <1>4, <1>6 DEF IInv, LoopTypes
<1>12. Where' BY <1>1, <1>2 DEF IInv, Where
<1>13. NamesActive' BY <1>1, <1>2 DEF IInv, NamesActive
<1>14. Resting' BY <1>1, <1>2 DEF IInv, Resting
<1>15. Heard' BY <1>1, <1>8 DEF IInv, Heard
<1>16. TokensLeft' BY <1>1, <1>2, <1>7 DEF IInv, TokensLeft
<1>17. Registered'
  <2>1. \A s \in Requests : phase'[s] = IF s = r THEN "Prefill" ELSE phase[s]
    BY <1>5 DEF IInv, SP!Inv, SP!TypeOK
  <2>2. r \in Owned BY <1>4 DEF Owned
  <2>3. \A s \in Requests : phase[s] = "Waiting" => s = r BY <1>2 DEF IInv, Registered, r
  <2>4. \A s \in Requests : s \in Owned => phase[s] \notin {"Absent", "Waiting"} \/ s = r
    BY <1>2 DEF IInv, Registered, r
  <2>5. QED BY <1>1, <1>2, <1>7, <2>1, <2>2, <2>3, <2>4 DEF IInv, Registered
<1>18. QED BY <1>5, <1>9, <1>10, <1>11, <1>12, <1>13, <1>14, <1>15, <1>16, <1>17 DEF IInv

-----------------------------------------------------------------------------
(* The plan, and the rows that a submission takes.                         *)

LEMMA MakePlanInv == ASSUME IInv, MakePlan PROVE IInv'
<1> DEFINE D == Range(plan'.decode)
           P == Range(plan'.prefill)
<1>1. /\ UNCHANGED <<commands, readiness, client, events, cancelled, overdue, waitedOut, need, left>>
      /\ UNCHANGED <<queue, held, drained, todo, survivors, changed, delivered>>
  BY DEF MakePlan, channel, clients, demand
<1>2. /\ pc = "plan" /\ S!Plan /\ rows' = plan'.decode /\ nextPrefill' = plan'.prefill
      /\ activeRequests' = activeRequests \ D
      /\ submission' = IF plan'.decode = << >> THEN "None"
                       ELSE IF plan'.stable THEN "Stable" ELSE "Decode"
      /\ submitted' = (plan'.decode # << >> \/ plan'.prefill # << >>)
      /\ pc' = IF plan'.decode # << >> THEN "decode"
               ELSE IF plan'.prefill # << >> THEN "prefill" ELSE "end"
  BY DEF MakePlan
<1>3. /\ SP!Inv'
      /\ plan'.decode \in Seq(Requests) /\ IsInjective(plan'.decode)
      /\ plan'.prefill \in Seq(Requests) /\ IsInjective(plan'.prefill)
      /\ \A r \in D : phase[r] = "Decode" /\ phase'[r] = "InFlightDecode"
      /\ \A r \in P : phase[r] = "Prefill" /\ phase'[r] = "InFlightPrefill"
      /\ \A r \in Requests \ (D \cup P) : phase'[r] = phase[r]
  BY <1>2, PlanEffect DEF IInv
<1>4. D \subseteq Requests /\ P \subseteq Requests BY <1>3 DEF Range
<1>5. /\ Range(rows') = D /\ Range(nextPrefill') = P BY <1>2
<1>6. plan'.decode = << >> => D = {} BY Empty
<1> HIDE DEF D, P
<1>7. /\ rows = << >> /\ survivors = << >> /\ nextPrefill = << >> /\ Range(rows) = {}
      /\ Range(survivors) = {} /\ Range(nextPrefill) = {} /\ Owned = activeRequests
      /\ Range(survivors') = {}
  BY <1>1, <1>2, AtRest
<1>8. D \subseteq activeRequests /\ P \subseteq activeRequests \ D
  <2>1. \A r \in Requests : phase[r] \notin {"Absent", "Waiting"} => r \in activeRequests
    BY <1>7 DEF IInv, Registered
  <2>2. QED BY <1>3, <1>4, <2>1
<1>9. Owned' = Owned /\ Submitted' = Submitted
  BY <1>1, <1>2, <1>5, <1>7, <1>8 DEF Owned, Submitted
<1>10. Senders' = Senders BY <1>1, <1>9 DEF Senders
<1>11. OnePlace'
  <2>1. IsInjective(rows') /\ survivors' = survivors BY <1>1, <1>2, <1>3
  <2>2. QED BY <1>1, <1>2, <1>5, <1>7, <1>8, <1>9, <2>1 DEF IInv, OnePlace
<1>12. ClientTypes' BY <1>1 DEF IInv, ClientTypes
<1>13. LoopTypes' BY <1>1, <1>2, <1>3 DEF IInv, LoopTypes
<1>14. Where' BY <1>1, <1>2, <1>7 DEF IInv, Where
<1>15. NamesActive'
  <2>1. todo' = {} BY <1>1, <1>2 DEF IInv, Where
  <2>2. QED BY <1>2, <1>3, <1>5, <1>8, <2>1 DEF NamesActive
<1>16. Resting' BY <1>1, <1>2, <1>6 DEF IInv, Resting
<1>17. Heard' BY <1>1, <1>10 DEF IInv, Heard
<1>18. TokensLeft' BY <1>1, <1>2, <1>9 DEF IInv, TokensLeft
<1>19. Registered'
  <2>1. held' = Owned' BY <1>1, <1>9 DEF IInv, Registered
  <2>2. ASSUME NEW r \in Requests
        PROVE  /\ phase'[r] # "Waiting"
               /\ phase'[r] \notin {"Absent", "Waiting"} <=> r \in Owned
               /\ r \in activeRequests' => phase'[r] \in {"Prefill", "Decode"} \/ r \in P
    <3>1. phase[r] # "Waiting" /\ (phase[r] \notin {"Absent", "Waiting"} <=> r \in Owned)
          /\ (r \in activeRequests => phase[r] \in {"Prefill", "Decode"})
      BY <1>2, <1>7 DEF IInv, Registered
    <3>2. CASE r \in D BY <3>1, <3>2, <1>2, <1>3, <1>7, <1>8
    <3>3. CASE r \in P BY <3>1, <3>3, <1>2, <1>3, <1>7, <1>8
    <3>4. CASE r \notin D \cup P BY <3>1, <3>4, <1>2, <1>3
    <3>5. QED BY <3>2, <3>3, <3>4
  <2>3. pc' # "finish" BY <1>2
  <2>4. QED BY <1>5, <1>9, <2>1, <2>2, <2>3 DEF Registered
<1>20. QED BY <1>3, <1>11, <1>12, <1>13, <1>14, <1>15, <1>16, <1>17, <1>18, <1>19 DEF IInv

LEMMA StableContinueInv == ASSUME IInv, StableContinue PROVE IInv'
<1>1. /\ UNCHANGED <<commands, readiness, client, events, cancelled, overdue, waitedOut, need, left>>
      /\ UNCHANGED <<scheduler, phase, queue, activeRequests, held, drained, todo, submission, changed,
                     delivered, nextPrefill, submitted>>
  BY DEF StableContinue, channel, clients, demand, scheduler
<1>2. /\ pc = "decodeRows" /\ pc' = "decode" /\ rows = << >> /\ submission = "Stable"
      /\ rows' = survivors /\ survivors' = << >>
  BY DEF StableContinue
<1>3. /\ Range(rows) = {} /\ Range(survivors') = {} /\ Range(rows') = Range(survivors)
      /\ IsInjective(survivors') /\ survivors' \in Seq(Requests)
  BY <1>2, Empty
<1>4. Owned' = Owned /\ Submitted' = Submitted BY <1>1, <1>3 DEF Owned, Submitted
<1>5. Senders' = Senders BY <1>1, <1>4 DEF Senders
<1>6. OnePlace' BY <1>1, <1>2, <1>3, <1>4 DEF IInv, OnePlace
<1>7. ClientTypes' BY <1>1 DEF IInv, ClientTypes
<1>8. LoopTypes' BY <1>1, <1>2, <1>3 DEF IInv, LoopTypes
<1>9. SP!Inv' BY <1>1, SchedulerSame DEF IInv
<1>10. Where' BY <1>1, <1>2 DEF IInv, Where
<1>11. NamesActive' BY <1>1 DEF IInv, NamesActive
<1>12. Resting' BY <1>1, <1>2 DEF IInv, Resting
<1>13. Heard' BY <1>1, <1>5 DEF IInv, Heard
<1>14. TokensLeft' BY <1>1, <1>2, <1>4 DEF IInv, TokensLeft
<1>15. Registered' BY <1>1, <1>2, <1>4 DEF IInv, Registered
<1>16. QED
  BY <1>6, <1>7, <1>8, <1>9, <1>10, <1>11, <1>12, <1>13, <1>14, <1>15 DEF IInv

LEMMA RunPrefillInv == ASSUME IInv, RunPrefill PROVE IInv'
<1>1. /\ UNCHANGED <<commands, readiness, client, events, cancelled, overdue, waitedOut, need, left>>
      /\ UNCHANGED <<scheduler, phase, queue, held, drained, todo, survivors, changed,
                     delivered, submitted>>
  BY DEF RunPrefill, channel, clients, demand, scheduler
<1>2. /\ pc = "prefill" /\ pc' \in {"prefillRows", "failing"} /\ submission' = "Prefill"
      /\ rows' = nextPrefill /\ nextPrefill' = << >>
      /\ activeRequests' = activeRequests \ Range(nextPrefill)
  BY DEF RunPrefill
<1>3. /\ rows = << >> /\ survivors = << >> BY <1>2 DEF IInv, Where
<1>4. /\ Range(rows) = {} /\ Range(survivors) = {} /\ Range(nextPrefill') = {}
      /\ IsInjective(nextPrefill') /\ nextPrefill' \in Seq(Requests)
      /\ Range(rows') = Range(nextPrefill) /\ Range(survivors') = {}
  BY <1>1, <1>2, <1>3, Empty
<1>5. Range(nextPrefill) \subseteq activeRequests /\ IsInjective(nextPrefill) BY DEF IInv, NamesActive
<1>6. Owned' = Owned /\ Submitted' = Submitted BY <1>1, <1>2, <1>4, <1>5 DEF Owned, Submitted
<1>7. Senders' = Senders BY <1>1, <1>6 DEF Senders
<1>8. OnePlace' BY <1>1, <1>2, <1>4, <1>5, <1>6 DEF IInv, OnePlace
<1>9. ClientTypes' BY <1>1 DEF IInv, ClientTypes
<1>10. LoopTypes' BY <1>1, <1>2, <1>4 DEF IInv, LoopTypes
<1>11. SP!Inv' BY <1>1, SchedulerSame DEF IInv
<1>12. Where' BY <1>1, <1>2, <1>3 DEF IInv, Where
<1>13. NamesActive'
  <2>1. todo' = {} BY <1>1, <1>2 DEF IInv, Where
  <2>2. QED BY <1>4, <2>1 DEF NamesActive
<1>14. Resting' BY <1>1, <1>2 DEF IInv, Resting
<1>15. Heard' BY <1>1, <1>7 DEF IInv, Heard
<1>16. TokensLeft' BY <1>1, <1>2, <1>6 DEF IInv, TokensLeft
<1>17. Registered' BY <1>1, <1>2, <1>4, <1>6 DEF IInv, Registered
<1>18. QED
  BY <1>8, <1>9, <1>10, <1>11, <1>12, <1>13, <1>14, <1>15, <1>16, <1>17 DEF IInv

-----------------------------------------------------------------------------
(* cancel_everything.                                                      *)

LEMMA StopActiveInv == ASSUME IInv, NEW r \in Requests, StopActive(r) PROVE IInv'
<1>1. /\ UNCHANGED <<commands, readiness, client, overdue, waitedOut, need, left, pc, queue, drained>>
      /\ UNCHANGED <<todo, submission, rows, survivors, changed, delivered, nextPrefill, submitted>>
  BY DEF StopActive, channel, clock, demand, loop
<1>2. /\ pc = "stopping" /\ r \in activeRequests
      /\ activeRequests' = activeRequests \ {r} /\ S!Cancel(r) /\ CancelActive(r)
  BY DEF StopActive
<1>3. SubmitsOnce' /\ Submitted' = Submitted
  BY <1>1 DEF IInv, OnePlace, SubmitsOnce, Submitted
<1>4. /\ SP!Inv' /\ OnePlace' /\ NamesActive' = (todo' \subseteq activeRequests')
      /\ cancelled' \in [Requests -> BOOLEAN] /\ held' \in SUBSET Requests
      /\ activeRequests' \in SUBSET Requests
      /\ EventTypes' /\ Heard' /\ TokensLeft' /\ Registered'
  BY <1>1, <1>2, <1>3, ActiveLetGo
<1>5. NamesActive'
  <2>1. todo' = {} BY <1>1, <1>2 DEF IInv, Where
  <2>2. QED BY <1>4, <2>1
<1>6. ClientTypes' BY <1>1, <1>4 DEF IInv, ClientTypes, EventTypes
<1>7. LoopTypes' BY <1>1, <1>2, <1>4 DEF IInv, LoopTypes
<1>8. Where' BY <1>1, <1>2 DEF IInv, Where
<1>9. Resting' BY <1>1, <1>2 DEF IInv, Resting
<1>10. QED BY <1>4, <1>5, <1>6, <1>7, <1>8, <1>9 DEF IInv

LEMMA StopPendingInv == ASSUME IInv, StopPending PROVE IInv'
<1>1. /\ pc = "stopping" /\ queue # << >> /\ queue' = Tail(queue) /\ Send(Head(queue), "Cancelled")
      /\ "Cancelled" \in Terminal
      /\ UNCHANGED <<scheduler, channel, clock, demand, pc, activeRequests, held, drained, loop>>
  BY DEF StopPending, Terminal
<1>2. cancelled' \in [Requests -> BOOLEAN]
  BY DEF StopPending, CancelToken, IInv, ClientTypes
<1>3. QED BY <1>1, <1>2, HeadAnswered

LEMMA StopInv == ASSUME IInv, Stop PROVE IInv'
<1>1. /\ UNCHANGED <<client, events, cancelled, overdue, waitedOut, need, left>>
      /\ UNCHANGED <<scheduler, phase, queue, activeRequests, held, drained, todo, submission, rows,
                     survivors, changed, delivered, nextPrefill, submitted>>
  BY DEF Stop, clients, demand, loop, scheduler
<1>2. /\ pc = "stopping" /\ pc' = "stopped" /\ readiness' = "Stopped" /\ commands' = << >>
      /\ activeRequests = {} /\ queue = << >>
  BY DEF Stop
<1>3. /\ commands' \in Seq(Command) /\ Len(commands') <= CommandCapacity
      /\ Range(commands') = {} /\ DOMAIN commands' = {}
  BY <1>2, Empty, EngineAssumption
<1>4. Owned' = Owned BY <1>1 DEF Owned
<1>5. Submitted' = {} BY <1>3 DEF Submitted
<1>6. Senders' \subseteq Senders BY <1>1, <1>4, <1>5 DEF Senders
<1>7. OnePlace' BY <1>1, <1>3, <1>4, <1>5 DEF IInv, OnePlace
<1>8. ClientTypes' BY <1>1, <1>3 DEF IInv, ClientTypes
<1>9. LoopTypes' BY <1>1, <1>2 DEF IInv, LoopTypes
<1>10. SP!Inv' BY <1>1, SchedulerSame DEF IInv
<1>11. Where' BY <1>1, <1>2 DEF IInv, Where
<1>12. NamesActive' BY <1>1 DEF IInv, NamesActive
<1>13. Resting' BY <1>1, <1>2 DEF Resting
<1>14. Heard' BY <1>1, <1>6, Quiet DEF IInv
<1>15. TokensLeft' BY <1>1, <1>2, <1>4 DEF IInv, TokensLeft
<1>16. Registered' BY <1>1, <1>2, <1>4 DEF IInv, Registered
<1>17. QED
  BY <1>7, <1>8, <1>9, <1>10, <1>11, <1>12, <1>13, <1>14, <1>15, <1>16 DEF IInv

-----------------------------------------------------------------------------
(* The rows of a submission, one at a time.                                *)

\* The first row, and what is left without it.
LEMMA FirstRow ==
  ASSUME IInv, rows # << >>
  PROVE  /\ Head(rows) \in Requests /\ Head(rows) \in Range(rows) /\ Head(rows) \in Owned
         /\ Head(rows) \in Senders
         /\ Head(rows) \notin Submitted /\ Head(rows) \notin Range(queue)
         /\ Head(rows) \notin activeRequests /\ Head(rows) \notin Range(survivors)
         /\ Tail(rows) \in Seq(Requests) /\ IsInjective(Tail(rows))
         /\ Range(rows) = Range(Tail(rows)) \cup {Head(rows)}
         /\ Range(Tail(rows)) = Range(rows) \ {Head(rows)}
<1>1. rows \in Seq(Requests) /\ IsInjective(rows) BY DEF IInv, LoopTypes, OnePlace
<1>2. /\ Head(rows) \in Requests /\ Head(rows) \in Range(rows)
      /\ Tail(rows) \in Seq(Requests) /\ IsInjective(Tail(rows))
      /\ Range(rows) = Range(Tail(rows)) \cup {Head(rows)}
      /\ Range(Tail(rows)) = Range(rows) \ {Head(rows)}
  BY <1>1, Taken
<1>3. Head(rows) \in Owned BY <1>2 DEF Owned
<1>4. QED BY <1>2, <1>3 DEF IInv, OnePlace, Senders

\* It is dropped,
LEMMA RowDropped ==
  ASSUME IInv, rows # << >>, rows' = Tail(rows),
         UNCHANGED <<commands, queue, activeRequests, survivors>>
  PROVE  /\ OnePlace' /\ Owned' = Owned \ {Head(rows)} /\ Senders' = Senders \ {Head(rows)}
<1>1. Range(rows') = Range(rows) \ {Head(rows)} /\ IsInjective(rows') BY FirstRow
<1>2. Submitted' = Submitted BY DEF Submitted
<1>3. Owned' = Owned \ {Head(rows)} BY <1>1, FirstRow DEF Owned
<1>4. Senders' = Senders \ {Head(rows)} BY <1>2, <1>3, FirstRow DEF Senders
<1>5. OnePlace' BY <1>1, <1>2, <1>3 DEF IInv, OnePlace
<1>6. QED BY <1>3, <1>4, <1>5

\* or goes back to the active requests,
LEMMA RowReturned ==
  ASSUME IInv, rows # << >>, rows' = Tail(rows), activeRequests' = activeRequests \cup {Head(rows)},
         UNCHANGED <<commands, queue, survivors>>
  PROVE  OnePlace' /\ Owned' = Owned /\ Senders' = Senders
<1>1. /\ Range(rows') = Range(rows) \ {Head(rows)} /\ IsInjective(rows')
      /\ Range(rows) = Range(rows') \cup {Head(rows)}
  BY FirstRow
<1>2. Submitted' = Submitted BY DEF Submitted
<1>3. Owned' = Owned BY <1>1 DEF Owned
<1>4. Senders' = Senders BY <1>2, <1>3 DEF Senders
<1>5. OnePlace' BY <1>1, <1>2, <1>3, FirstRow DEF IInv, OnePlace
<1>6. QED BY <1>3, <1>4, <1>5

\* or stays in the stable batch.
LEMMA RowSurvives ==
  ASSUME IInv, rows # << >>, rows' = Tail(rows), survivors' = Append(survivors, Head(rows)),
         UNCHANGED <<commands, queue, activeRequests>>
  PROVE  /\ OnePlace' /\ Owned' = Owned /\ Senders' = Senders
         /\ survivors' \in Seq(Requests)
<1>1. /\ Range(rows') = Range(rows) \ {Head(rows)} /\ IsInjective(rows')
      /\ Range(rows) = Range(rows') \cup {Head(rows)}
  BY FirstRow
<1>2. survivors \in Seq(Requests) /\ IsInjective(survivors) BY DEF IInv, LoopTypes, OnePlace
<1>3. /\ survivors' \in Seq(Requests) /\ Range(survivors') = Range(survivors) \cup {Head(rows)}
      /\ IsInjective(survivors')
  BY <1>2, FirstRow, Put
<1>4. Submitted' = Submitted BY DEF Submitted
<1>5. Owned' = Owned BY <1>1, <1>3 DEF Owned
<1>6. Senders' = Senders BY <1>4, <1>5 DEF Senders
<1>7. OnePlace' BY <1>1, <1>3, <1>4, <1>5, FirstRow DEF IInv, OnePlace
<1>8. QED BY <1>3, <1>5, <1>6, <1>7

\* The phases after the first row has moved.
LEMMA PhaseOf ==
  ASSUME IInv, NEW r \in Requests, NEW to, Moves(r, to)
  PROVE  \A s \in Requests : phase'[s] = IF s = r THEN to ELSE phase[s]
BY DEF Moves, IInv, SP!Inv, SP!TypeOK

LEMMA CheckRowInv == ASSUME IInv, CheckRow PROVE IInv'
<1> DEFINE r == Head(rows)
<1>1. /\ UNCHANGED <<commands, readiness, client, overdue, waitedOut, need, left, queue, activeRequests>>
      /\ UNCHANGED <<drained, todo, submission, delivered, nextPrefill, submitted>>
      /\ pc = "checkRow" /\ pc' = "decodeRows" /\ rows' = Tail(rows)
  BY DEF CheckRow, channel, clock, demand
<1>2. rows # << >> /\ submission = "Stable" BY <1>1 DEF IInv, Where
<1>3. /\ r \in Requests /\ r \in Owned /\ r \in Senders /\ rows' \in Seq(Requests)
  BY <1>1, <1>2, FirstRow
<1>4. Where' BY <1>1, <1>2 DEF IInv, Where
<1>5. NamesActive' /\ Resting' BY <1>1 DEF IInv, NamesActive, Resting
<1>6. \A s \in Owned : left[s] > 0 BY <1>1 DEF IInv, TokensLeft
<1>7. \A s \in Requests : phase[s] # "Waiting" /\ (phase[s] # "Absent" <=> s \in Owned)
  BY <1>1 DEF IInv, Registered
<1>8. CASE /\ S!Cancel(r) /\ CancelActive(r) /\ changed' = TRUE /\ UNCHANGED survivors
  <2>1. /\ cancelled' = [cancelled EXCEPT ![r] = TRUE] /\ held' = held \ {r} /\ Send(r, "Cancelled")
    BY <1>8 DEF CancelActive, CancelToken, Release
  <2>2. OnePlace' /\ Owned' = Owned \ {r} /\ Senders' = Senders \ {r}
    BY <1>1, <1>2, <1>8, RowDropped
  <2>3. SP!Inv' /\ Moves(r, "Absent") BY <1>3, <1>8, CancelEffect DEF IInv
  <2> HIDE DEF r
  <2>4. \A s \in Requests : phase'[s] = IF s = r THEN "Absent" ELSE phase[s]
    BY <1>3, <2>3, PhaseOf
  <2>5. EventTypes' /\ Heard' BY <1>1, <1>3, <2>1, <2>2, Said DEF IInv, Terminal
  <2>6. ClientTypes' BY <1>1, <2>1, <2>5 DEF IInv, ClientTypes, EventTypes
  <2>7. LoopTypes' BY <1>1, <1>3, <1>8, <2>1 DEF IInv, LoopTypes
  <2>8. TokensLeft' BY <1>1, <1>6, <2>2 DEF TokensLeft
  <2>9. r \notin activeRequests BY <1>2, FirstRow DEF r
  <2>10. Registered' BY <1>1, <1>7, <2>1, <2>2, <2>4, <2>9 DEF IInv, Registered
  <2>11. QED BY <1>4, <1>5, <2>2, <2>3, <2>5, <2>6, <2>7, <2>8, <2>10 DEF IInv
<1>9. CASE /\ survivors' = Append(survivors, r)
           /\ UNCHANGED <<scheduler, cancelled, held, events, changed>>
  <2>1. /\ OnePlace' /\ Owned' = Owned /\ Senders' = Senders /\ survivors' \in Seq(Requests)
    BY <1>1, <1>2, <1>9, RowSurvives
  <2>2. SP!Inv' /\ phase' = phase BY <1>9, SchedulerSame DEF IInv, scheduler
  <2>3. ClientTypes' BY <1>1, <1>9 DEF IInv, ClientTypes
  <2>4. LoopTypes' BY <1>1, <1>3, <1>9, <2>1 DEF IInv, LoopTypes
  <2>5. Heard' BY <1>1, <1>9, <2>1 DEF IInv, Heard
  <2>6. TokensLeft' BY <1>1, <1>6, <2>1 DEF TokensLeft
  <2>7. Registered' BY <1>1, <1>7, <1>9, <2>1, <2>2 DEF IInv, Registered
  <2>8. QED BY <1>4, <1>5, <2>1, <2>2, <2>3, <2>4, <2>5, <2>6, <2>7 DEF IInv
<1>10. QED BY <1>8, <1>9 DEF CheckRow

LEMMA CompleteActiveInv == ASSUME IInv, CompleteActive PROVE IInv'
<1> DEFINE r == Head(rows)
<1>1. /\ UNCHANGED <<commands, readiness, client, cancelled, overdue, waitedOut, need, left, queue>>
      /\ UNCHANGED <<scheduler, phase, activeRequests, drained, todo, submission, survivors, changed,
                     delivered, nextPrefill, submitted>>
      /\ pc = "finish" /\ rows' = Tail(rows) /\ held' = held \ {r} /\ Send(r, "Complete")
      /\ pc' = IF submission = "Prefill" THEN "prefillRows" ELSE "decodeRows"
  BY DEF CompleteActive, channel, clock, demand, Release, scheduler
<1>2. rows # << >> BY <1>1 DEF IInv, Where
<1>3. /\ r \in Requests /\ r \in Owned /\ r \in Senders /\ rows' \in Seq(Requests)
  BY <1>1, <1>2, FirstRow
<1>4. OnePlace' /\ Owned' = Owned \ {r} /\ Senders' = Senders \ {r} BY <1>1, <1>2, RowDropped
<1>5. EventTypes' /\ Heard'
  <2> HIDE DEF r
  <2>1. QED BY <1>1, <1>3, <1>4, Said DEF IInv, Terminal
<1>6. ClientTypes' BY <1>1, <1>5 DEF IInv, ClientTypes, EventTypes
<1>7. LoopTypes' BY <1>1, <1>3 DEF IInv, LoopTypes
<1>8. SP!Inv' BY <1>1, SchedulerSame DEF IInv
<1>9. Where' BY <1>1 DEF IInv, Where, LoopTypes
<1>10. NamesActive' /\ Resting'
  <2>1. pc' \in {"prefillRows", "decodeRows"} BY <1>1
  <2>2. NamesActive' BY <1>1 DEF IInv, NamesActive
  <2>3. Resting' BY <2>1 DEF Resting
  <2>4. QED BY <2>2, <2>3
<1>11. TokensLeft' BY <1>1, <1>4 DEF IInv, TokensLeft
<1>12. Registered'
  <2>1. \A s \in Owned \ {r} : phase[s] \notin {"Absent", "Waiting"}
    BY <1>1, OwnedRequests DEF IInv, Registered
  <2>2. \A s \in Requests : phase[s] # "Waiting" BY <1>1 DEF IInv, Registered
  <2>3. QED BY <1>1, <1>4, <2>1, <2>2 DEF IInv, Registered
<1>13. QED BY <1>4, <1>5, <1>6, <1>7, <1>8, <1>9, <1>10, <1>11, <1>12 DEF IInv

\* A token less may be generated.
LEMMA OneLess ==
  ASSUME IInv, NEW r \in Owned, pc \notin {"finish", "remove"}, NEW last \in BOOLEAN, Generated(r, last)
  PROVE  /\ left' \in [Requests -> Nat]
         /\ \A s \in Requests \ {r} : left'[s] = left[s]
         /\ ~last => left'[r] > 0
<1>1. r \in Requests BY OwnedRequests
<1>2. left \in [Requests -> Nat] /\ left[r] > 0 BY DEF IInv, ClientTypes, TokensLeft
<1>3. left' = [left EXCEPT ![r] = left[r] - 1] /\ (left[r] = 1 => last) BY DEF Generated
<1>4. left[r] - 1 \in Nat /\ (~last => left[r] - 1 > 0) BY <1>1, <1>2, <1>3
<1>5. left'[r] = left[r] - 1 BY <1>1, <1>2, <1>3
<1>6. QED BY <1>1, <1>2, <1>3, <1>4, <1>5

LEMMA DecodeRowInv == ASSUME IInv, DecodeRow PROVE IInv'
<1> DEFINE r == Head(rows)
<1>1. /\ UNCHANGED <<commands, readiness, client, overdue, waitedOut, need, queue>>
      /\ UNCHANGED <<drained, todo, submission, survivors, delivered, nextPrefill, submitted>>
      /\ pc = "decodeRows" /\ rows # << >> /\ Send(r, "Raw")
  BY DEF DecodeRow, channel, clock
<1>2. /\ r \in Requests /\ r \in Owned /\ r \in Senders /\ Tail(rows) \in Seq(Requests)
      /\ r \notin activeRequests
  BY <1>1, FirstRow
<1>3. PICK last \in BOOLEAN :
        /\ Generated(r, last)
        /\ \/ /\ last /\ CanSend(r)
              /\ S!CompleteDecode(r, TRUE)
              /\ changed' = TRUE
              /\ pc' = "finish"
              /\ UNCHANGED <<cancelled, activeRequests, held, rows>>
           \/ /\ ~CanSend(r)
              /\ S!CompleteDecode(r, TRUE)
              /\ DropUndelivered(r)
              /\ changed' = TRUE
              /\ rows' = Tail(rows)
              /\ UNCHANGED <<pc, activeRequests>>
           \/ /\ ~last /\ CanSend(r) /\ submission = "Decode"
              /\ S!CompleteDecode(r, FALSE)
              /\ activeRequests' = activeRequests \cup {r}
              /\ rows' = Tail(rows)
              /\ UNCHANGED <<cancelled, held, pc, changed>>
           \/ /\ ~last /\ CanSend(r) /\ submission = "Stable"
              /\ pc' = "checkRow"
              /\ UNCHANGED <<scheduler, cancelled, activeRequests, held, rows, changed>>
  BY DEF DecodeRow
<1>4. /\ left' \in [Requests -> Nat] /\ \A s \in Requests \ {r} : left'[s] = left[s]
      /\ ~last => left'[r] > 0
  BY <1>1, <1>2, <1>3, OneLess
<1>5. /\ \A s \in Owned : left[s] > 0
      /\ \A s \in Requests : phase[s] # "Waiting" /\ (phase[s] # "Absent" <=> s \in Owned)
  BY <1>1 DEF IInv, TokensLeft, Registered
<1>6. /\ Owned \subseteq Requests /\ "Raw" \notin Terminal BY OwnedRequests DEF Terminal
<1>7. CASE /\ last /\ S!CompleteDecode(r, TRUE) /\ changed' = TRUE /\ pc' = "finish"
           /\ UNCHANGED <<cancelled, activeRequests, held, rows>>
  <2>1. OnePlace' /\ Owned' = Owned /\ Senders' = Senders BY <1>1, <1>7, SamePlaces DEF IInv
  <2>2. SP!Inv' /\ Moves(r, "Absent") BY <1>2, <1>7, CompleteDecodeEffect DEF IInv
  <2>3. \A s \in Requests : phase'[s] = IF s = r THEN "Absent" ELSE phase[s]
    BY <1>2, <2>2, PhaseOf
  <2>4. Head(rows') = r /\ rows' # << >> BY <1>1, <1>7
  <2> HIDE DEF r
  <2>5. EventTypes' /\ Heard' BY <1>1, <1>2, <1>6, <2>1, Said DEF IInv
  <2>6. ClientTypes' BY <1>1, <1>4, <1>7, <2>5 DEF IInv, ClientTypes, EventTypes
  <2>7. LoopTypes' BY <1>1, <1>7 DEF IInv, LoopTypes
  <2>8. Where' BY <1>1, <1>7, <2>4 DEF IInv, Where
  <2>9. NamesActive' /\ Resting' BY <1>1, <1>7 DEF IInv, NamesActive, Resting
  <2>10. TokensLeft' BY <1>4, <1>5, <1>6, <1>7, <2>1, <2>4 DEF TokensLeft
  <2>11. Registered' BY <1>1, <1>2, <1>5, <1>7, <2>1, <2>3, <2>4 DEF IInv, Registered
  <2>12. QED BY <2>1, <2>2, <2>5, <2>6, <2>7, <2>8, <2>9, <2>10, <2>11 DEF IInv
<1>8. CASE /\ S!CompleteDecode(r, TRUE) /\ DropUndelivered(r) /\ changed' = TRUE
           /\ rows' = Tail(rows) /\ UNCHANGED <<pc, activeRequests>>
  <2>1. OnePlace' /\ Owned' = Owned \ {r} /\ Senders' = Senders \ {r} BY <1>1, <1>8, RowDropped
  <2>2. SP!Inv' /\ Moves(r, "Absent") BY <1>2, <1>8, CompleteDecodeEffect DEF IInv
  <2>3. \A s \in Requests : phase'[s] = IF s = r THEN "Absent" ELSE phase[s]
    BY <1>2, <2>2, PhaseOf
  <2>4. cancelled' = [cancelled EXCEPT ![r] = TRUE] /\ held' = held \ {r}
    BY <1>8 DEF DropUndelivered, CancelToken, Release
  <2>5. rows' \in Seq(Requests) BY <1>2, <1>8
  <2> HIDE DEF r
  <2>6. EventTypes' /\ Heard' BY <1>1, <1>2, <1>6, <2>1, Said DEF IInv
  <2>7. ClientTypes' BY <1>1, <1>4, <2>4, <2>6 DEF IInv, ClientTypes, EventTypes
  <2>8. LoopTypes' BY <1>1, <1>8, <2>4, <2>5 DEF IInv, LoopTypes
  <2>9. Where' BY <1>1, <1>8 DEF IInv, Where
  <2>10. NamesActive' /\ Resting' BY <1>1, <1>8 DEF IInv, NamesActive, Resting
  <2>11. TokensLeft' BY <1>4, <1>5, <1>6, <2>1 DEF TokensLeft
  <2>12. Registered' BY <1>1, <1>2, <1>5, <1>8, <2>1, <2>3, <2>4 DEF IInv, Registered
  <2>13. QED BY <2>1, <2>2, <2>6, <2>7, <2>8, <2>9, <2>10, <2>11, <2>12 DEF IInv
<1>9. CASE /\ ~last /\ submission = "Decode" /\ S!CompleteDecode(r, FALSE)
           /\ activeRequests' = activeRequests \cup {r} /\ rows' = Tail(rows)
           /\ UNCHANGED <<cancelled, held, pc, changed>>
  <2>1. OnePlace' /\ Owned' = Owned /\ Senders' = Senders BY <1>1, <1>9, RowReturned
  <2>2. SP!Inv' /\ Moves(r, "Decode") BY <1>2, <1>9, CompleteDecodeEffect DEF IInv
  <2>3. \A s \in Requests : phase'[s] = IF s = r THEN "Decode" ELSE phase[s]
    BY <1>2, <2>2, PhaseOf
  <2>4. rows' \in Seq(Requests) BY <1>2, <1>9
  <2> HIDE DEF r
  <2>5. EventTypes' /\ Heard' BY <1>1, <1>2, <1>6, <2>1, Said DEF IInv
  <2>6. ClientTypes' BY <1>1, <1>4, <1>9, <2>5 DEF IInv, ClientTypes, EventTypes
  <2>7. LoopTypes' BY <1>1, <1>2, <1>9, <2>4 DEF IInv, LoopTypes
  <2>8. Where' BY <1>1, <1>9 DEF IInv, Where
  <2>9. NamesActive' /\ Resting' BY <1>1, <1>9 DEF IInv, NamesActive, Resting
  <2>10. TokensLeft' BY <1>4, <1>5, <1>6, <1>9, <2>1 DEF TokensLeft
  <2>11. Registered' BY <1>1, <1>2, <1>5, <1>9, <2>1, <2>3 DEF IInv, Registered
  <2>12. QED BY <2>1, <2>2, <2>5, <2>6, <2>7, <2>8, <2>9, <2>10, <2>11 DEF IInv
<1>10. CASE /\ ~last /\ submission = "Stable" /\ pc' = "checkRow"
            /\ UNCHANGED <<scheduler, cancelled, activeRequests, held, rows, changed>>
  <2>1. OnePlace' /\ Owned' = Owned /\ Senders' = Senders BY <1>1, <1>10, SamePlaces DEF IInv
  <2>2. SP!Inv' /\ phase' = phase BY <1>10, SchedulerSame DEF IInv, scheduler
  <2>3. rows' # << >> BY <1>1, <1>10
  <2> HIDE DEF r
  <2>4. EventTypes' /\ Heard' BY <1>1, <1>2, <1>6, <2>1, Said DEF IInv
  <2>5. ClientTypes' BY <1>1, <1>4, <1>10, <2>4 DEF IInv, ClientTypes, EventTypes
  <2>6. LoopTypes' BY <1>1, <1>10 DEF IInv, LoopTypes
  <2>7. Where' BY <1>1, <1>10, <2>3 DEF IInv, Where
  <2>8. NamesActive' /\ Resting' BY <1>1, <1>10 DEF IInv, NamesActive, Resting
  <2>9. TokensLeft' BY <1>4, <1>5, <1>6, <1>10, <2>1 DEF TokensLeft
  <2>10. Registered' BY <1>1, <1>5, <1>10, <2>1, <2>2 DEF IInv, Registered
  <2>11. QED BY <2>1, <2>2, <2>4, <2>5, <2>6, <2>7, <2>8, <2>9, <2>10 DEF IInv
<1>11. QED BY <1>3, <1>7, <1>8, <1>9, <1>10

LEMMA ReturnSurvivorInv == ASSUME IInv, ReturnSurvivor PROVE IInv'
<1> DEFINE r == Head(survivors)
<1>1. /\ UNCHANGED <<commands, readiness, client, events, cancelled, overdue, waitedOut, need, left>>
      /\ UNCHANGED <<queue, held, drained, todo, submission, rows, changed, delivered, nextPrefill,
                     submitted>>
      /\ pc = "return"
  BY DEF ReturnSurvivor, channel, clients, demand
<1>2. rows = << >> /\ Range(rows) = {} BY <1>1, Empty DEF IInv, Where
<1>3. CASE survivors = << >> /\ pc' = AfterDecode /\ UNCHANGED <<scheduler, activeRequests, survivors>>
  <2>1. \/ pc' = "prefill" /\ nextPrefill # << >>
        \/ pc' = "end" /\ nextPrefill = << >>
    BY <1>3 DEF AfterDecode
  <2>2. LoopTypes' BY <1>1, <1>3, <2>1 DEF IInv, LoopTypes
  <2>3. Where' BY <1>1, <1>2, <1>3, <2>1 DEF IInv, Where
  <2>4. Resting' BY <1>1, <1>3, <2>1 DEF IInv, Where, Resting
  <2>5. UNCHANGED <<clients, demand>> BY <1>1 DEF clients, demand
  <2>6. QED BY <1>1, <1>3, <2>1, <2>2, <2>3, <2>4, <2>5, MovesOn DEF IInv, NamesActive
<1>4. CASE /\ survivors # << >> /\ S!CompleteDecode(r, FALSE)
           /\ activeRequests' = activeRequests \cup {r}
           /\ survivors' = Tail(survivors) /\ UNCHANGED pc
  <2>1. survivors \in Seq(Requests) /\ IsInjective(survivors) BY DEF IInv, LoopTypes, OnePlace
  <2>2. /\ r \in Requests /\ r \in Range(survivors) /\ survivors' \in Seq(Requests)
        /\ IsInjective(survivors') /\ Range(survivors') = Range(survivors) \ {r}
    BY <1>4, <2>1, Taken
  <2>3. SP!Inv' /\ Moves(r, "Decode") BY <1>4, <2>2, CompleteDecodeEffect DEF IInv
  <2> HIDE DEF r
  <2>4. Owned' = Owned /\ Submitted' = Submitted BY <1>1, <1>4, <2>2 DEF Owned, Submitted
  <2>5. Senders' = Senders BY <1>1, <2>4 DEF Senders
  <2>6. OnePlace' BY <1>1, <1>2, <1>4, <2>2, <2>4 DEF IInv, OnePlace
  <2>7. \A s \in Requests : phase'[s] = IF s = r THEN "Decode" ELSE phase[s]
    BY <2>2, <2>3, PhaseOf
  <2>8. ClientTypes' BY <1>1 DEF IInv, ClientTypes
  <2>9. LoopTypes' BY <1>1, <1>4, <2>2 DEF IInv, LoopTypes
  <2>10. Where' BY <1>1, <1>4 DEF IInv, Where
  <2>11. NamesActive' BY <1>1, <1>4 DEF IInv, NamesActive
  <2>12. Resting' BY <1>1, <1>4 DEF IInv, Resting
  <2>13. Heard' BY <1>1, <2>5 DEF IInv, Heard
  <2>14. TokensLeft' BY <1>1, <1>4, <2>4 DEF IInv, TokensLeft
  <2>15. r \in Owned BY <2>2 DEF Owned
  <2>16. Registered' BY <1>1, <1>4, <2>4, <2>7, <2>15 DEF IInv, Registered
  <2>17. QED
    BY <2>3, <2>6, <2>8, <2>9, <2>10, <2>11, <2>12, <2>13, <2>14, <2>16 DEF IInv
<1>5. QED BY <1>3, <1>4 DEF ReturnSurvivor

LEMMA PrefillRowInv == ASSUME IInv, PrefillRow PROVE IInv'
<1> DEFINE r == Head(rows)
           sampled == remaining'[r] = 0
<1>1. /\ UNCHANGED <<commands, readiness, client, cancelled, overdue, waitedOut, need, queue, held>>
      /\ UNCHANGED <<drained, todo, submission, survivors, changed, nextPrefill, submitted>>
      /\ pc = "prefillRows" /\ rows # << >> /\ S!CompletePrefill(r, planned[r])
      /\ delivered' \in BOOLEAN
  BY DEF PrefillRow, channel, clock, CanSend
<1>2. /\ r \in Requests /\ r \in Owned /\ r \in Senders /\ Tail(rows) \in Seq(Requests)
      /\ r \notin activeRequests /\ Owned \subseteq Requests /\ "Raw" \notin Terminal
  BY <1>1, FirstRow, OwnedRequests DEF Terminal
<1>3. PICK last \in BOOLEAN :
        /\ IF sampled THEN Generated(r, last) /\ Send(r, "Raw")
                      ELSE ~last /\ UNCHANGED <<left, events>>
        /\ \/ /\ sampled /\ (last \/ ~CanSend(r))
              /\ pc' = "remove" /\ UNCHANGED <<activeRequests, rows>>
           \/ /\ ~last
              /\ activeRequests' = activeRequests \cup {r} /\ rows' = Tail(rows) /\ UNCHANGED pc
  BY DEF PrefillRow
<1>4. /\ left' \in [Requests -> Nat] /\ \A s \in Requests \ {r} : left'[s] = left[s]
      /\ ~last => left'[r] > 0
  <2>1. CASE sampled BY <1>1, <1>2, <1>3, <2>1, OneLess
  <2>2. CASE ~sampled
    <3>1. left' = left BY <1>3, <2>2
    <3>2. left[r] > 0 BY <1>1, <1>2 DEF IInv, TokensLeft
    <3>3. QED BY <3>1, <3>2 DEF IInv, ClientTypes
  <2>3. QED BY <2>1, <2>2
<1>5. PICK to \in {"Prefill", "Decode"} : SP!Inv' /\ Moves(r, to)
  BY <1>1, <1>2, CompletePrefillEffect DEF IInv
<1>6. \A s \in Requests : phase'[s] = IF s = r THEN to ELSE phase[s] BY <1>2, <1>5, PhaseOf
<1>7. /\ \A s \in Owned : left[s] > 0
      /\ \A s \in Requests : phase[s] # "Waiting" /\ (phase[s] # "Absent" <=> s \in Owned)
  BY <1>1 DEF IInv, TokensLeft, Registered
<1>8. Send(r, "Raw") \/ events' = events BY <1>3
<1>9. CASE pc' = "remove" /\ UNCHANGED <<activeRequests, rows>>
  <2>1. OnePlace' /\ Owned' = Owned /\ Senders' = Senders BY <1>1, <1>9, SamePlaces DEF IInv
  <2>2. Head(rows') = r /\ rows' # << >> BY <1>1, <1>9
  <2> HIDE DEF r
  <2>3. EventTypes' /\ Heard' BY <1>1, <1>2, <1>8, <2>1, Said, Quiet DEF IInv
  <2>4. ClientTypes' BY <1>1, <1>4, <2>3 DEF IInv, ClientTypes, EventTypes
  <2>5. LoopTypes' BY <1>1, <1>9 DEF IInv, LoopTypes
  <2>6. Where' BY <1>1, <1>9, <2>2 DEF IInv, Where
  <2>7. NamesActive' /\ Resting' BY <1>1, <1>9 DEF IInv, NamesActive, Resting
  <2>8. TokensLeft' BY <1>2, <1>4, <1>7, <1>9, <2>1, <2>2 DEF TokensLeft
  <2>9. Registered' BY <1>1, <1>2, <1>6, <1>7, <1>9, <2>1 DEF IInv, Registered
  <2>10. QED BY <1>5, <2>1, <2>3, <2>4, <2>5, <2>6, <2>7, <2>8, <2>9 DEF IInv
<1>10. CASE /\ ~last /\ activeRequests' = activeRequests \cup {r} /\ rows' = Tail(rows) /\ UNCHANGED pc
  <2>1. OnePlace' /\ Owned' = Owned /\ Senders' = Senders BY <1>1, <1>10, RowReturned
  <2>2. rows' \in Seq(Requests) BY <1>2, <1>10
  <2> HIDE DEF r
  <2>3. EventTypes' /\ Heard' BY <1>1, <1>2, <1>8, <2>1, Said, Quiet DEF IInv
  <2>4. ClientTypes' BY <1>1, <1>4, <2>3 DEF IInv, ClientTypes, EventTypes
  <2>5. LoopTypes' BY <1>1, <1>2, <1>10, <2>2 DEF IInv, LoopTypes
  <2>6. Where' BY <1>1, <1>10 DEF IInv, Where
  <2>7. NamesActive' /\ Resting' BY <1>1, <1>10 DEF IInv, NamesActive, Resting
  <2>8. TokensLeft' BY <1>2, <1>4, <1>7, <1>10, <2>1 DEF TokensLeft
  <2>9. Registered' BY <1>1, <1>2, <1>6, <1>7, <1>10, <2>1 DEF IInv, Registered
  <2>10. QED BY <1>5, <2>1, <2>3, <2>4, <2>5, <2>6, <2>7, <2>8, <2>9 DEF IInv
<1>11. QED BY <1>3, <1>9, <1>10

LEMMA RemoveRowInv == ASSUME IInv, RemoveRow PROVE IInv'
<1> DEFINE r == Head(rows)
<1>1. /\ UNCHANGED <<commands, readiness, client, events, overdue, waitedOut, need, left, queue>>
      /\ UNCHANGED <<activeRequests, drained, todo, submission, survivors, changed, delivered,
                     nextPrefill, submitted>>
      /\ pc = "remove" /\ S!RemoveTerminal(r)
  BY DEF RemoveRow, channel, clock, demand
<1>2. rows # << >> /\ submission = "Prefill" BY <1>1 DEF IInv, Where
<1>3. /\ r \in Requests /\ r \in Owned /\ r \notin activeRequests /\ Tail(rows) \in Seq(Requests)
      /\ Owned \subseteq Requests
  BY <1>2, FirstRow, OwnedRequests
<1>4. SP!Inv' /\ Moves(r, "Absent") BY <1>1, <1>3, RemoveTerminalEffect DEF IInv
<1>5. \A s \in Requests : phase'[s] = IF s = r THEN "Absent" ELSE phase[s] BY <1>3, <1>4, PhaseOf
<1>6. /\ \A s \in Owned \ {r} : left[s] > 0
      /\ \A s \in Requests : phase[s] # "Waiting" /\ (phase[s] # "Absent" <=> s \in Owned)
  BY <1>1 DEF IInv, TokensLeft, Registered
<1>7. CASE pc' = "finish" /\ UNCHANGED <<cancelled, held, rows>>
  <2>1. OnePlace' /\ Owned' = Owned /\ Senders' = Senders BY <1>1, <1>7, SamePlaces DEF IInv
  <2>2. Head(rows') = r /\ rows' # << >> BY <1>2, <1>7
  <2> HIDE DEF r
  <2>3. ClientTypes' BY <1>1, <1>7 DEF IInv, ClientTypes
  <2>4. LoopTypes' BY <1>1, <1>7 DEF IInv, LoopTypes
  <2>5. Where' BY <1>1, <1>2, <1>7, <2>2 DEF IInv, Where
  <2>6. NamesActive' /\ Resting' BY <1>1, <1>7 DEF IInv, NamesActive, Resting
  <2>7. Heard' BY <1>1, <2>1 DEF IInv, Heard
  <2>8. TokensLeft' BY <1>1, <1>6, <1>7, <2>1, <2>2 DEF TokensLeft
  <2>9. Registered' BY <1>1, <1>3, <1>5, <1>6, <1>7, <2>1, <2>2 DEF IInv, Registered
  <2>10. QED BY <1>4, <2>1, <2>3, <2>4, <2>5, <2>6, <2>7, <2>8, <2>9 DEF IInv
<1>8. CASE DropUndelivered(r) /\ rows' = Tail(rows) /\ pc' = "prefillRows"
  <2>1. OnePlace' /\ Owned' = Owned \ {r} /\ Senders' = Senders \ {r} BY <1>1, <1>2, <1>8, RowDropped
  <2>2. cancelled' = [cancelled EXCEPT ![r] = TRUE] /\ held' = held \ {r} /\ rows' \in Seq(Requests)
    BY <1>3, <1>8 DEF DropUndelivered, CancelToken, Release
  <2> HIDE DEF r
  <2>3. ClientTypes' BY <1>1, <2>2 DEF IInv, ClientTypes
  <2>4. LoopTypes' BY <1>1, <1>8, <2>2 DEF IInv, LoopTypes
  <2>5. Where' BY <1>1, <1>2, <1>8 DEF IInv, Where
  <2>6. NamesActive' /\ Resting' BY <1>1, <1>8 DEF IInv, NamesActive, Resting
  <2>7. Heard' BY <1>1, <2>1 DEF IInv, Heard
  <2>8. TokensLeft' BY <1>1, <1>6, <2>1 DEF TokensLeft
  <2>9. Registered' BY <1>1, <1>3, <1>5, <1>6, <1>8, <2>1, <2>2 DEF IInv, Registered
  <2>10. QED BY <1>4, <2>1, <2>3, <2>4, <2>5, <2>6, <2>7, <2>8, <2>9 DEF IInv
<1>9. QED BY <1>7, <1>8 DEF RemoveRow

LEMMA FailRowInv == ASSUME IInv, FailRow PROVE IInv'
<1> DEFINE r == Head(rows)
<1>1. /\ UNCHANGED <<commands, readiness, client, cancelled, overdue, waitedOut, need, left, queue>>
      /\ UNCHANGED <<activeRequests, drained, todo, submission, survivors, changed, delivered,
                     nextPrefill, submitted>>
      /\ pc = "failing"
  BY DEF FailRow, channel, clock, demand
<1>2. survivors = << >> BY <1>1 DEF IInv, Where
<1>3. CASE /\ rows = << >> /\ pc' = IF submission = "Prefill" THEN "end" ELSE AfterDecode
           /\ UNCHANGED <<scheduler, held, events, rows>>
  <2>1. \/ pc' = "prefill" /\ nextPrefill # << >>
        \/ pc' = "end" /\ nextPrefill = << >>
    BY <1>1, <1>3 DEF AfterDecode, IInv, Where
  <2>2. LoopTypes' BY <1>1, <1>3, <2>1 DEF IInv, LoopTypes
  <2>3. Where' BY <1>1, <1>2, <1>3, <2>1 DEF IInv, Where
  <2>4. Resting' BY <1>1, <1>3, <2>1 DEF IInv, Where, Resting
  <2>5. UNCHANGED <<clients, demand>> BY <1>1, <1>3 DEF clients, demand
  <2>6. QED BY <1>1, <1>3, <2>1, <2>2, <2>3, <2>4, <2>5, MovesOn DEF IInv, NamesActive
<1>4. CASE /\ rows # << >> /\ S!Cancel(r) /\ Release(r) /\ Send(r, "Failed")
           /\ rows' = Tail(rows) /\ UNCHANGED pc
  <2>1. /\ r \in Requests /\ r \in Owned /\ r \in Senders /\ r \notin activeRequests
        /\ rows' \in Seq(Requests) /\ Owned \subseteq Requests
    BY <1>4, FirstRow, OwnedRequests
  <2>2. SP!Inv' /\ Moves(r, "Absent") BY <1>4, <2>1, CancelEffect DEF IInv
  <2>3. \A s \in Requests : phase'[s] = IF s = r THEN "Absent" ELSE phase[s] BY <2>1, <2>2, PhaseOf
  <2>4. OnePlace' /\ Owned' = Owned \ {r} /\ Senders' = Senders \ {r} BY <1>1, <1>4, RowDropped
  <2>5. held' = held \ {r} BY <1>4 DEF Release
  <2> HIDE DEF r
  <2>6. EventTypes' /\ Heard' BY <1>1, <1>4, <2>1, <2>4, Said DEF IInv, Terminal
  <2>7. ClientTypes' BY <1>1, <2>6 DEF IInv, ClientTypes, EventTypes
  <2>8. LoopTypes' BY <1>1, <1>4, <2>1, <2>5 DEF IInv, LoopTypes
  <2>9. Where' BY <1>1, <1>4 DEF IInv, Where
  <2>10. NamesActive' /\ Resting' BY <1>1, <1>4 DEF IInv, NamesActive, Resting
  <2>11. TokensLeft' BY <1>1, <1>4, <2>4 DEF IInv, TokensLeft
  <2>12. Registered' BY <1>1, <1>4, <2>1, <2>3, <2>4, <2>5 DEF IInv, Registered
  <2>13. QED BY <2>2, <2>4, <2>6, <2>7, <2>8, <2>9, <2>10, <2>11, <2>12 DEF IInv
<1>5. QED BY <1>3, <1>4 DEF FailRow

-----------------------------------------------------------------------------
(* The theorems.                                                           *)

LEMMA EngineStepInv == ASSUME IInv, EngineStep PROVE IInv'
BY DrainCommandInv, DrainDoneInv, WakeUpInv, CollectExpiredInv, CancelExpiredInv,
   AdmitDoneInv, HeadBlockedInv, AnswerHeadInv, ReserveHeadInv, AdmitReservedInv,
   MakePlanInv, RunDecodeInv, DecodeRowInv, CheckRowInv, RowsDoneInv,
   StableContinueInv, ReturnSurvivorInv, RunPrefillInv, PrefillRowInv, RemoveRowInv,
   CompleteActiveInv, FailRowInv, EndIterationInv, StopActiveInv, StopPendingInv, StopInv
DEF EngineStep

LEMMA InitInv == Init => IInv
<1> SUFFICES ASSUME Init PROVE IInv OBVIOUS
<1>1. /\ S!Init /\ commands = << >> /\ queue = << >> /\ rows = << >> /\ survivors = << >>
      /\ nextPrefill = << >> /\ activeRequests = {} /\ held = {} /\ todo = {}
      /\ pc = "drain" /\ drained = 0 /\ submission = "None" /\ readiness = "Ready"
      /\ changed = FALSE /\ delivered = FALSE /\ submitted = FALSE
      /\ client = [r \in Requests |-> "New"] /\ events = [r \in Requests |-> << >>]
      /\ cancelled = [r \in Requests |-> FALSE] /\ overdue = [r \in Requests |-> FALSE]
      /\ waitedOut = [r \in Requests |-> FALSE]
      /\ need = [r \in Requests |-> 0] /\ left = [r \in Requests |-> 0]
  BY DEF Init
<1>2. /\ << >> \in Seq(Command) /\ << >> \in Seq(Requests) /\ << >> \in Seq({"Raw"} \cup Terminal)
      /\ Len(<< >>) = 0 /\ Range(<< >>) = {} /\ IsInjective(<< >>) /\ DOMAIN << >> = {}
  BY Empty
<1>3. SP!Inv BY <1>1, SchedulerInit
<1>4. Owned = {} BY <1>1, <1>2 DEF Owned
<1>5. Submitted = {} BY <1>1, <1>2 DEF Submitted
<1>6. Senders = {} BY <1>1, <1>2, <1>4, <1>5 DEF Senders
<1>7. OnePlace BY <1>1, <1>2, <1>4, <1>5 DEF OnePlace
<1>8. ClientTypes BY <1>1, <1>2, EngineAssumption DEF ClientTypes
<1>9. LoopTypes
  <2>1. Len(queue) <= MaxQueued /\ drained \in 0 .. MaxCommands BY <1>1, <1>2, EngineAssumption
  <2>2. QED BY <1>1, <1>2, <2>1 DEF LoopTypes
<1>10. Where /\ NamesActive /\ Resting BY <1>1, <1>2 DEF Where, NamesActive, Resting
<1>11. Heard BY <1>1, <1>2, <1>6 DEF Heard
<1>12. TokensLeft BY <1>4 DEF TokensLeft
<1>13. Registered
  <2>1. \A r \in Requests : phase[r] = "Absent" BY <1>1 DEF S!Init
  <2>2. QED BY <1>1, <1>4, <2>1 DEF Registered
<1>14. QED BY <1>3, <1>7, <1>8, <1>9, <1>10, <1>11, <1>12, <1>13 DEF IInv

LEMMA StutterInv == ASSUME IInv, UNCHANGED vars PROVE IInv'
<1>1. /\ UNCHANGED engineSide /\ UNCHANGED <<commands, client, events, cancelled, overdue, waitedOut>>
      /\ UNCHANGED <<need, left>>
  BY DEF vars, engineSide, clients, demand
<1>2. SubmitsOnce' /\ Submitted' = Submitted BY <1>1 DEF IInv, OnePlace, SubmitsOnce, Submitted
<1>3. QED BY <1>1, <1>2, BystanderInv DEF IInv, ClientTypes

LEMMA NextInv == IInv /\ [Next]_vars => IInv'
BY EnvironmentInv, EngineStepInv, StutterInv DEF Next, Over

(* The invariant holds at every point of run_loop, whatever the tasks have *)
(* done in between.                                                        *)
THEOREM Invariance == Spec => []IInv
BY InitInv, NextInv, PTL DEF Spec

(* Every variable of the engine, of its channels and of the scheduler      *)
(* keeps its type: no channel and no queue outgrows its bound.             *)
THEOREM TypeCorrect == Spec => []TypeOK
BY Invariance, TypesOf, PTL

(* A request is behind one command, in the pending queue, in the map of    *)
(* active requests or in one row, never in two of these, and the map, the  *)
(* scheduler and the page reservations name the same requests whenever the *)
(* loop of run_loop can be observed.                                       *)
THEOREM OneRegistry == Spec => [](OnePlace /\ SameRequests)
<1>1. IInv => OnePlace /\ SameRequests
  BY DEF IInv, SameRequests, Registered, Where, S!Admitted
<1>2. QED BY <1>1, Invariance, PTL

(* Whatever the clients, the clock and the device do, nothing is sent on   *)
(* an event channel after the event that ends the request.                 *)
THEOREM NothingAfterTheEnd == Spec => []TerminalIsLast
<1>1. IInv => TerminalIsLast
  <2>1. \A r \in Requests : HasSender(r) <=> r \in Senders BY DEF HasSender, Senders
  <2>2. QED BY <2>1 DEF IInv, Heard, TerminalIsLast
<1>2. QED BY <1>1, Invariance, PTL

(* When the loop sleeps and when the thread has ended, nothing is pending, *)
(* resident, scheduled or reserved.                                        *)
THEOREM RestsClean == Spec => []RestsOnNothing
<1>1. IInv => RestsOnNothing
  <2> SUFFICES ASSUME IInv, pc \in {"blocked", "stopped"}
               PROVE  /\ queue = << >> /\ Owned = {} /\ held = {} /\ active = 0
                      /\ pc = "stopped" => \A r \in Requests : phase[r] = "Absent" /\ ~HasSender(r)
    BY DEF RestsOnNothing
  <2>1. queue = << >> /\ activeRequests = {} /\ (pc = "stopped" => commands = << >>)
    BY DEF IInv, Resting
  <2>2. Owned = {} /\ held = {} BY <2>1, AtRest DEF IInv, Registered
  <2>3. \A r \in Requests : phase[r] = "Absent" BY <2>2 DEF IInv, Registered
  <2>4. SP!AdmittedSet = {} BY <2>3 DEF SP!AdmittedSet, SP!Admitted
  <2>5. SP!Cardinality({}) = 0 BY FS_EmptySet DEF SP!Cardinality, Cardinality
  <2>6. active = 0 BY <2>4, <2>5 DEF IInv, SP!Inv, SP!ActiveExact
  <2>7. pc = "stopped" => \A r \in Requests : ~HasSender(r)
    <3>1. commands = << >> => Submitted = {} BY Empty DEF Submitted
    <3>2. Range(queue) = {} BY <2>1, Empty
    <3>3. QED BY <2>1, <2>2, <3>1, <3>2 DEF HasSender
  <2>8. QED BY <2>1, <2>2, <2>3, <2>6, <2>7
<1>2. QED BY <1>1, Invariance, PTL

\* A step of the engine is at most one call of the scheduler, with arguments it allows.
LEMMA CallsScheduler == ASSUME IInv, [Next]_vars PROVE [S!Next]_(S!vars)
<1>1. UNCHANGED scheduler => UNCHANGED S!vars BY DEF scheduler, S!vars
<1>2. CASE Environment
  <2>1. UNCHANGED scheduler \/ S!Tick
    BY <1>2 DEF Environment, CheckReady, Submit, Receive, SeeClosed, Disconnect, CancelGuard,
                DeadlinePasses, AdmissionWaitPasses, RequestShutdown, ClockTicks, engineSide
  <2>2. QED BY <1>1, <2>1 DEF S!Next
<1>3. CASE EngineStep
  <2>1. ASSUME HandleCommand PROVE UNCHANGED scheduler \/ \E r \in Requests : S!Cancel(r)
    <3>1. Head(commands) \in Command
      <4>1. commands \in Seq(Command) /\ commands # << >> BY <2>1 DEF IInv, ClientTypes, HandleCommand
      <4>2. QED BY <4>1, Taken
    <3>2. CASE Head(commands).kind = "Cancel" /\ HandleCancel(Head(commands).request)
      <4>1. Head(commands).request \in Requests BY <3>1, <3>2 DEF Command
      <4>2. QED BY <3>2, <4>1 DEF HandleCancel
    <3>3. QED BY <2>1, <3>2 DEF HandleCommand, HandleSubmit, HandleShutdown
  <2>2. ASSUME rows # << >> PROVE Head(rows) \in Requests
    BY <2>2, FirstRow
  <2>3. CASE DrainCommand \/ WakeUp
    BY <1>1, <2>1, <2>3 DEF DrainCommand, WakeUp, S!Next
  <2>4. CASE \/ DrainDone \/ CollectExpired \/ AdmitDone \/ HeadBlocked \/ AnswerHead
             \/ RunDecode \/ DecodeDone \/ StableContinue \/ StableYield \/ RunPrefill
             \/ PrefillDone \/ CompleteActive \/ EndIteration \/ StopPending \/ Stop
    <3>1. UNCHANGED scheduler
      BY <2>4 DEF DrainDone, CollectExpired, AdmitDone, HeadBlocked, GoPlan, AnswerHead, Answer,
                  RunDecode, DecodeDone, StableContinue, StableYield, RunPrefill, PrefillDone,
                  CompleteActive, EndIteration, StopPending, Stop
    <3>2. QED BY <1>1, <3>1
  <2>5. CASE \E r \in Requests : CancelExpired(r) \/ StopActive(r)
    BY <2>5 DEF CancelExpired, StopActive, S!Next
  <2>6. CASE ReserveHead
    <3>1. queue \in Seq(Requests) /\ queue # << >> BY <2>6 DEF IInv, LoopTypes, ReserveHead, CanAdmit
    <3>2. Head(queue) \in Requests BY <3>1, Taken
    <3>3. QED BY <2>6, <3>2 DEF ReserveHead, S!Next
  <2>7. CASE AdmitReserved \/ RemoveRow
    <3>1. rows # << >> BY <2>7 DEF AdmitReserved, RemoveRow, IInv, Where
    <3>2. QED BY <2>2, <2>7, <3>1 DEF AdmitReserved, RemoveRow, S!Next
  <2>8. CASE MakePlan BY <2>8 DEF MakePlan, S!Next
  <2>9. CASE DecodeRow
    <3>1. Head(rows) \in Requests BY <2>2, <2>9 DEF DecodeRow
    <3>2. UNCHANGED scheduler \/ \E terminal \in BOOLEAN : S!CompleteDecode(Head(rows), terminal)
      BY <2>9 DEF DecodeRow
    <3>3. QED BY <1>1, <3>1, <3>2 DEF S!Next, S!Complete
  <2>10. CASE CheckRow
    <3>1. Head(rows) \in Requests BY <2>2, <2>10 DEF CheckRow, IInv, Where
    <3>2. UNCHANGED scheduler \/ S!Cancel(Head(rows)) BY <2>10 DEF CheckRow
    <3>3. QED BY <1>1, <3>1, <3>2 DEF S!Next
  <2>11. CASE ReturnSurvivor
    <3>1. UNCHANGED scheduler \/ (survivors # << >> /\ S!CompleteDecode(Head(survivors), FALSE))
      BY <2>11 DEF ReturnSurvivor
    <3>2. survivors # << >> => Head(survivors) \in Requests
      <4>1. survivors \in Seq(Requests) BY DEF IInv, LoopTypes
      <4>2. QED BY <4>1, Taken
    <3>3. QED BY <1>1, <3>1, <3>2 DEF S!Next, S!Complete
  <2>12. CASE PrefillRow
    <3>1. Head(rows) \in Requests /\ S!CompletePrefill(Head(rows), planned[Head(rows)])
      BY <2>2, <2>12 DEF PrefillRow
    <3>2. planned[Head(rows)] \in 0 .. MaxPrefillChunk + 1
      <4>1. /\ planned[Head(rows)] \in Nat /\ remaining[Head(rows)] \in Nat
            /\ planned[Head(rows)] <= SP!Smaller(remaining[Head(rows)], MaxPrefillChunk)
        BY <3>1 DEF IInv, SP!Inv, SP!TypeOK, SP!PromptAccounted
      <4>2. MaxPrefillChunk \in Nat BY EngineAssumption DEF S!IsValid
      <4>3. QED BY <4>1, <4>2 DEF SP!Smaller
    <3>3. QED BY <3>1, <3>2 DEF S!Next, S!Complete
  <2>13. CASE FailRow
    <3>1. UNCHANGED scheduler \/ (rows # << >> /\ S!Cancel(Head(rows))) BY <2>13 DEF FailRow
    <3>2. QED BY <1>1, <2>2, <3>1 DEF S!Next
  <2>14. QED
    BY <1>3, <2>3, <2>4, <2>5, <2>6, <2>7, <2>8, <2>9, <2>10, <2>11, <2>12, <2>13 DEF EngineStep
<1>4. CASE Over \/ UNCHANGED vars BY <1>1, <1>4 DEF Over, vars
<1>5. QED BY <1>2, <1>3, <1>4 DEF Next

(* The engine uses the scheduler as the scheduler expects to be used: what *)
(* it does to it is a behaviour of Scheduler, so that what is proved of    *)
(* the scheduler on its own holds inside the engine.                       *)
THEOREM UsesScheduler == Spec => S!Spec
<1>1. Init => S!Init BY DEF Init
<1>2. IInv /\ [Next]_vars => [S!Next]_(S!vars) BY CallsScheduler
<1>3. QED BY <1>1, <1>2, Invariance, PTL DEF Spec, S!Spec

-----------------------------------------------------------------------------
(* The pages.                                                              *)

Enough == PagesOf(held) <= NumPages

\* What the reservations take is a sum, now and after a step.
HeldIsTotal == PagesOf(held) = SP!Total(need, held)

LEMMA HeldTotal == HeldIsTotal
BY DEF HeldIsTotal, PagesOf, FoldFunctionOnSet, MapThenFoldSet,
       SP!Total, SP!FoldFunctionOnSet, SP!MapThenFoldSet

LEMMA HeldTotalNext == HeldIsTotal'
BY HeldTotal, PTL

\* The demands of finitely many requests.
LEMMA Demands ==
  ASSUME IInv
  PROVE  /\ SP!IsFiniteSet(held) /\ NumPages \in Nat
         /\ held \subseteq Requests
         /\ \A r \in Requests : need[r] \in Nat
<1>1. held \subseteq Requests BY DEF IInv, LoopTypes
<1>2. SP!IsFiniteSet(Requests) BY Valid DEF SP!IsValid
<1>3. \A T : SP!IsFiniteSet(T) <=> IsFiniteSet(T) BY DEF SP!IsFiniteSet, IsFiniteSet
<1>4. SP!IsFiniteSet(held) BY <1>1, <1>2, <1>3, FS_Subset
<1>5. \A r \in Requests : need[r] \in Nat
  <2>1. need \in [Requests -> PageDemands \cup {0}] BY DEF IInv, ClientTypes
  <2>2. PageDemands \cup {0} \subseteq Nat BY EngineAssumption
  <2>3. QED BY <2>1, <2>2
<1>6. NumPages \in Nat BY EngineAssumption
<1>7. QED BY <1>1, <1>4, <1>5, <1>6

\* A step reserves for one request that fits, or releases, or learns what a request needs
\* that holds nothing.
LEMMA StepReserves ==
  ASSUME IInv, [Next]_vars
  PROVE  \/ held' \subseteq held /\ need' = need
         \/ \E r \in Requests : Fits(r) /\ held' = held \cup {r} /\ need' = need
         \/ /\ held' = held
            /\ \E r \in Requests \ held : \A o \in Requests \ {r} : need'[o] = need[o]
<1>1. CASE Environment
  <2>1. ASSUME NEW r \in Requests, Submit(r)
        PROVE  /\ held' = held
               /\ \E s \in Requests \ held : \A o \in Requests \ {s} : need'[o] = need[o]
    <3>1. client[r] = "Checked" /\ held' = held
      BY <2>1 DEF Submit, engineSide
    <3>2. r \notin held BY <3>1 DEF IInv, Heard, Senders, Registered
    <3>3. need' = need \/ \E n \in PageDemands : need' = [need EXCEPT ![r] = n]
      BY <2>1 DEF Submit, demand
    <3>4. \A o \in Requests \ {r} : need'[o] = need[o] BY <3>3 DEF IInv, ClientTypes
    <3>5. QED BY <3>1, <3>2, <3>4
  <2>2. ASSUME NEW r \in Requests,
               \/ CheckReady(r) \/ Receive(r) \/ SeeClosed(r) \/ Disconnect(r)
               \/ DeadlinePasses(r) \/ AdmissionWaitPasses(r)
        PROVE  held' = held /\ need' = need
    BY <2>2 DEF CheckReady, Receive, SeeClosed, Disconnect, CancelGuard, DeadlinePasses,
                AdmissionWaitPasses, engineSide, demand
  <2>3. ASSUME RequestShutdown \/ ClockTicks PROVE held' = held /\ need' = need
    BY <2>3 DEF RequestShutdown, ClockTicks, engineSide, demand
  <2>4. QED BY <1>1, <2>1, <2>2, <2>3 DEF Environment
<1>2. CASE EngineStep
  <2>1. ASSUME HandleCommand PROVE held' \subseteq held /\ need' = need
    BY <2>1 DEF HandleCommand, HandleSubmit, HandleCancel, HandleShutdown, CancelActive, Release, demand
  <2>2. CASE DrainCommand \/ WakeUp BY <2>1, <2>2 DEF DrainCommand, WakeUp
  <2>3. CASE \/ DrainDone \/ CollectExpired \/ AdmitDone \/ HeadBlocked \/ AnswerHead
             \/ RunDecode \/ DecodeDone \/ StableContinue \/ StableYield \/ RunPrefill
             \/ PrefillDone \/ EndIteration \/ StopPending \/ Stop
    BY <2>3 DEF DrainDone, CollectExpired, AdmitDone, HeadBlocked, GoPlan, AnswerHead, Answer,
                RunDecode, DecodeDone, StableContinue, StableYield, RunPrefill, PrefillDone,
                EndIteration, StopPending, Stop, demand
  <2>4. CASE \E r \in Requests : CancelExpired(r) \/ StopActive(r)
    BY <2>4 DEF CancelExpired, StopActive, CancelActive, Release, demand
  <2>5. CASE ReserveHead
    <3>1. queue \in Seq(Requests) /\ queue # << >> BY <2>5 DEF IInv, LoopTypes, ReserveHead, CanAdmit
    <3>2. Head(queue) \in Requests BY <3>1, Taken
    <3>3. Fits(Head(queue)) /\ held' = held \cup {Head(queue)} /\ need' = need
      BY <2>5 DEF ReserveHead, demand
    <3>4. QED BY <3>2, <3>3
  <2>6. CASE AdmitReserved \/ RemoveRow \/ CompleteActive \/ FailRow
    BY <2>6 DEF AdmitReserved, RemoveRow, CompleteActive, FailRow, DropUndelivered, Release, demand
  <2>7. CASE MakePlan \/ ReturnSurvivor \/ PrefillRow
    BY <2>7 DEF MakePlan, ReturnSurvivor, PrefillRow, demand
  <2>8. CASE DecodeRow BY <2>8 DEF DecodeRow, DropUndelivered, Release
  <2>9. CASE CheckRow BY <2>9 DEF CheckRow, CancelActive, Release, demand
  <2>10. QED
    BY <1>2, <2>2, <2>3, <2>4, <2>5, <2>6, <2>7, <2>8, <2>9 DEF EngineStep
<1>3. CASE Over \/ UNCHANGED vars BY <1>3 DEF Over, vars, demand
<1>4. QED BY <1>1, <1>2, <1>3 DEF Next

LEMMA EnoughInv == ASSUME IInv, Enough, [Next]_vars PROVE Enough'
<1>1. /\ SP!IsFiniteSet(held) /\ NumPages \in Nat /\ held \subseteq Requests
      /\ \A r \in Requests : need[r] \in Nat
  BY Demands
<1>2. SP!Total(need, held) <= NumPages BY HeldTotal DEF Enough, HeldIsTotal
<1>3. SUFFICES SP!Total(need', held') <= NumPages BY HeldTotalNext DEF Enough, HeldIsTotal
<1>4. SP!Total(need, held) \in Nat BY <1>1, SP!TotalWithout, Valid
<1>5. CASE held' \subseteq held /\ need' = need
  <2>1. held' \in SUBSET held BY <1>5
  <2>2. \A y \in held : need[y] \in Nat BY <1>1
  <2>3. SP!Total(need, held') <= SP!Total(need, held) BY <1>1, <2>1, <2>2, SP!TotalLess, Valid
  <2>4. SP!Total(need, held') \in Nat
    <3>1. \A T : SP!IsFiniteSet(T) <=> IsFiniteSet(T) BY DEF SP!IsFiniteSet, IsFiniteSet
    <3>2. SP!IsFiniteSet(held') BY <1>1, <2>1, <3>1, FS_Subset
    <3>3. \A y \in held' : need[y] \in Nat BY <2>1, <2>2
    <3>4. QED BY <3>2, <3>3, SP!TotalWithout, Valid
  <2>5. QED BY <1>1, <1>2, <1>4, <1>5, <2>3, <2>4
<1>6. CASE \E r \in Requests : Fits(r) /\ held' = held \cup {r} /\ need' = need
  <2>1. PICK r \in Requests : Fits(r) /\ held' = held \cup {r} /\ need' = need BY <1>6
  <2>2. need[r] + SP!Total(need, held) <= NumPages BY <2>1, HeldTotal DEF Fits, HeldIsTotal
  <2>3. CASE r \in held
    <3>1. held' = held BY <2>1, <2>3
    <3>2. QED BY <1>2, <2>1, <3>1
  <2>4. CASE r \notin held
    <3>1. \A y \in held : need[y] \in Nat BY <1>1
    <3>2. SP!Total(need, held \cup {r}) = need[r] + SP!Total(need, held)
      BY <1>1, <2>4, <3>1, SP!TotalWith, Valid
    <3>3. QED BY <2>1, <2>2, <3>2
  <2>5. QED BY <2>3, <2>4
<1>7. CASE /\ held' = held
           /\ \E r \in Requests \ held : \A o \in Requests \ {r} : need'[o] = need[o]
  <2>1. \A y \in held : need[y] \in Nat /\ need'[y] = need[y] BY <1>1, <1>7
  <2>2. SP!Total(need', held) = SP!Total(need, held) BY <1>1, <2>1, SP!TotalSame, Valid
  <2>3. QED BY <1>2, <1>7, <2>2
<1>8. QED BY <1>5, <1>6, <1>7, StepReserves

(* The arena is never overdrawn: what is reserved for the requests that    *)
(* hold pages fits it, whatever order they are admitted and let go in.     *)
THEOREM ArenaSuffices == Spec => []Enough
<1>1. Init => Enough
  <2> SUFFICES ASSUME Init PROVE Enough OBVIOUS
  <2>1. held = {} BY DEF Init
  <2>2. SP!Total(need, {}) = 0 BY SP!TotalOfNone, Valid
  <2>3. NumPages \in Nat /\ NumPages > 0 BY EngineAssumption
  <2>4. QED BY <2>1, <2>2, <2>3, HeldTotal DEF Enough, HeldIsTotal
<1>2. IInv /\ Enough /\ [Next]_vars => Enough' BY EnoughInv
<1>3. QED BY <1>1, <1>2, Invariance, PTL DEF Spec

(* The engine's map and rows, the scheduler and the page reservations name *)
(* the same requests, each in one place, within every bound.               *)
THEOREM RegistriesCorrect == Spec => []RegistriesAgree
<1>1. TypeOK /\ OnePlace /\ SameRequests /\ Enough => RegistriesAgree
  BY DEF RegistriesAgree, Enough
<1>2. QED BY <1>1, TypeCorrect, OneRegistry, ArenaSuffices, PTL

-----------------------------------------------------------------------------
(* The requests in the command channel, in order.                          *)

\* What one more command makes of the requests before it.
After(requests, c) == IF c.kind = "Submit" THEN Append(requests, c.request) ELSE requests

Follows(g, cs, n) == g[0] = << >> /\ \A k \in 1 .. n : g[k] = After(g[k - 1], cs[k])

LEMMA AfterType ==
  ASSUME NEW q \in Seq(Requests), NEW c \in Command
  PROVE  After(q, c) \in Seq(Requests)
<1>1. CASE c.kind = "Submit"
  <2>1. c.request \in Requests BY <1>1 DEF Command
  <2>2. QED BY <1>1, <2>1, Put DEF After
<1>2. CASE c.kind # "Submit" BY <1>2 DEF After
<1>3. QED BY <1>1, <1>2

\* Two ways of following the same commands agree.
LEMMA FollowsOnce ==
  ASSUME NEW cs, NEW n \in Nat, NEW g, NEW h, Follows(g, cs, n), Follows(h, cs, n)
  PROVE  \A k \in 0 .. n : g[k] = h[k]
<1> DEFINE bad == {m \in 0 .. n : g[m] # h[m]}
<1> SUFFICES ASSUME bad # {} PROVE FALSE OBVIOUS
<1>1. bad \in SUBSET Nat OBVIOUS
<1>2. PICK m \in bad : \A k \in bad : m <= k BY <1>1, SP!NatMin, Valid
<1>3. m \in 1 .. n /\ m - 1 \in 0 .. n /\ m - 1 \notin bad BY <1>2 DEF Follows
<1>4. g[m - 1] = h[m - 1] BY <1>3
<1>5. QED BY <1>2, <1>3, <1>4 DEF Follows

\* There is one.
LEMMA FollowsExists ==
  ASSUME NEW cs \in Seq(Command)
  PROVE  \E g \in [0 .. Len(cs) -> Seq(Requests)] : Follows(g, cs, Len(cs))
<1> DEFINE n == Len(cs)
           Def(m) == \E g \in [0 .. m -> Seq(Requests)] : Follows(g, cs, m)
           bad == {m \in 0 .. n : ~Def(m)}
<1>1. n \in Nat /\ \A k \in 1 .. n : cs[k] \in Command OBVIOUS
<1>2. Def(0)
  <2> DEFINE one == [k \in 0 .. 0 |-> << >>]
  <2>1. << >> \in Seq(Requests) OBVIOUS
  <2>2. one \in [0 .. 0 -> Seq(Requests)] /\ one[0] = << >> /\ \A k \in 1 .. 0 : FALSE BY <2>1
  <2> HIDE DEF one
  <2>3. QED BY <2>2 DEF Follows
<1>3. ASSUME NEW m \in 0 .. n, m + 1 <= n, Def(m) PROVE Def(m + 1)
  <2>1. PICK g \in [0 .. m -> Seq(Requests)] : Follows(g, cs, m) BY <1>3
  <2> DEFINE h == [k \in 0 .. m + 1 |-> IF k = m + 1 THEN After(g[m], cs[m + 1]) ELSE g[k]]
  <2>2. m + 1 \in 1 .. n /\ m \in 0 .. m /\ g[m] \in Seq(Requests) BY <1>1, <1>3
  <2>3. After(g[m], cs[m + 1]) \in Seq(Requests) BY <1>1, <2>2, AfterType
  <2>4. h \in [0 .. m + 1 -> Seq(Requests)] BY <2>3
  <2>5. /\ h[0] = << >> /\ h[m + 1] = After(g[m], cs[m + 1])
        /\ \A k \in 0 .. m : h[k] = g[k]
    BY <1>1, <2>1 DEF Follows
  <2> HIDE DEF h
  <2>6. ASSUME NEW k \in 1 .. m + 1 PROVE h[k] = After(h[k - 1], cs[k])
    <3>1. CASE k = m + 1 BY <3>1, <2>2, <2>5
    <3>2. CASE k # m + 1
      <4>1. k \in 1 .. m /\ k \in 0 .. m /\ k - 1 \in 0 .. m BY <1>1, <3>2
      <4>2. g[k] = After(g[k - 1], cs[k]) BY <2>1, <4>1 DEF Follows
      <4>3. QED BY <4>1, <4>2, <2>5
    <3>3. QED BY <3>1, <3>2
  <2>7. QED BY <2>4, <2>5, <2>6 DEF Follows
<1> HIDE DEF Def, n
<1>4. bad = {}
  <2> SUFFICES ASSUME bad # {} PROVE FALSE OBVIOUS
  <2>1. bad \in SUBSET Nat BY <1>1
  <2>2. PICK m \in bad : \A k \in bad : m <= k BY <2>1, SP!NatMin, Valid
  <2>3. m # 0 BY <1>2, <2>2
  <2>4. m - 1 \in 0 .. n /\ m - 1 \notin bad /\ (m - 1) + 1 = m BY <1>1, <2>2, <2>3
  <2>5. QED BY <1>1, <1>3, <2>2, <2>4
<1>5. Def(n) BY <1>1, <1>4
<1>6. QED BY <1>5 DEF Def, n

\* And it ends in Submits.
LEMMA SubmitsFollows ==
  ASSUME NEW cs \in Seq(Command), NEW g, Follows(g, cs, Len(cs))
  PROVE  Submits(cs) = g[Len(cs)]
<1> DEFINE n == Len(cs)
           IsIt(f) == f = [k \in 0 .. n |-> IF k = 0 THEN << >>
                                            ELSE IF cs[k].kind = "Submit"
                                                 THEN Append(f[k - 1], cs[k].request) ELSE f[k - 1]]
           it == CHOOSE f : IsIt(f)
<1>1. PICK h \in [0 .. n -> Seq(Requests)] : Follows(h, cs, n) BY FollowsExists
<1>2. n \in Nat OBVIOUS
<1>3. Submits(cs) = it[n] BY DEF Submits
<1> HIDE DEF n
<1>4. IsIt(h)
  <2>1. h = [k \in 0 .. n |-> h[k]] BY <1>1
  <2>2. ASSUME NEW k \in 0 .. n
        PROVE  h[k] = IF k = 0 THEN << >> ELSE IF cs[k].kind = "Submit"
                                               THEN Append(h[k - 1], cs[k].request) ELSE h[k - 1]
    <3>1. CASE k = 0 BY <1>1, <3>1 DEF Follows
    <3>2. CASE k \in 1 .. n
      <4>1. h[k] = After(h[k - 1], cs[k]) BY <1>1, <3>2 DEF Follows
      <4>2. k # 0 BY <3>2
      <4>3. QED BY <4>1, <4>2 DEF After
    <3>3. QED BY <1>2, <3>1, <3>2
  <2>3. QED BY ONLY <2>1, <2>2
<1>5. IsIt(it) BY ONLY <1>4, IsIt(it) \/ ~IsIt(it)
<1> HIDE DEF it
<1>6. Follows(it, cs, n)
  <2>1. it[0] = << >> BY <1>2, <1>5
  <2>2. ASSUME NEW k \in 1 .. n PROVE it[k] = After(it[k - 1], cs[k])
    <3>1. k \in 0 .. n /\ k # 0 BY <1>2
    <3>2. QED BY <1>5, <3>1 DEF After
  <2>3. QED BY <2>1, <2>2 DEF Follows
<1>7. n \in 0 .. n BY <1>2
<1>8. QED BY <1>2, <1>3, <1>6, <1>7, FollowsOnce DEF n

\* No command, one more command, one command less.
LEMMA SubmitsNone == Submits(<< >>) = << >>
<1> DEFINE g == [k \in 0 .. 0 |-> << >>]
<1>1. << >> \in Seq(Command) /\ Len(<< >>) = 0 OBVIOUS
<1>2. g[0] = << >> /\ \A k \in 1 .. 0 : FALSE OBVIOUS
<1> HIDE DEF g
<1>3. Follows(g, << >>, 0) BY <1>2 DEF Follows
<1>4. QED BY <1>1, <1>2, <1>3, SubmitsFollows

LEMMA SubmitsAppend ==
  ASSUME NEW cs \in Seq(Command), NEW c \in Command
  PROVE  Submits(Append(cs, c)) = After(Submits(cs), c)
<1> DEFINE n == Len(cs)
           more == Append(cs, c)
<1>1. PICK g \in [0 .. n -> Seq(Requests)] : Follows(g, cs, n) BY FollowsExists
<1>2. Submits(cs) = g[n] BY <1>1, SubmitsFollows
<1>3. /\ n \in Nat /\ more \in Seq(Command) /\ Len(more) = n + 1
      /\ more[n + 1] = c /\ \A k \in 1 .. n : more[k] = cs[k]
  OBVIOUS
<1> DEFINE h == [k \in 0 .. n + 1 |-> IF k = n + 1 THEN After(g[n], c) ELSE g[k]]
<1> HIDE DEF n, more
<1>4. /\ h[0] = << >> /\ h[n + 1] = After(g[n], c)
      /\ \A k \in 0 .. n : h[k] = g[k]
  BY <1>1, <1>3 DEF Follows
<1> HIDE DEF h
<1>5. Follows(h, more, n + 1)
  <2>1. ASSUME NEW k \in 1 .. n + 1 PROVE h[k] = After(h[k - 1], more[k])
    <3>1. CASE k = n + 1 BY <3>1, <1>3, <1>4
    <3>2. CASE k # n + 1
      <4>1. k \in 1 .. n /\ k \in 0 .. n /\ k - 1 \in 0 .. n BY <1>3, <3>2
      <4>2. g[k] = After(g[k - 1], cs[k]) BY <1>1, <4>1 DEF Follows
      <4>3. QED BY <1>3, <1>4, <4>1, <4>2
    <3>3. QED BY <3>1, <3>2
  <2>2. QED BY <1>4, <2>1 DEF Follows
<1>6. Submits(more) = h[n + 1] BY <1>3, <1>5, SubmitsFollows
<1>7. QED BY <1>2, <1>4, <1>6 DEF more

-----------------------------------------------------------------------------
(* Two sequences, one behind the other.                                    *)

LEMMA Joined ==
  ASSUME NEW T, NEW a \in Seq(T), NEW b \in Seq(T)
  PROVE  /\ a \o b \in Seq(T) /\ Range(a \o b) = Range(a) \cup Range(b)
         /\ Len(a \o b) = Len(a) + Len(b)
<1> DEFINE ab == a \o b
<1>1. /\ Len(a) \in Nat /\ Len(b) \in Nat /\ DOMAIN a = 1 .. Len(a) /\ DOMAIN b = 1 .. Len(b)
      /\ ab \in Seq(T) /\ Len(ab) = Len(a) + Len(b) /\ DOMAIN ab = 1 .. Len(a) + Len(b)
      /\ \A i \in 1 .. Len(a) : ab[i] = a[i]
      /\ \A i \in 1 .. Len(b) : ab[Len(a) + i] = b[i]
  BY ConcatProperties, LenProperties
<1> HIDE DEF ab
<1>2. \A i \in DOMAIN ab : i \in DOMAIN a \/ (i - Len(a) \in DOMAIN b /\ i = Len(a) + (i - Len(a)))
  BY <1>1
<1>3. \A i \in DOMAIN a : i \in DOMAIN ab BY <1>1
<1>4. \A i \in DOMAIN b : Len(a) + i \in DOMAIN ab BY <1>1
<1>5. Range(ab) = Range(a) \cup Range(b)
  <2>1. ASSUME NEW i \in DOMAIN ab PROVE ab[i] \in Range(a) \cup Range(b)
    <3>1. CASE i \in DOMAIN a BY <1>1, <3>1 DEF Range
    <3>2. CASE i - Len(a) \in DOMAIN b /\ i = Len(a) + (i - Len(a))
      <4>1. ab[i] = b[i - Len(a)] BY <1>1, <3>2
      <4>2. QED BY <3>2, <4>1 DEF Range
    <3>3. QED BY <1>2, <3>1, <3>2
  <2>2. \A i \in DOMAIN a : a[i] \in Range(ab) BY <1>1, <1>3 DEF Range
  <2>3. \A i \in DOMAIN b : b[i] \in Range(ab)
    <3>1. \A i \in DOMAIN b : ab[Len(a) + i] = b[i] BY <1>1
    <3>2. QED BY <1>4, <3>1 DEF Range
  <2>4. QED BY <2>1, <2>2, <2>3 DEF Range
<1>6. QED BY <1>1, <1>5 DEF ab

LEMMA JoinedMore ==
  ASSUME NEW T, NEW a \in Seq(T), NEW b \in Seq(T), NEW e \in T
  PROVE  a \o Append(b, e) = Append(a \o b, e)
<1>1. /\ Append(b, e) = b \o <<e>> /\ a \o b \in Seq(T) /\ <<e>> \in Seq(T)
  BY AppendIsConcat, ConcatProperties
<1>2. Append(a \o b, e) = (a \o b) \o <<e>> BY <1>1, AppendIsConcat
<1>3. QED BY <1>1, <1>2, ConcatAssociative

LEMMA JoinedMoves ==
  ASSUME NEW T, NEW a \in Seq(T), NEW b \in Seq(T), b # << >>
  PROVE  Append(a, Head(b)) \o Tail(b) = a \o b
<1> DEFINE e == Head(b)
           t == Tail(b)
<1>1. e \in T /\ t \in Seq(T) /\ <<e>> \in Seq(T) BY HeadTailProperties
<1>2. b = <<e>> \o t
  <2>1. Len(b) \in Nat \ {0} BY EmptySeq
  <2>2. /\ 1 \in 1 .. Len(b) /\ Len(b) \in 1 .. Len(b) /\ 1 + 1 = 2 BY <2>1
  <2>3. SubSeq(b, 1, Len(b)) = <<b[1]>> \o SubSeq(b, 1 + 1, Len(b)) BY <2>2, SubSeqRecursiveFirst
  <2>4. t = SubSeq(b, 2, Len(b)) BY TailIsSubSeq
  <2>5. SubSeq(b, 1, Len(b)) = b BY SubSeqFull
  <2>6. e = b[1] BY <2>1
  <2>7. QED BY <2>2, <2>3, <2>4, <2>5, <2>6
<1> HIDE DEF e, t
<1>3. Append(a, e) = a \o <<e>> BY <1>1, AppendIsConcat
<1>4. (a \o <<e>>) \o t = a \o (<<e>> \o t) BY <1>1, ConcatAssociative
<1>5. QED BY <1>2, <1>3, <1>4 DEF e, t

\* One element taken out.
LEMMA WithoutOne ==
  ASSUME NEW T, NEW a \in Seq(T), NEW i \in 1 .. Len(a)
  PROVE  /\ RemoveAt(a, i) \in Seq(T) /\ Len(RemoveAt(a, i)) = Len(a) - 1
         /\ \A k \in 1 .. Len(a) - 1 : RemoveAt(a, i)[k] = IF k < i THEN a[k] ELSE a[k + 1]
<1> DEFINE l == SubSeq(a, 1, i - 1)
           r == SubSeq(a, i + 1, Len(a))
<1>1. Len(a) \in Nat /\ \A k \in 1 .. Len(a) : a[k] \in T BY LenProperties, ElementOfSeq
<1>2. /\ 1 \in Int /\ i - 1 \in Int /\ i + 1 \in Int /\ Len(a) \in Int
      /\ (\A k \in 1 .. i - 1 : a[k] \in T) /\ (\A k \in i + 1 .. Len(a) : a[k] \in T)
  BY <1>1
<1>3. /\ l \in Seq(T) /\ Len(l) = i - 1 /\ \A k \in 1 .. i - 1 : l[k] = a[k]
  <2>1. /\ l \in Seq(T) /\ Len(l) = IF 1 <= i - 1 THEN (i - 1) - 1 + 1 ELSE 0
        /\ \A k \in 1 .. (i - 1) - 1 + 1 : l[k] = a[1 + k - 1]
    BY <1>2, SubSeqProperties
  <2> HIDE DEF l
  <2>2. QED BY <2>1
<1>4. /\ r \in Seq(T) /\ Len(r) = Len(a) - i /\ \A k \in 1 .. Len(a) - i : r[k] = a[i + k]
  <2>1. /\ r \in Seq(T) /\ Len(r) = IF i + 1 <= Len(a) THEN Len(a) - (i + 1) + 1 ELSE 0
        /\ \A k \in 1 .. Len(a) - (i + 1) + 1 : r[k] = a[(i + 1) + k - 1]
    BY <1>2, SubSeqProperties
  <2> HIDE DEF r
  <2>2. QED BY <1>1, <2>1
<1>5. RemoveAt(a, i) = l \o r BY DEF RemoveAt
<1> HIDE DEF l, r
<1>6. /\ l \o r \in Seq(T) /\ Len(l \o r) = Len(l) + Len(r)
      /\ \A k \in 1 .. Len(l) + Len(r) : (l \o r)[k] = IF k <= Len(l) THEN l[k] ELSE r[k - Len(l)]
  BY <1>3, <1>4, ConcatProperties
<1> DEFINE lr == l \o r
<1> HIDE DEF lr
<1>7. /\ lr \in Seq(T) /\ Len(lr) = Len(a) - 1
      /\ \A k \in 1 .. Len(a) - 1 : lr[k] = IF k <= i - 1 THEN l[k] ELSE r[k - (i - 1)]
  BY <1>1, <1>3, <1>4, <1>6 DEF lr
<1>8. ASSUME NEW k \in 1 .. Len(a) - 1 PROVE lr[k] = IF k < i THEN a[k] ELSE a[k + 1]
  <2>1. CASE k < i BY <1>1, <1>3, <1>7, <2>1
  <2>2. CASE ~(k < i)
    <3>1. k - (i - 1) \in 1 .. Len(a) - i /\ i + (k - (i - 1)) = k + 1 /\ ~(k <= i - 1) BY <1>1, <2>2
    <3>2. QED BY <1>4, <1>7, <2>2, <3>1
  <2>3. QED BY <2>1, <2>2
<1>9. QED BY <1>5, <1>7, <1>8 DEF lr

\* The first one, one of the sequence in front, the first of the sequence behind.
LEMMA WithoutHead ==
  ASSUME NEW T, NEW a \in Seq(T), a # << >>
  PROVE  RemoveAt(a, 1) = Tail(a)
<1>1. Len(a) \in Nat \ {0} BY EmptySeq
<1>2. /\ RemoveAt(a, 1) \in Seq(T) /\ Len(RemoveAt(a, 1)) = Len(a) - 1
      /\ \A k \in 1 .. Len(a) - 1 : RemoveAt(a, 1)[k] = IF k < 1 THEN a[k] ELSE a[k + 1]
  BY <1>1, WithoutOne
<1>3. /\ Tail(a) \in Seq(T) /\ Len(Tail(a)) = Len(a) - 1
      /\ \A k \in 1 .. Len(a) - 1 : Tail(a)[k] = a[k + 1]
  BY HeadTailProperties
<1> DEFINE w == RemoveAt(a, 1)
           t == Tail(a)
<1> HIDE DEF w, t
<1>4. \A k \in 1 .. Len(w) : w[k] = t[k] BY <1>1, <1>2, <1>3 DEF w, t
<1>5. QED BY <1>2, <1>3, <1>4, SeqEqual DEF w, t

LEMMA WithoutLeft ==
  ASSUME NEW T, NEW a \in Seq(T), NEW b \in Seq(T), NEW i \in 1 .. Len(a)
  PROVE  /\ i \in 1 .. Len(a \o b) /\ (a \o b)[i] = a[i]
         /\ RemoveAt(a \o b, i) = RemoveAt(a, i) \o b
<1> DEFINE ab == a \o b
           w == RemoveAt(a, i)
           wb == w \o b
           v == RemoveAt(ab, i)
<1>1. Len(a) \in Nat /\ Len(b) \in Nat BY LenProperties
<1>2. /\ ab \in Seq(T) /\ Len(ab) = Len(a) + Len(b)
      /\ \A k \in 1 .. Len(a) + Len(b) : ab[k] = IF k <= Len(a) THEN a[k] ELSE b[k - Len(a)]
  BY ConcatProperties
<1>3. /\ w \in Seq(T) /\ Len(w) = Len(a) - 1
      /\ \A k \in 1 .. Len(a) - 1 : w[k] = IF k < i THEN a[k] ELSE a[k + 1]
  BY WithoutOne
<1> HIDE DEF ab, w
<1>4. /\ wb \in Seq(T) /\ Len(wb) = Len(w) + Len(b)
      /\ \A k \in 1 .. Len(w) + Len(b) : wb[k] = IF k <= Len(w) THEN w[k] ELSE b[k - Len(w)]
  BY <1>3, ConcatProperties
<1>5. i \in 1 .. Len(ab) BY <1>1, <1>2
<1>6. /\ v \in Seq(T) /\ Len(v) = Len(ab) - 1
      /\ \A k \in 1 .. Len(ab) - 1 : v[k] = IF k < i THEN ab[k] ELSE ab[k + 1]
  BY <1>2, <1>5, WithoutOne
<1> HIDE DEF wb, v
<1>7. ASSUME NEW k \in 1 .. Len(v) PROVE v[k] = wb[k]
  <2>0. k \in 1 .. Len(a) + Len(b) - 1 BY <1>2, <1>6
  <2>1. CASE k < i
    <3>1. k \in 1 .. Len(a) - 1 /\ k \in 1 .. Len(ab) - 1 /\ k <= Len(w) /\ k <= Len(a)
          /\ k \in 1 .. Len(a) + Len(b) /\ k \in 1 .. Len(w) + Len(b)
      BY <1>1, <1>2, <1>3, <2>0, <2>1
    <3>2. v[k] = a[k] BY <1>2, <1>6, <2>1, <3>1
    <3>3. wb[k] = a[k] BY <1>3, <1>4, <2>1, <3>1
    <3>4. QED BY <3>2, <3>3
  <2>2. CASE ~(k < i) /\ k <= Len(a) - 1
    <3>1. k \in 1 .. Len(a) - 1 /\ k \in 1 .. Len(ab) - 1 /\ k <= Len(w) /\ k + 1 <= Len(a)
          /\ k + 1 \in 1 .. Len(a) + Len(b) /\ k \in 1 .. Len(w) + Len(b)
      BY <1>1, <1>2, <1>3, <2>0, <2>2
    <3>2. v[k] = a[k + 1] BY <1>2, <1>6, <2>2, <3>1
    <3>3. wb[k] = a[k + 1] BY <1>3, <1>4, <2>2, <3>1
    <3>4. QED BY <3>2, <3>3
  <2>3. CASE ~(k <= Len(a) - 1)
    <3>1. ~(k < i) /\ k \in 1 .. Len(ab) - 1 /\ ~(k <= Len(w)) /\ ~(k + 1 <= Len(a))
          /\ k + 1 \in 1 .. Len(a) + Len(b) /\ k \in 1 .. Len(w) + Len(b)
          /\ k + 1 - Len(a) = k - Len(w)
      BY <1>1, <1>2, <1>3, <2>0, <2>3
    <3>2. v[k] = b[k + 1 - Len(a)] BY <1>2, <1>6, <3>1
    <3>3. wb[k] = b[k - Len(w)] BY <1>4, <3>1
    <3>4. QED BY <3>1, <3>2, <3>3
  <2>4. QED BY <1>1, <2>0, <2>1, <2>2, <2>3
<1>8. Len(v) = Len(wb) BY <1>1, <1>2, <1>3, <1>4, <1>6
<1>9. v = wb BY <1>4, <1>6, <1>7, <1>8, SeqEqual
<1>10. ab[i] = a[i] BY <1>1, <1>2
<1>11. QED BY <1>5, <1>9, <1>10 DEF v, wb, w, ab

LEMMA WithoutNext ==
  ASSUME NEW T, NEW a \in Seq(T), NEW b \in Seq(T), b # << >>
  PROVE  /\ Len(a) + 1 \in 1 .. Len(a \o b) /\ (a \o b)[Len(a) + 1] = Head(b)
         /\ RemoveAt(a \o b, Len(a) + 1) = a \o Tail(b)
<1> DEFINE i == Len(a) + 1
           ab == a \o b
           t == Tail(b)
           at == a \o t
           v == RemoveAt(ab, i)
<1>1. Len(a) \in Nat /\ Len(b) \in Nat \ {0} BY LenProperties, EmptySeq
<1>2. /\ ab \in Seq(T) /\ Len(ab) = Len(a) + Len(b)
      /\ \A k \in 1 .. Len(a) + Len(b) : ab[k] = IF k <= Len(a) THEN a[k] ELSE b[k - Len(a)]
  BY ConcatProperties
<1>3. /\ t \in Seq(T) /\ Len(t) = Len(b) - 1
      /\ \A k \in 1 .. Len(b) - 1 : t[k] = b[k + 1]
  BY HeadTailProperties
<1>4. Head(b) = b[1] BY <1>1
<1> HIDE DEF ab, t
<1>5. /\ at \in Seq(T) /\ Len(at) = Len(a) + Len(t)
      /\ \A k \in 1 .. Len(a) + Len(t) : at[k] = IF k <= Len(a) THEN a[k] ELSE t[k - Len(a)]
  BY <1>3, ConcatProperties
<1>6. i \in 1 .. Len(ab) BY <1>1, <1>2
<1>7. /\ v \in Seq(T) /\ Len(v) = Len(ab) - 1
      /\ \A k \in 1 .. Len(ab) - 1 : v[k] = IF k < i THEN ab[k] ELSE ab[k + 1]
  BY <1>2, <1>6, WithoutOne
<1> HIDE DEF at, v
<1>8. ASSUME NEW k \in 1 .. Len(v) PROVE v[k] = at[k]
  <2>0. k \in 1 .. Len(a) + Len(b) - 1 /\ k \in 1 .. Len(ab) - 1 /\ k \in 1 .. Len(a) + Len(t)
        /\ k \in 1 .. Len(a) + Len(b) /\ k + 1 \in 1 .. Len(a) + Len(b)
    BY <1>1, <1>2, <1>3, <1>7
  <2>1. CASE k <= Len(a)
    <3>1. v[k] = a[k] BY <1>1, <1>2, <1>7, <2>0, <2>1
    <3>2. at[k] = a[k] BY <1>5, <2>0, <2>1
    <3>3. QED BY <3>1, <3>2
  <2>2. CASE ~(k <= Len(a))
    <3>1. ~(k < i) /\ ~(k + 1 <= Len(a)) /\ k - Len(a) \in 1 .. Len(b) - 1
          /\ (k - Len(a)) + 1 = k + 1 - Len(a)
      BY <1>1, <2>0, <2>2
    <3>2. v[k] = b[k + 1 - Len(a)] BY <1>2, <1>7, <2>0, <3>1
    <3>3. at[k] = t[k - Len(a)] BY <1>5, <2>0, <2>2
    <3>4. t[k - Len(a)] = b[(k - Len(a)) + 1] BY <1>3, <3>1
    <3>5. QED BY <3>1, <3>2, <3>3, <3>4
  <2>3. QED BY <2>1, <2>2
<1>9. Len(v) = Len(at) BY <1>1, <1>2, <1>3, <1>5, <1>7
<1>10. v = at BY <1>5, <1>7, <1>8, <1>9, SeqEqual
<1>11. ab[i] = Head(b) BY <1>1, <1>2, <1>4, <1>6
<1>12. QED BY <1>6, <1>10, <1>11 DEF v, at, t, ab

LEMMA JoinedHead ==
  ASSUME NEW T, NEW a \in Seq(T), NEW b \in Seq(T), a # << >>
  PROVE  /\ a \o b # << >> /\ Head(a \o b) = Head(a) /\ Tail(a \o b) = Tail(a) \o b
         /\ 1 \in 1 .. Len(a \o b) /\ RemoveAt(a \o b, 1) = Tail(a) \o b
<1>1. 1 \in 1 .. Len(a) /\ Head(a) = a[1]
  <2>1. Len(a) \in Nat \ {0} BY EmptySeq
  <2>2. QED BY <2>1
<1>2. /\ 1 \in 1 .. Len(a \o b) /\ (a \o b)[1] = a[1]
      /\ RemoveAt(a \o b, 1) = RemoveAt(a, 1) \o b
  BY <1>1, WithoutLeft
<1>3. a \o b \in Seq(T) BY ConcatProperties
<1> DEFINE ab == a \o b
<1> HIDE DEF ab
<1>4. ab # << >> /\ Head(ab) = ab[1]
  <2>1. 1 \in 1 .. Len(ab) /\ ab \in Seq(T) BY <1>2, <1>3 DEF ab
  <2>2. QED BY <2>1
<1>5. RemoveAt(ab, 1) = Tail(ab) BY <1>3, <1>4, WithoutHead DEF ab
<1>6. RemoveAt(a, 1) = Tail(a) BY WithoutHead
<1>7. QED BY <1>1, <1>2, <1>4, <1>5, <1>6 DEF ab

\* The pending queue's removal, by place.
LEMMA RemovedAt ==
  ASSUME NEW T, NEW q \in Seq(T), IsInjective(q), NEW e \in Range(q)
  PROVE  \E i \in 1 .. Len(q) : q[i] = e /\ RemoveFirst(q, e) = RemoveAt(q, i)
<1>1. Len(q) \in Nat /\ DOMAIN q = 1 .. Len(q) OBVIOUS
<1>2. PICK i \in 1 .. Len(q) : q[i] = e BY <1>1 DEF Range
<1>3. {k \in 1 .. Len(q) : q[k] = e} = {i} BY <1>1, <1>2 DEF IsInjective
<1>4. Min({i}) = i
  <2>1. i \in Int BY <1>1
  <2>2. QED BY <2>1 DEF Min
<1>5. RemoveFirst(q, e) = RemoveAt(q, i)
  BY <1>2, <1>3, <1>4 DEF RemoveFirst, SelectInSeq
<1>6. QED BY <1>2, <1>5

-----------------------------------------------------------------------------
(* What the channel holds without its first command, and altogether.       *)

LEMMA SubmitsTail ==
  ASSUME NEW cs \in Seq(Command), cs # << >>
  PROVE  /\ Submits(Tail(cs)) \in Seq(Requests)
         /\ Submits(cs) = After(<< >>, Head(cs)) \o Submits(Tail(cs))
<1> DEFINE n == Len(cs)
           t == Tail(cs)
           c == Head(cs)
           pre == After(<< >>, c)
<1>1. /\ n \in Nat \ {0} /\ t \in Seq(Command) /\ Len(t) = n - 1 /\ c \in Command /\ cs[1] = c
      /\ \A k \in 1 .. n - 1 : t[k] = cs[k + 1]
  <2>1. n \in Nat \ {0} BY EmptySeq
  <2>2. QED BY <2>1, HeadTailProperties
<1> HIDE DEF n, t, c
<1>2. pre \in Seq(Requests)
  <2>1. << >> \in Seq(Requests) OBVIOUS
  <2>2. QED BY <1>1, <2>1, AfterType
<1>3. PICK g \in [0 .. n - 1 -> Seq(Requests)] : Follows(g, t, n - 1) BY <1>1, FollowsExists
<1>4. Submits(t) = g[n - 1] BY <1>1, <1>3, SubmitsFollows
<1> DEFINE h == [k \in 0 .. n |-> IF k = 0 THEN << >> ELSE pre \o g[k - 1]]
<1> HIDE DEF pre
<1>5. h[0] = << >> /\ \A k \in 1 .. n : h[k] = pre \o g[k - 1]
  <2>1. 0 \in 0 .. n /\ \A k \in 1 .. n : k \in 0 .. n /\ k # 0 BY <1>1
  <2>2. QED BY <2>1, Zenon
<1> HIDE DEF h
<1>6. Follows(h, cs, n)
  <2>1. ASSUME NEW k \in 1 .. n PROVE h[k] = After(h[k - 1], cs[k])
    <3>1. CASE k = 1
      <4>1. h[1] = pre \o g[0] BY <1>1, <1>5, <3>1
      <4>2. g[0] = << >> BY <1>3 DEF Follows
      <4>3. h[1] = pre BY <1>2, <4>1, <4>2, ConcatEmptySeq
      <4>4. QED BY <1>1, <1>5, <3>1, <4>3 DEF pre
    <3>2. CASE k # 1
      <4>1. k - 1 \in 1 .. n - 1 /\ k - 1 \in 1 .. n /\ (k - 1) - 1 \in 0 .. n - 1 /\ (k - 1) + 1 = k
        BY <1>1, <3>2
      <4> DEFINE x == g[(k - 1) - 1]
      <4>2. g[k - 1] = After(x, cs[k]) BY <1>1, <1>3, <4>1 DEF Follows
      <4>3. h[k] = pre \o g[k - 1] /\ h[k - 1] = pre \o x BY <1>5, <4>1
      <4>4. x \in Seq(Requests) BY <1>3, <4>1
      <4>5. cs[k] \in Command BY <1>1, ElementOfSeq DEF n
      <4> HIDE DEF x
      <4>6. CASE cs[k].kind = "Submit"
        <5>1. cs[k].request \in Requests BY <4>5, <4>6 DEF Command
        <5>2. pre \o Append(x, cs[k].request) = Append(pre \o x, cs[k].request)
          BY <1>2, <4>4, <5>1, JoinedMore
        <5>3. QED BY <4>2, <4>3, <4>6, <5>2 DEF After
      <4>7. CASE cs[k].kind # "Submit" BY <4>2, <4>3, <4>7 DEF After
      <4>8. QED BY <4>6, <4>7
    <3>3. QED BY <3>1, <3>2
  <2>2. QED BY <1>5, <2>1 DEF Follows
<1>7. Submits(cs) = h[n] BY <1>6, SubmitsFollows DEF n
<1>8. n \in 1 .. n /\ n - 1 \in 0 .. n - 1 BY <1>1
<1>9. g[n - 1] \in Seq(Requests) BY <1>3, <1>8
<1>10. QED BY <1>4, <1>5, <1>7, <1>8, <1>9 DEF pre, t, c

\* They are the requests submitted.
LEMMA SubmitsAre ==
  ASSUME NEW cs \in Seq(Command)
  PROVE  /\ Submits(cs) \in Seq(Requests)
         /\ Range(Submits(cs)) = {r \in Requests : [kind |-> "Submit", request |-> r] \in Range(cs)}
<1> DEFINE n == Len(cs)
           Sent(k) == {r \in Requests : \E j \in 1 .. k : cs[j] = [kind |-> "Submit", request |-> r]}
<1>1. PICK g \in [0 .. n -> Seq(Requests)] : Follows(g, cs, n) BY FollowsExists
<1>2. Submits(cs) = g[n] BY <1>1, SubmitsFollows
<1>3. n \in Nat /\ DOMAIN cs = 1 .. n /\ \A k \in 1 .. n : cs[k] \in Command OBVIOUS
<1>4. Range(cs) = {cs[j] : j \in 1 .. n} BY <1>3 DEF Range
<1> HIDE DEF n
<1>5. Range(g[0]) = Sent(0)
  <2>1. g[0] = << >> BY <1>1 DEF Follows
  <2>2. 1 .. 0 = {} OBVIOUS
  <2>3. QED BY <2>1, <2>2, Empty
<1>6. ASSUME NEW k \in 1 .. n, Range(g[k - 1]) = Sent(k - 1) PROVE Range(g[k]) = Sent(k)
  <2>1. k - 1 \in 0 .. n /\ g[k - 1] \in Seq(Requests) /\ 1 .. k = 1 .. k - 1 \cup {k}
    BY <1>1, <1>3
  <2>2. g[k] = After(g[k - 1], cs[k]) /\ cs[k] \in Command BY <1>1, <1>3 DEF Follows
  <2>3. Sent(k) = Sent(k - 1) \cup {r \in Requests : cs[k] = [kind |-> "Submit", request |-> r]}
    BY <2>1
  <2> HIDE DEF Sent
  <2>4. CASE cs[k].kind = "Submit"
    <3>1. cs[k] = [kind |-> "Submit", request |-> cs[k].request] /\ cs[k].request \in Requests
      <4>1. cs[k] \in [kind : {"Submit", "Cancel"}, request : Requests] BY <2>2, <2>4 DEF Command
      <4>2. QED BY <2>4, <4>1
    <3>2. {r \in Requests : cs[k] = [kind |-> "Submit", request |-> r]} = {cs[k].request} BY <3>1
    <3>3. Range(g[k]) = Range(g[k - 1]) \cup {cs[k].request} BY <2>1, <2>2, <2>4, <3>1, Put DEF After
    <3>4. QED BY <1>6, <2>3, <3>2, <3>3
  <2>5. CASE cs[k].kind # "Submit"
    <3>1. {r \in Requests : cs[k] = [kind |-> "Submit", request |-> r]} = {} BY <2>5
    <3>2. QED BY <1>6, <2>2, <2>3, <2>5, <3>1 DEF After
  <2>6. QED BY <2>4, <2>5
<1> HIDE DEF Sent
<1>7. Range(g[n]) = Sent(n)
  <2> DEFINE wrong == {k \in 0 .. n : Range(g[k]) # Sent(k)}
  <2>1. SUFFICES ASSUME wrong # {} PROVE FALSE BY <1>3
  <2>2. wrong \in SUBSET Nat BY <1>3
  <2>3. PICK k \in wrong : \A j \in wrong : k <= j BY <2>1, <2>2, SP!NatMin, Valid
  <2>4. k \in 1 .. n /\ k - 1 \in 0 .. n /\ k - 1 \notin wrong BY <1>3, <1>5, <2>3
  <2>5. QED BY <1>6, <2>3, <2>4
<1>8. Submits(cs) \in Seq(Requests) BY <1>1, <1>2, <1>3
<1>9. Sent(n) = {r \in Requests : [kind |-> "Submit", request |-> r] \in Range(cs)} BY <1>4 DEF Sent
<1>10. QED BY <1>2, <1>7, <1>8, <1>9

-----------------------------------------------------------------------------
(* The line of the requests that are not resident.                         *)

LineNow == queue \o Submits(commands)

Accepted(r) == client[r] \notin {"New", "Checked", "Refused"}

Past == {r \in Requests : client[r] \notin {"New", "Checked", "Refused"} /\ ~HasSender(r)}

LineFacts ==
  /\ queue \in Seq(Requests) /\ Submits(commands) \in Seq(Requests)
  /\ LineNow \in Seq(Requests)
  /\ Range(LineNow) = Range(queue) \cup Submitted /\ Range(LineNow) \cap Owned = {}
  /\ Senders = Range(LineNow) \cup Owned
  /\ Owned = held /\ held \subseteq Requests
  /\ Past = {r \in Requests : Accepted(r) /\ r \notin Senders}
  /\ \A r \in Senders : r \in Requests => Accepted(r)
  /\ Range(LineNow) \subseteq Requests

LEMMA LineHas == IInv => LineFacts
<1> SUFFICES ASSUME IInv PROVE LineFacts OBVIOUS
<1>1. queue \in Seq(Requests) /\ commands \in Seq(Command) BY DEF IInv, LoopTypes, ClientTypes
<1>2. /\ Submits(commands) \in Seq(Requests)
      /\ Range(Submits(commands)) = Submitted
  BY <1>1, SubmitsAre DEF Submitted
<1>3. LineNow \in Seq(Requests) /\ Range(LineNow) = Range(queue) \cup Submitted
  BY <1>1, <1>2, Joined DEF LineNow
<1>4. Senders = Range(LineNow) \cup Owned BY <1>3 DEF Senders
<1>5. Owned = held /\ held \subseteq Requests BY DEF IInv, Registered, LoopTypes
<1>6. Past = {r \in Requests : Accepted(r) /\ r \notin Senders}
  BY DEF Past, Accepted, HasSender, Senders
<1>7. \A r \in Senders : r \in Requests => Accepted(r) BY DEF IInv, Heard, Accepted
<1>8. Range(LineNow) \subseteq Requests BY <1>3 DEF Range
<1>9. Range(LineNow) \cap Owned = {} BY <1>3 DEF IInv, OnePlace
<1>10. QED BY <1>1, <1>2, <1>3, <1>4, <1>5, <1>6, <1>7, <1>8, <1>9 DEF LineFacts

LEMMA LineHasNext == IInv' => LineFacts'
BY LineHas, PTL

\* The requests that have come and gone.
LEMMA PastMore ==
  ASSUME IInv, IInv', \A r \in Requests : Accepted(r)' <=> Accepted(r)
  PROVE  /\ Senders' = Senders => Past' = Past
         /\ \A r \in Requests : r \in Senders /\ Senders' = Senders \ {r} => Past' = Past \cup {r}
         /\ Senders' = {} => Past' = Past \cup Senders
<1>1. /\ Past = {r \in Requests : Accepted(r) /\ r \notin Senders}
      /\ Past' = {r \in Requests : Accepted(r)' /\ r \notin Senders'}
      /\ \A r \in Senders : r \in Requests => Accepted(r)
      /\ Senders \subseteq Requests
  BY LineHas, LineHasNext DEF LineFacts
<1>2. QED BY <1>1

\* What a step of the engine is, seen from the line: nothing, the end of a resident
\* request, or a request that leaves.
LEMMA LineStutters ==
  ASSUME IInv, IInv', \A r \in Requests : Accepted(r)' <=> Accepted(r), need' = need,
         LineNow' = LineNow, held' = held
  PROVE  UNCHANGED Line!vars
<1>1. Owned' = Owned /\ Senders' = Senders BY LineHas, LineHasNext DEF LineFacts
<1>2. Past' = Past BY <1>1, PastMore
<1>3. QED BY <1>1, <1>2 DEF Line!vars, LineNow, Past

LEMMA LineFinishes ==
  ASSUME IInv, IInv', \A r \in Requests : Accepted(r)' <=> Accepted(r), need' = need,
         LineNow' = LineNow, NEW r \in held, held' = held \ {r}
  PROVE  Line!Next
<1>1. /\ Owned' = Owned \ {r} /\ r \in Owned /\ r \in Requests
      /\ Senders = Range(LineNow) \cup Owned
      /\ Senders' = Range(LineNow') \cup Owned'
  BY LineHas, LineHasNext DEF LineFacts
<1>2. Range(LineNow) \cap Owned = {} BY LineHas DEF LineFacts
<1>3. Senders' = Senders \ {r} /\ r \in Senders BY <1>1, <1>2
<1>4. Past' = Past \cup {r} BY <1>1, <1>3, PastMore
<1>5. Line!Finish(r) BY <1>1, <1>4 DEF Line!Finish, LineNow, Past
<1>6. QED BY <1>1, <1>5 DEF Line!Next

LEMMA LineLeft ==
  ASSUME IInv, IInv', \A r \in Requests : Accepted(r)' <=> Accepted(r), need' = need, held' = held,
         NEW i \in 1 .. Len(LineNow), LineNow' = RemoveAt(LineNow, i),
         LineNow[i] \notin Range(LineNow')
  PROVE  Line!Next
<1>1. /\ Owned' = Owned
      /\ Senders = Range(LineNow) \cup Owned
      /\ Senders' = Range(LineNow') \cup Owned'
      /\ LineNow \in Seq(Requests) /\ LineNow' \in Seq(Requests)
  BY LineHas, LineHasNext DEF LineFacts
<1> DEFINE r == LineNow[i]
<1>2. i \in DOMAIN LineNow /\ r \in Requests /\ r \in Range(LineNow)
  <2>1. i \in DOMAIN LineNow /\ r \in Requests BY <1>1
  <2>2. QED BY <2>1 DEF Range
<1>3. r \notin Owned BY <1>2, LineHas DEF LineFacts
<1>4. Range(LineNow) = Range(LineNow') \cup {r}
  <2>1. Len(LineNow) \in Nat /\ DOMAIN LineNow = 1 .. Len(LineNow) BY <1>1
  <2>2. /\ LineNow' \in Seq(Requests) /\ Len(LineNow') = Len(LineNow) - 1
        /\ \A k \in 1 .. Len(LineNow) - 1 : LineNow'[k] = IF k < i THEN LineNow[k] ELSE LineNow[k + 1]
    BY <1>1, WithoutOne
  <2>3. DOMAIN LineNow' = 1 .. Len(LineNow) - 1 BY <2>1, <2>2
  <2>4. ASSUME NEW k \in DOMAIN LineNow PROVE LineNow[k] \in Range(LineNow') \cup {r}
    <3>1. CASE k < i
      <4>1. k \in DOMAIN LineNow' /\ LineNow'[k] = LineNow[k] BY <2>1, <2>2, <2>3, <3>1
      <4>2. QED BY <4>1 DEF Range
    <3>2. CASE k = i BY <3>2
    <3>3. CASE i < k
      <4>1. k - 1 \in DOMAIN LineNow' /\ ~(k - 1 < i) /\ (k - 1) + 1 = k BY <2>1, <2>2, <2>3, <3>3
      <4>2. LineNow'[k - 1] = LineNow[k] BY <2>2, <2>3, <4>1
      <4>3. QED BY <4>1, <4>2 DEF Range
    <3>4. QED BY <2>1, <3>1, <3>2, <3>3
  <2>5. ASSUME NEW k \in DOMAIN LineNow' PROVE LineNow'[k] \in Range(LineNow)
    <3>1. k \in DOMAIN LineNow /\ k + 1 \in DOMAIN LineNow BY <2>1, <2>3
    <3>2. LineNow'[k] = LineNow[k] \/ LineNow'[k] = LineNow[k + 1] BY <2>2, <2>3
    <3>3. QED BY <3>1, <3>2 DEF Range
  <2>6. QED BY <1>2, <2>4, <2>5 DEF Range
<1>5. Senders' = Senders \ {r} /\ r \in Senders BY <1>1, <1>2, <1>3, <1>4
<1>6. Past' = Past \cup {r} BY <1>2, <1>5, PastMore
<1>7. Line!RemoveAt(LineNow, i) = RemoveAt(LineNow, i) BY DEF Line!RemoveAt, RemoveAt
<1>8. Line!Leave(i) BY <1>1, <1>6, <1>7 DEF Line!Leave, LineNow, Past
<1>9. QED BY <1>2, <1>8 DEF Line!Next, LineNow

\* A request is submitted, unless the channel is full or closed.
LEMMA LineJoins ==
  ASSUME IInv, IInv', NEW r \in Requests, Submit(r)
  PROVE  [Line!Next]_(Line!vars)
<1>1. client[r] = "Checked" /\ UNCHANGED queue /\ UNCHANGED held
  BY DEF Submit, engineSide
<1>2. CASE client' = [client EXCEPT ![r] = "Refused"] /\ UNCHANGED <<commands, demand>>
  <2>1. client \in [Requests -> {"New", "Checked", "Refused", "Reading", "Told", "Closed", "Gone"}]
    BY DEF IInv, ClientTypes
  <2>2. \A s \in Requests : Accepted(s)' <=> Accepted(s) BY <1>1, <1>2, <2>1 DEF Accepted
  <2>3. LineNow' = LineNow /\ need' = need BY <1>1, <1>2 DEF LineNow, demand
  <2>4. QED BY <1>1, <2>2, <2>3, LineStutters
<1>3. CASE /\ client' = [client EXCEPT ![r] = "Reading"]
           /\ commands' = Append(commands, [kind |-> "Submit", request |-> r])
           /\ need' \in {[need EXCEPT ![r] = n] : n \in PageDemands}
  <2> DEFINE c == [kind |-> "Submit", request |-> r]
  <2>1. c \in Command /\ c.kind = "Submit" /\ c.request = r BY DEF Command
  <2>2. commands \in Seq(Command) BY DEF IInv, ClientTypes
  <2>3. Submits(commands') = Append(Submits(commands), r)
    <3>1. commands' = Append(commands, c) BY <1>3
    <3> HIDE DEF c
    <3>2. Submits(commands') = After(Submits(commands), c) BY <2>1, <2>2, <3>1, SubmitsAppend
    <3>3. QED BY <2>1, <3>2 DEF After
  <2>4. LineNow' = Append(LineNow, r)
    <3>1. queue \in Seq(Requests) /\ Submits(commands) \in Seq(Requests)
      BY LineHas DEF LineFacts
    <3>2. queue \o Append(Submits(commands), r) = Append(queue \o Submits(commands), r)
      BY <3>1, JoinedMore
    <3>3. QED BY <1>1, <2>3, <3>2 DEF LineNow
  <2>5. /\ Owned' = Owned /\ Senders = Range(LineNow) \cup Owned
        /\ Senders' = Range(LineNow') \cup Owned'
        /\ Past = {s \in Requests : Accepted(s) /\ s \notin Senders}
        /\ Past' = {s \in Requests : Accepted(s)' /\ s \notin Senders'}
        /\ \A s \in Senders : s \in Requests => Accepted(s)
        /\ LineNow \in Seq(Requests)
    BY <1>1, LineHas, LineHasNext DEF LineFacts
  <2>6. Range(LineNow') = Range(LineNow) \cup {r} BY <2>4, <2>5, Put
  <2>7. /\ client'[r] = "Reading" /\ \A s \in Requests \ {r} : client'[s] = client[s]
    BY <1>3 DEF IInv, ClientTypes
  <2>8. ~Accepted(r) /\ \A s \in Requests \ {r} : Accepted(s)' <=> Accepted(s)
    BY <1>1, <2>7 DEF Accepted
  <2>9. r \notin Range(LineNow) \cup Owned \cup Past /\ Past' = Past BY <2>5, <2>6, <2>8
  <2>10. need' \in [Requests -> Nat] /\ \A s \in Requests \ {r} : need'[s] = need[s]
    <3>1. need \in [Requests -> Nat] /\ PageDemands \subseteq Nat
      <4>1. need \in [Requests -> PageDemands \cup {0}] BY DEF IInv, ClientTypes
      <4>2. PageDemands \cup {0} \subseteq Nat BY EngineAssumption
      <4>3. QED BY <4>1, <4>2
    <3>2. QED BY <1>3, <3>1
  <2>11. Line!Range(LineNow) = Range(LineNow) BY DEF Line!Range, Range
  <2>12. Line!Join(r) BY <2>4, <2>5, <2>9, <2>10, <2>11 DEF Line!Join, LineNow, Past
  <2>13. QED BY <2>12 DEF Line!Next
<1>4. QED BY <1>2, <1>3 DEF Submit

\* Only the head is admitted, and into what is free.
LEMMA LineAdmits ==
  ASSUME IInv, IInv', Enough, ReserveHead
  PROVE  Line!Next
<1> DEFINE r == Head(queue)
<1>1. /\ UNCHANGED client /\ UNCHANGED <<commands, need>>
      /\ pc = "admit" /\ active < MaxActiveSequences /\ queue # << >> /\ queue' = Tail(queue)
      /\ held' = held \cup {r} /\ Fits(r)
  BY DEF ReserveHead, CanAdmit, channel, clients, demand
<1>2. /\ queue \in Seq(Requests) /\ Submits(commands) \in Seq(Requests)
      /\ Owned = held /\ Owned' = held' /\ held \subseteq Requests
      /\ Senders = Range(LineNow) \cup Owned
      /\ Senders' = Range(LineNow') \cup Owned'
      /\ Range(LineNow) = Range(queue) \cup Submitted
      /\ Range(LineNow') = Range(queue') \cup Submitted'
      /\ Range(LineNow) \cap Owned = {}
  BY LineHas, LineHasNext DEF LineFacts
<1>3. /\ r \in Requests /\ r \in Range(queue) /\ Range(queue) = Range(queue') \cup {r}
  BY <1>1, <1>2, Taken
<1>4. LineNow # << >> /\ Head(LineNow) = r /\ LineNow' = Tail(LineNow)
  <2> DEFINE s == Submits(commands)
  <2>1. s \in Seq(Requests) BY <1>2
  <2>2. LineNow = queue \o s /\ LineNow' = Tail(queue) \o s BY <1>1 DEF LineNow
  <2> HIDE DEF s
  <2>3. queue \o s # << >> /\ Head(queue \o s) = Head(queue) /\ Tail(queue \o s) = Tail(queue) \o s
    <3>1. queue \in Seq(Requests) /\ queue # << >> BY <1>1, <1>2
    <3>2. QED BY ONLY <2>1, <3>1, JoinedHead
  <2>4. QED BY <2>2, <2>3
<1> HIDE DEF r
<1>5. Past' = Past
  <2>1. Submitted' = Submitted BY <1>1 DEF Submitted
  <2>2. Senders' = Senders BY <1>1, <1>2, <1>3, <2>1
  <2>3. \A s \in Requests : Accepted(s)' <=> Accepted(s) BY <1>1 DEF Accepted
  <2>4. QED BY <2>2, <2>3, PastMore
<1>6. Line!Cardinality(Owned') <= MaxActiveSequences
  <2>1. SP!AdmittedSet = Owned
    <3>1. \A s \in Requests : phase[s] \notin {"Absent", "Waiting"} <=> s \in Owned
      BY <1>1 DEF IInv, Registered
    <3>2. QED BY <1>2, <3>1 DEF SP!AdmittedSet, SP!Admitted
  <2>2. active = Cardinality(Owned) /\ active \in Nat /\ MaxActiveSequences \in Nat
    BY <2>1, EngineAssumption
    DEF IInv, SP!Inv, SP!ActiveExact, SP!TypeOK, SP!Cardinality, Cardinality, S!IsValid
  <2>3. IsFiniteSet(Owned)
    <3>1. SP!IsFiniteSet(held) BY Demands
    <3>2. QED BY <1>2, <3>1 DEF SP!IsFiniteSet, IsFiniteSet
  <2>4. Owned' = Owned \cup {r} /\ r \notin Owned BY <1>1, <1>2, <1>3
  <2>5. Cardinality(Owned') = active + 1 BY <2>2, <2>3, <2>4, FS_AddElement
  <2>6. Cardinality(Owned') <= MaxActiveSequences BY <1>1, <2>2, <2>5
  <2>7. QED BY <2>6 DEF Line!Cardinality, Cardinality
<1>7. Line!FoldFunctionOnSet(LAMBDA n, sum : n + sum, 0, need, Owned') <= NumPages
  <2>1. Enough' BY <1>1, EnoughInv DEF Next, EngineStep
  <2>2. SP!Total(need', held') <= NumPages BY <2>1, HeldTotalNext DEF Enough, HeldIsTotal
  <2>3. SP!Total(need, Owned') <= NumPages BY <1>1, <1>2, <2>2
  <2>4. QED
    BY <2>3 DEF SP!Total, Line!FoldFunctionOnSet, SP!FoldFunctionOnSet,
                Line!MapThenFoldSet, SP!MapThenFoldSet
<1>8. Owned' = Owned \cup {Head(LineNow)} BY <1>1, <1>2, <1>4
<1>9. Line!Admit BY <1>1, <1>4, <1>5, <1>6, <1>7, <1>8 DEF Line!Admit, LineNow, Past
<1>10. QED BY <1>9 DEF Line!Next

\* The end of the thread sends away whoever is still behind a command.
LEMMA LineCloses ==
  ASSUME IInv, IInv', Stop
  PROVE  Line!Next
<1>1. /\ UNCHANGED client /\ UNCHANGED <<queue, held, need>> /\ pc = "stopping"
      /\ activeRequests = {} /\ queue = << >> /\ commands' = << >>
  BY DEF Stop, clients, demand
<1>2. /\ Owned = held /\ Owned' = held'
      /\ Senders = Range(LineNow) \cup Owned
      /\ Senders' = Range(LineNow') \cup Owned'
  BY LineHas, LineHasNext DEF LineFacts
<1>3. Owned = {} BY <1>1, AtRest
<1>4. LineNow' = << >>
  <2>1. << >> \o << >> = << >> BY EmptySeq, ConcatEmptySeq
  <2>2. QED BY <1>1, <2>1, SubmitsNone DEF LineNow
<1>5. Senders' = {} BY <1>1, <1>2, <1>3, <1>4, Empty
<1>6. \A s \in Requests : Accepted(s)' <=> Accepted(s) BY <1>1 DEF Accepted
<1>7. Past' = Past \cup Range(LineNow) BY <1>2, <1>3, <1>5, <1>6, PastMore
<1>8. Owned' = Owned /\ Line!Range(LineNow) = Range(LineNow)
  BY <1>1, <1>2 DEF Line!Range, Range
<1>9. Line!Close BY <1>1, <1>3, <1>4, <1>7, <1>8 DEF Line!Close, LineNow, Past
<1>10. QED BY <1>9 DEF Line!Next

\* The head of the queue is answered.
LEMMA LineHeadLeaves ==
  ASSUME IInv, IInv', queue # << >>, queue' = Tail(queue),
         UNCHANGED <<commands, client, need, held>>
  PROVE  Line!Next
<1> DEFINE r == Head(queue)
<1>1. /\ queue \in Seq(Requests) /\ Submits(commands) \in Seq(Requests) /\ IsInjective(queue)
      /\ Range(LineNow') = Range(queue') \cup Submitted'
  BY LineHas, LineHasNext DEF LineFacts, IInv, OnePlace
<1>2. r \in Range(queue) /\ Range(queue') = Range(queue) \ {r} BY <1>1, Taken
<1>3. 1 \in 1 .. Len(queue) /\ r = queue[1]
  <2>1. Len(queue) \in Nat \ {0} BY <1>1, EmptySeq
  <2>2. QED BY <2>1
<1>4. 1 \in 1 .. Len(LineNow) /\ LineNow[1] = r /\ RemoveAt(LineNow, 1) = LineNow'
  <2>1. /\ 1 \in 1 .. Len(queue \o Submits(commands)) /\ (queue \o Submits(commands))[1] = queue[1]
        /\ RemoveAt(queue \o Submits(commands), 1) = Tail(queue) \o Submits(commands)
    <3> DEFINE s == Submits(commands)
    <3>1. s \in Seq(Requests) BY <1>1
    <3> HIDE DEF s
    <3>2. (queue \o s)[1] = queue[1] BY <1>1, <1>3, <3>1, WithoutLeft
    <3>3. 1 \in 1 .. Len(queue \o s) /\ RemoveAt(queue \o s, 1) = Tail(queue) \o s
      BY <1>1, <3>1, JoinedHead
    <3>4. QED BY <3>2, <3>3 DEF s
  <2>2. LineNow' = Tail(queue) \o Submits(commands) BY DEF LineNow
  <2>3. QED BY <1>3, <2>1, <2>2 DEF LineNow
<1> HIDE DEF r
<1>5. Submitted' = Submitted /\ r \notin Submitted
  BY <1>2 DEF Submitted, IInv, OnePlace
<1>6. r \notin Range(LineNow') BY <1>1, <1>2, <1>5
<1>7. \A s \in Requests : Accepted(s)' <=> Accepted(s) BY DEF Accepted
<1>8. QED BY <1>4, <1>6, <1>7, LineLeft

\* A command moves its request from the channel into the queue, or sends it away, or
\* takes another one out.
LEMMA LineCommands ==
  ASSUME IInv, IInv', HandleCommand
  PROVE  [Line!Next]_(Line!vars)
<1> DEFINE c == Head(commands)
           s == Submits(commands)
           t == Submits(commands')
<1>1. /\ commands # << >> /\ commands' = Tail(commands) /\ UNCHANGED client /\ need' = need
  BY DEF HandleCommand, clock, demand
<1>2. \A r \in Requests : Accepted(r)' <=> Accepted(r) BY <1>1 DEF Accepted
<1>3. SubmitsOnce /\ commands \in Seq(Command) BY DEF IInv, OnePlace, SubmitsOnce, ClientTypes
<1>4. /\ c \in Command
      /\ c.kind = "Submit" =>
           c.request \in Requests \cap Submitted /\ Submitted' = Submitted \ {c.request}
      /\ c.kind # "Submit" => Submitted' = Submitted
  BY <1>1, <1>3, CommandTaken DEF IInv
<1>5. t \in Seq(Requests) /\ s = After(<< >>, c) \o t
  BY <1>1, <1>3, SubmitsTail
<1>6. /\ queue \in Seq(Requests) /\ s \in Seq(Requests) /\ IsInjective(queue)
      /\ Range(LineNow') = Range(queue') \cup Submitted'
      /\ LineNow = queue \o s /\ LineNow' = queue' \o t
      /\ Owned = held /\ Submitted \cap Range(queue) = {}
  BY LineHas, LineHasNext DEF LineFacts, LineNow, IInv, OnePlace
<1>7. \/ c.kind = "Submit" /\ HandleSubmit(c.request)
      \/ c.kind = "Cancel" /\ HandleCancel(c.request)
      \/ c.kind = "Shutdown" /\ HandleShutdown
  BY DEF HandleCommand
<1> HIDE DEF c, s, t
<1>8. ASSUME c.kind # "Submit", queue' = queue PROVE LineNow' = LineNow
  <2>1. s = t BY <1>5, <1>8, ConcatEmptySeq DEF After
  <2>2. QED BY <1>6, <1>8, <2>1
<1>9. CASE c.kind = "Submit" /\ HandleSubmit(c.request)
  <2> DEFINE r == c.request
  <2>1. r \in Requests /\ r \in Submitted /\ Submitted' = Submitted \ {r} /\ held' = held
    BY <1>4, <1>9 DEF HandleSubmit
  <2>2. s = <<r>> \o t BY <1>5, <1>9 DEF After
  <2>3. s # << >> /\ Head(s) = r /\ Tail(s) = t
    <3>1. /\ <<r>> \in Seq(Requests) /\ <<r>> # << >> /\ Head(<<r>>) = r /\ Tail(<<r>>) = << >>
      BY <2>1, Single
    <3>2. << >> \o t = t BY <1>5, ConcatEmptySeq
    <3>3. QED BY <1>5, <2>2, <3>1, <3>2, JoinedHead
  <2> HIDE DEF r
  <2>4. CASE queue' = Append(queue, r)
    <3>1. Append(queue, Head(s)) \o Tail(s) = queue \o s BY <1>6, <2>3, JoinedMoves
    <3>2. LineNow' = LineNow BY <1>6, <2>3, <2>4, <3>1
    <3>3. QED BY <1>1, <1>2, <2>1, <3>2, LineStutters
  <2>5. CASE queue' = queue
    <3>1. /\ Len(queue) + 1 \in 1 .. Len(LineNow) /\ LineNow[Len(queue) + 1] = r
          /\ RemoveAt(LineNow, Len(queue) + 1) = LineNow'
      BY <1>6, <2>3, <2>5, WithoutNext
    <3>2. r \notin Range(LineNow') BY <1>6, <2>1, <2>5
    <3>3. QED BY <1>1, <1>2, <2>1, <3>1, <3>2, LineLeft
  <2>6. QED BY <1>9, <2>4, <2>5 DEF HandleSubmit, r
<1>10. CASE c.kind = "Cancel" /\ HandleCancel(c.request)
  <2> DEFINE r == c.request
  <2>1. r \in Requests /\ Submitted' = Submitted BY <1>4, <1>10 DEF Command
  <2>2. s = t BY <1>5, <1>10, ConcatEmptySeq DEF After
  <2>3. \/ r \in activeRequests /\ CancelActive(r) /\ queue' = queue
        \/ r \in Range(queue) /\ queue' = RemoveFirst(queue, r) /\ held' = held
        \/ queue' = queue /\ held' = held
    BY <1>10 DEF HandleCancel
  <2> HIDE DEF r
  <2>4. CASE r \in activeRequests /\ CancelActive(r) /\ queue' = queue
    <3>1. r \in held /\ held' = held \ {r} BY <1>6, <2>4 DEF Owned, CancelActive, Release
    <3>2. QED BY <1>1, <1>2, <1>8, <1>10, <2>4, <3>1, LineFinishes
  <2>5. CASE r \in Range(queue) /\ queue' = RemoveFirst(queue, r) /\ held' = held
    <3>1. PICK i \in 1 .. Len(queue) : queue[i] = r /\ RemoveFirst(queue, r) = RemoveAt(queue, i)
      BY <1>6, <2>5, RemovedAt
    <3>2. /\ i \in 1 .. Len(LineNow) /\ LineNow[i] = r
          /\ RemoveAt(LineNow, i) = LineNow'
      <4>1. /\ i \in 1 .. Len(queue \o s) /\ (queue \o s)[i] = queue[i]
            /\ RemoveAt(queue \o s, i) = RemoveAt(queue, i) \o s
        BY <1>6, WithoutLeft
      <4>2. LineNow' = RemoveAt(queue, i) \o s BY <1>6, <2>2, <2>5, <3>1
      <4>3. QED BY <1>6, <3>1, <4>1, <4>2
    <3>3. Range(queue') = Range(queue) \ {r} BY <1>6, <2>5, Removed
    <3>4. r \notin Range(LineNow') BY <1>6, <2>1, <2>5, <3>3
    <3>5. QED BY <1>1, <1>2, <2>5, <3>2, <3>4, LineLeft
  <2>6. CASE queue' = queue /\ held' = held
    BY <1>1, <1>2, <1>8, <1>10, <2>6, LineStutters
  <2>7. QED BY <2>3, <2>4, <2>5, <2>6
<1>11. CASE c.kind = "Shutdown" /\ HandleShutdown
  <2>1. queue' = queue /\ held' = held BY <1>11 DEF HandleShutdown
  <2>2. QED BY <1>1, <1>2, <1>8, <1>11, <2>1, LineStutters
<1>12. QED BY <1>7, <1>9, <1>10, <1>11

\* Where the queue is left alone, so is the line, and pages only come free.
LEMMA LineElsewhere ==
  ASSUME IInv, IInv', UNCHANGED <<commands, queue, client, need>>,
         held' = held \/ \E r \in held : held' = held \ {r}
  PROVE  [Line!Next]_(Line!vars)
<1>1. \A r \in Requests : Accepted(r)' <=> Accepted(r) BY DEF Accepted
<1>2. LineNow' = LineNow BY DEF LineNow
<1>3. QED BY <1>1, <1>2, LineStutters, LineFinishes

LEMMA LineOfEngine ==
  ASSUME IInv, IInv', Enough, EngineStep
  PROVE  [Line!Next]_(Line!vars)
<1>1. \A r \in activeRequests : r \in held BY DEF IInv, Registered, Owned
<1>2. rows # << >> => Head(rows) \in held BY FirstRow DEF IInv, Registered
<1>3. CASE DrainCommand \/ WakeUp BY <1>3, LineCommands DEF DrainCommand, WakeUp
<1>4. CASE \/ DrainDone \/ CollectExpired \/ AdmitDone \/ HeadBlocked \/ AdmitReserved \/ MakePlan
           \/ RunDecode \/ DecodeDone \/ StableContinue \/ StableYield \/ ReturnSurvivor
           \/ RunPrefill \/ PrefillRow \/ PrefillDone \/ EndIteration
  <2>1. UNCHANGED <<commands, queue, client, need, held>>
    BY <1>4 DEF DrainDone, CollectExpired, AdmitDone, HeadBlocked, GoPlan, AdmitReserved, MakePlan,
                RunDecode, DecodeDone, StableContinue, StableYield, ReturnSurvivor, RunPrefill,
                PrefillRow, PrefillDone, EndIteration, channel, clients, clock, demand
  <2>2. QED BY <2>1, LineElsewhere
<1>5. CASE \E r \in Requests : CancelExpired(r) \/ StopActive(r)
  <2>1. PICK r \in Requests : CancelExpired(r) \/ StopActive(r) BY <1>5
  <2>2. r \in held BY <1>1, <2>1 DEF CancelExpired, StopActive, IInv, NamesActive
  <2>3. UNCHANGED <<commands, queue, client, need>> /\ held' = held \ {r}
    BY <2>1 DEF CancelExpired, StopActive, CancelActive, Release, channel, clock, demand
  <2>4. QED BY <2>2, <2>3, LineElsewhere
<1>6. CASE DecodeRow \/ CheckRow \/ RemoveRow \/ CompleteActive \/ FailRow
  <2>1. UNCHANGED <<commands, queue, client, need>>
    BY <1>6 DEF DecodeRow, CheckRow, RemoveRow, CompleteActive, FailRow, channel, clock, demand
  <2>2. held' = held \/ (rows # << >> /\ held' = held \ {Head(rows)})
    BY <1>6 DEF DecodeRow, CheckRow, RemoveRow, CompleteActive, FailRow, CancelActive,
                DropUndelivered, Release, IInv, Where
  <2>3. QED BY <1>2, <2>1, <2>2, LineElsewhere
<1>7. CASE AnswerHead
  <2>1. PICK event \in Terminal : Answer(event) BY <1>7 DEF AnswerHead, Terminal
  <2>2. queue # << >> /\ queue' = Tail(queue) /\ UNCHANGED <<commands, client, need, held>>
    BY <1>7, <2>1 DEF AnswerHead, CanAdmit, Answer, channel, clock, demand
  <2>3. QED BY <2>2, LineHeadLeaves
<1>8. CASE StopPending
  BY <1>8, LineHeadLeaves DEF StopPending, channel, clock, demand
<1>9. CASE ReserveHead BY <1>9, LineAdmits
<1>10. CASE Stop BY <1>10, LineCloses
<1>11. QED BY <1>3, <1>4, <1>5, <1>6, <1>7, <1>8, <1>9, <1>10 DEF EngineStep

LEMMA LineOfTasks ==
  ASSUME IInv, IInv', Environment
  PROVE  [Line!Next]_(Line!vars)
<1>1. client \in [Requests -> {"New", "Checked", "Refused", "Reading", "Told", "Closed", "Gone"}]
      /\ commands \in Seq(Command)
  BY DEF IInv, ClientTypes
<1>2. ASSUME UNCHANGED <<queue, held, need>>, NEW r \in Requests, NEW c \in Command,
             commands' = commands \/ commands' = Append(commands, c), c.kind # "Submit",
             \A s \in Requests \ {r} : client'[s] = client[s],
             Accepted(r)' <=> Accepted(r)
      PROVE  [Line!Next]_(Line!vars)
  <2>1. \A s \in Requests : Accepted(s)' <=> Accepted(s) BY <1>2 DEF Accepted
  <2>2. Submits(commands') = Submits(commands) BY <1>1, <1>2, SubmitsAppend DEF After
  <2>3. LineNow' = LineNow BY <1>2, <2>2 DEF LineNow
  <2>4. QED BY <1>2, <2>1, <2>3, LineStutters
<1>3. ASSUME NEW r \in Requests, CheckReady(r) PROVE [Line!Next]_(Line!vars)
  <2> DEFINE c == [kind |-> "Shutdown"]
  <2>1. c \in Command /\ c.kind # "Submit" BY DEF Command
  <2>2. UNCHANGED <<queue, held, need, commands>> BY <1>3 DEF CheckReady, engineSide, demand
  <2>3. /\ \A s \in Requests \ {r} : client'[s] = client[s]
        /\ Accepted(r)' <=> Accepted(r)
    BY <1>1, <1>3 DEF CheckReady, Accepted
  <2> HIDE DEF c
  <2>4. QED BY <1>2, <2>1, <2>2, <2>3
<1>4. ASSUME NEW r \in Requests, Receive(r) PROVE [Line!Next]_(Line!vars)
  <2> DEFINE c == [kind |-> "Shutdown"]
  <2>1. c \in Command /\ c.kind # "Submit" BY DEF Command
  <2>2. UNCHANGED <<queue, held, need, commands>> BY <1>4 DEF Receive, engineSide, demand
  <2>3. /\ \A s \in Requests \ {r} : client'[s] = client[s]
        /\ Accepted(r)' <=> Accepted(r)
    BY <1>1, <1>4 DEF Receive, Accepted
  <2> HIDE DEF c
  <2>4. QED BY <1>2, <2>1, <2>2, <2>3
<1>5. ASSUME NEW r \in Requests, SeeClosed(r) \/ Disconnect(r) PROVE [Line!Next]_(Line!vars)
  <2> DEFINE c == [kind |-> "Cancel", request |-> r]
  <2>1. c \in Command /\ c.kind # "Submit" BY DEF Command
  <2>2. PICK outcome \in {"Closed", "Gone"} : CancelGuard(r, outcome) /\ client[r] = "Reading"
    BY <1>5 DEF SeeClosed, Disconnect
  <2>3. UNCHANGED <<queue, held, need>> BY <2>2 DEF CancelGuard, engineSide, demand
  <2>4. commands' = commands \/ commands' = Append(commands, c) BY <2>2 DEF CancelGuard, TrySend
  <2>5. /\ \A s \in Requests \ {r} : client'[s] = client[s]
        /\ Accepted(r)' <=> Accepted(r)
    BY <1>1, <2>2 DEF CancelGuard, Accepted
  <2> HIDE DEF c
  <2>6. QED BY <1>2, <2>1, <2>3, <2>4, <2>5
<1>6. ASSUME \/ RequestShutdown \/ ClockTicks
             \/ \E r \in Requests : DeadlinePasses(r) \/ AdmissionWaitPasses(r)
      PROVE  [Line!Next]_(Line!vars)
  <2> DEFINE c == [kind |-> "Shutdown"]
  <2>1. c \in Command /\ c.kind # "Submit" BY DEF Command
  <2>2. UNCHANGED <<queue, held, need, client>>
    BY <1>6 DEF RequestShutdown, ClockTicks, DeadlinePasses, AdmissionWaitPasses, engineSide,
                clients, demand
  <2>3. commands' = commands \/ commands' = Append(commands, c)
    BY <1>6 DEF RequestShutdown, ClockTicks, DeadlinePasses, AdmissionWaitPasses
  <2> HIDE DEF c
  <2>4. \A s \in Requests : Accepted(s)' <=> Accepted(s) BY <2>2 DEF Accepted
  <2>5. Submits(commands') = Submits(commands) BY <1>1, <2>1, <2>3, SubmitsAppend DEF After
  <2>6. LineNow' = LineNow BY <2>2, <2>5 DEF LineNow
  <2>7. QED BY <2>2, <2>4, <2>6, LineStutters
<1>7. QED BY <1>3, <1>4, <1>5, <1>6, LineJoins DEF Environment

(* Admission is one line: whatever waits, is cancelled, expires or does    *)
(* not fit, and however the tasks interleave with run_loop, the requests   *)
(* become resident in the order in which their commands were sent, within  *)
(* max_active and the arena.                                               *)
THEOREM InOrder == Spec => AdmissionInOrder
<1>1. Init => Line!Init
  <2> SUFFICES ASSUME Init PROVE Line!Init OBVIOUS
  <2>1. /\ queue = << >> /\ commands = << >> /\ rows = << >> /\ survivors = << >>
        /\ activeRequests = {} /\ need = [r \in Requests |-> 0]
        /\ \A r \in Requests : client[r] = "New"
    BY DEF Init
  <2>2. queue \o Submits(commands) = << >>
    <3>1. << >> \o << >> = << >> BY EmptySeq, ConcatEmptySeq
    <3>2. QED BY <2>1, <3>1, SubmitsNone
  <2>3. Owned = {} BY <2>1, Empty DEF Owned
  <2>4. {r \in Requests : client[r] \notin {"New", "Checked", "Refused"} /\ ~HasSender(r)} = {}
    BY <2>1
  <2>5. QED BY <2>1, <2>2, <2>3, <2>4 DEF Line!Init
<1>2. IInv /\ Enough /\ [Next]_vars => [Line!Next]_(Line!vars)
  <2> SUFFICES ASSUME IInv, Enough, [Next]_vars PROVE [Line!Next]_(Line!vars) OBVIOUS
  <2>1. IInv' BY NextInv
  <2>2. CASE Over \/ UNCHANGED vars
    <3>1. UNCHANGED <<commands, queue, client, need, held>>
      BY <2>2 DEF Over, vars, clients, demand
    <3>2. QED BY <2>1, <3>1, LineElsewhere
  <2>3. QED BY <2>1, <2>2, LineOfEngine, LineOfTasks DEF Next
<1>3. QED BY <1>1, <1>2, Invariance, ArenaSuffices, PTL DEF Spec, AdmissionInOrder, Line!Spec
=============================================================================
