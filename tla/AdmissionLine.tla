--------------------------- MODULE AdmissionLine ---------------------------
(***************************************************************************)
(* What the engine promises about admission: accepted requests form one    *)
(* line.  A request may leave the line at any place without being served,  *)
(* but only its head becomes resident, and only when the resident requests *)
(* stay within the limits of the engine.  Each request comes by once, and  *)
(* the line as a whole is sent away only when nobody is resident.          *)
(***************************************************************************)
EXTENDS Integers, Sequences, FiniteSets, SequencesExt

CONSTANTS Requests, MaxActiveSequences, NumPages

VARIABLES
  line,      \* accepted requests that are not resident yet, in order
  resident,  \* requests that hold pages
  need,      \* pages a request takes while it is resident
  past       \* requests that have come and gone

vars == <<line, resident, need, past>>

Init ==
  /\ line = << >>
  /\ resident = {}
  /\ need = [r \in Requests |-> 0]
  /\ past = {}

Join(r) ==
  /\ r \notin Range(line) \cup resident \cup past
  /\ line' = Append(line, r)
  /\ need' \in [Requests -> Nat]
  /\ \A q \in Requests \ {r} : need'[q] = need[q]
  /\ UNCHANGED <<resident, past>>

Leave(i) ==
  /\ line' = RemoveAt(line, i)
  /\ past' = past \cup {line[i]}
  /\ UNCHANGED <<resident, need>>

Close ==
  /\ resident = {}
  /\ line' = << >>
  /\ past' = past \cup Range(line)
  /\ UNCHANGED <<resident, need>>

Admit ==
  /\ line # << >>
  /\ resident' = resident \cup {Head(line)}
  /\ Cardinality(resident') <= MaxActiveSequences
  /\ FoldFunctionOnSet(LAMBDA n, sum : n + sum, 0, need, resident') <= NumPages
  /\ line' = Tail(line)
  /\ UNCHANGED <<need, past>>

Finish(r) ==
  /\ r \in resident
  /\ resident' = resident \ {r}
  /\ past' = past \cup {r}
  /\ UNCHANGED <<line, need>>

Next ==
  \/ \E r \in Requests : Join(r) \/ Finish(r)
  \/ \E i \in DOMAIN line : Leave(i)
  \/ Admit
  \/ Close

Spec == Init /\ [][Next]_vars
=============================================================================
