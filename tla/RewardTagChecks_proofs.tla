------------------------ MODULE RewardTagChecks_proofs ------------------------
(***************************************************************************)
(* Proofs that, for any tags and any number of instances, a check that was *)
(* overtaken by a person or a new tag changes nothing, and that the watched *)
(* period always rests on what was seen.                                   *)
(***************************************************************************)
EXTENDS RewardTagChecks, TLAPS

\* Rows and passes that every step writes have their types.
RowType == [status : {"PENDING", "VERIFIED", "MISSING", "ERROR"}, first : BOOLEAN, mature : BOOLEAN,
            due : BOOLEAN]
PassType == [stage : {"idle", "program", "leased", "answered"}, tag : Tags \cup {NoTag},
             holds : BOOLEAN, answer : {"none", "found", "missing", "error"}]

\* A pass that was overtaken no longer holds the row; a pass looks for a tag.
LeasesInv ==
    /\ \A w \in overruled : ~check[w].holds
    /\ \A w \in Workers : check[w].stage # "idle" => check[w].tag \in Tags

Inv == TypeOK /\ LeasesInv /\ PeriodIsEvidenced

\* Passing the row on keeps every pass a pass.
LEMMA MovedType ==
    ASSUME TypeOK
    PROVE  /\ Moved \in [Workers -> PassType]
           /\ \A w \in Workers : /\ ~Moved[w].holds /\ Moved[w].stage = check[w].stage
                                 /\ Moved[w].tag = check[w].tag
BY ZenonT(60) DEF TypeOK, Moved, PassType

\* A pass that does not hold the row ends, or goes on without taking it.
LEMMA PassStep ==
    ASSUME Inv, NEW w \in Workers, NEW to \in PassType, Step(w, to), to.holds => check[w].holds,
           to.stage # "idle" => to.tag \in Tags,
           UNCHANGED <<calm, tag, active, name, row, paid, streak>>,
           overruled' \subseteq overruled
    PROVE  Inv'
<1>1. check' \in [Workers -> PassType] /\ check'[w] = to /\ \A v \in Workers \ {w} : check'[v] = check[v]
  BY DEF Step, Inv, TypeOK, PassType
<1>2. TypeOK'
  BY <1>1 DEF Inv, TypeOK, PassType
<1>3. LeasesInv'
  BY <1>1 DEF Inv, TypeOK, LeasesInv
<1>4. PeriodIsEvidenced'
  BY DEF Inv, PeriodIsEvidenced
<1> QED
  BY <1>2, <1>3, <1>4 DEF Inv

LEMMA InvInit == Init => Inv
<1> SUFFICES ASSUME Init PROVE Inv
  OBVIOUS
<1>1. TypeOK
  BY DEF Init, TypeOK, Idle
<1>2. LeasesInv /\ PeriodIsEvidenced
  BY DEF Init, Idle, LeasesInv, PeriodIsEvidenced
<1> QED
  BY <1>1, <1>2 DEF Inv

LEMMA InvStep == Inv /\ [Next]_vars => Inv'
<1> SUFFICES ASSUME Inv, [Next]_vars PROVE Inv'
  OBVIOUS
<1> USE DEF Inv
<1>1. CASE UNCHANGED vars \/ (\E n \in Tags \cup {NoTag} : Rename(n)) \/ Switch \/ Calm \/ NewPeriod
  BY <1>1 DEF vars, Rename, Switch, Calm, NewPeriod, TypeOK, LeasesInv, PeriodIsEvidenced
<1>2. CASE BecomesDue \/ Matures
  BY <1>2 DEF BecomesDue, Matures, TypeOK, LeasesInv, PeriodIsEvidenced
<1>3. ASSUME check' = Moved, overruled' \subseteq Workers, row' \in RowType, row'.mature => row'.first,
             tag' \in Tags, paid' \in BOOLEAN, streak' \subseteq Tags, row'.first <=> streak' # {},
             UNCHANGED <<calm, active, name>>
      PROVE  Inv'
  BY <1>3, MovedType DEF TypeOK, LeasesInv, PeriodIsEvidenced, RowType, PassType
<1>4. CASE Enroll \/ Retry
  BY <1>3, <1>4 DEF Enroll, Retry, Overtaken, TypeOK, PeriodIsEvidenced, RowType
<1>5. ASSUME NEW approved \in BOOLEAN, Review(approved) PROVE Inv'
  BY <1>3, <1>5 DEF Review, Reviewed, Overtaken, TypeOK, RowType
<1>6. ASSUME NEW t \in Tags, ChangeTag(t) PROVE Inv'
  BY <1>3, <1>6 DEF ChangeTag, ResetForNewTag, Overtaken, TypeOK, RowType
<1>7. Idle \in PassType /\ ~Idle.holds /\ Idle.stage = "idle"
  BY DEF Idle, PassType
<1>8. ASSUME NEW w \in Workers, ReadProgram(w) PROVE Inv'
  <2> DEFINE to == [Idle EXCEPT !.stage = "program", !.tag = tag]
  <2>1. to \in PassType /\ ~to.holds /\ to.tag \in Tags
    BY DEF TypeOK, Idle, PassType
  <2>2. Step(w, to) /\ UNCHANGED <<calm, tag, active, name, row, paid, overruled, streak>>
    BY <1>8 DEF ReadProgram
  <2> HIDE DEF to
  <2> QED
    BY <2>1, <2>2, PassStep
<1>9. ASSUME NEW w \in Workers, NEW answer \in {"found", "missing", "error"},
             Step(w, [check[w] EXCEPT !.stage = "answered", !.answer = answer]), check[w].stage # "idle",
             UNCHANGED <<calm, tag, active, name, row, paid, overruled, streak>>
      PROVE  Inv'
  <2> DEFINE to == [check[w] EXCEPT !.stage = "answered", !.answer = answer]
  <2>1. to \in PassType /\ to.holds = check[w].holds /\ to.tag \in Tags
    BY <1>9, ZenonT(60) DEF TypeOK, LeasesInv, PassType
  <2> HIDE DEF to
  <2> QED
    BY <1>9, <2>1, PassStep DEF to
<1>10. ASSUME NEW w \in Workers, Profile(w) PROVE Inv'
  BY <1>9, <1>10, ZenonT(60) DEF Profile
<1>11. ASSUME NEW w \in Workers, RecordFails(w) PROVE Inv'
  <2>1. [check[w] EXCEPT !.answer = "error"] = [check[w] EXCEPT !.stage = "answered", !.answer = "error"]
    BY <1>11 DEF RecordFails, TypeOK
  <2> QED
    BY <1>9, <1>11, <2>1 DEF RecordFails
<1>12. ASSUME NEW w \in Workers, Stop(w) PROVE Inv'
  BY <1>7, <1>12, PassStep DEF Stop
<1>13. ASSUME NEW w \in Workers, Lease(w) PROVE Inv'
  <2>1. CASE row.due
    <3> DEFINE to == [check[w] EXCEPT !.stage = "leased", !.holds = TRUE]
    <3>1. to \in PassType /\ to.tag \in Tags /\ to.stage = "leased"
      BY <1>13 DEF Lease, TypeOK, LeasesInv, PassType
    <3>2. /\ check' = [Moved EXCEPT ![w] = to] /\ overruled' = overruled \ {w}
          /\ row' = [row EXCEPT !.due = FALSE] /\ UNCHANGED <<calm, tag, active, name, paid, streak>>
      BY <1>13, <2>1 DEF Lease
    <3> HIDE DEF to
    <3>3. TypeOK'
      BY <3>1, <3>2, MovedType DEF TypeOK, PassType
    <3>4. LeasesInv'
      BY <3>1, <3>2, MovedType DEF TypeOK, LeasesInv
    <3>5. PeriodIsEvidenced'
      BY <3>2 DEF TypeOK, PeriodIsEvidenced
    <3> QED
      BY <3>3, <3>4, <3>5
  <2>2. CASE ~row.due
    BY <1>7, <1>13, <2>2, PassStep DEF Lease
  <2> QED
    BY <2>1, <2>2
<1>14. ASSUME NEW w \in Workers, Record(w) \/ RecordError(w) PROVE Inv'
  <2>1. CASE Holds(w)
    <3>1. check' = [Moved EXCEPT ![w] = Idle]
          /\ UNCHANGED <<calm, tag, active, name, overruled>>
      BY <1>14, <2>1 DEF Record, RecordError
    <3>2. check[w].tag \in Tags
      BY <1>14 DEF Record, RecordError, LeasesInv
    <3>3. /\ row' \in RowType /\ (row'.mature => row'.first) /\ paid' \in BOOLEAN /\ streak' \subseteq Tags
          /\ (row'.first <=> streak' # {})
      <4>1. CASE Record(w)
        <5>1. /\ row' = [status |-> IF Found(w) THEN "VERIFIED" ELSE "MISSING", first |-> Found(w),
                         mature |-> Found(w) /\ row.mature, due |-> FALSE]
              /\ streak' = IF Found(w) THEN streak \cup {check[w].tag} ELSE {}
              /\ paid' = (paid \/ (Found(w) /\ row.mature /\ active))
          BY <2>1, <4>1 DEF Record
        <5>2. Found(w) \in BOOLEAN /\ row.mature \in BOOLEAN /\ paid \in BOOLEAN /\ active \in BOOLEAN
              /\ streak \subseteq Tags
          BY DEF Found, TypeOK
        <5>3. row' \in RowType /\ (row'.mature => row'.first) /\ row'.first = Found(w)
          BY <5>1, <5>2 DEF RowType
        <5>4. streak' \subseteq Tags /\ (Found(w) <=> streak' # {})
          BY <3>2, <5>1, <5>2
        <5>5. paid' \in BOOLEAN
          BY <5>1, <5>2
        <5> QED
          BY <5>3, <5>4, <5>5
      <4>2. CASE RecordError(w)
        BY <2>1, <4>2 DEF RecordError, Unavailable, TypeOK, RowType, PeriodIsEvidenced
      <4> QED
        BY <1>14, <4>1, <4>2
    <3>4. TypeOK'
      BY <1>7, <3>1, <3>3, MovedType DEF TypeOK, RowType, PassType
    <3>5. LeasesInv'
      BY <1>7, <3>1, MovedType DEF TypeOK, LeasesInv
    <3>6. PeriodIsEvidenced'
      BY <3>3 DEF PeriodIsEvidenced
    <3> QED
      BY <3>4, <3>5, <3>6
  <2>2. CASE ~Holds(w)
    BY <1>7, <1>14, <2>2, PassStep DEF Record, RecordError
  <2> QED
    BY <2>1, <2>2
<1> QED
  BY <1>1, <1>2, <1>4, <1>5, <1>6, <1>8, <1>10, <1>11, <1>12, <1>13, <1>14 DEF Next, WorkerStep

LEMMA Safety == Spec => []Inv
<1> QED
  BY InvInit, InvStep, PTL DEF Spec

-----------------------------------------------------------------------------
\* Every variable keeps its type; a period matures only after a success.
THEOREM TypeCorrect == Spec => []TypeOK
<1>1. Inv => TypeOK
  BY DEF Inv
<1> QED
  BY <1>1, Safety, PTL

\* The watched period starts with a success and ends with a miss, a rejection
\* or a new tag, never with an outage, however passes and people interleave.
THEOREM PeriodsAreEvidenced == Spec => []PeriodIsEvidenced
<1>1. Inv => PeriodIsEvidenced
  BY DEF Inv
<1> QED
  BY <1>1, Safety, PTL

\* A late answer or failure never changes the row or credits anything once a
\* person or a new tag has overtaken the check.
THEOREM DecisionsAlwaysStand == Spec => DecisionsStand
<1>1. Inv => [\A w \in overruled : Record(w) \/ RecordError(w) => row' = row /\ paid' = paid]_vars
  <2> SUFFICES ASSUME Inv, NEW w \in overruled, Record(w) \/ RecordError(w)
               PROVE  row' = row /\ paid' = paid
    OBVIOUS
  <2>1. ~Holds(w)
    BY DEF Inv, LeasesInv, Holds
  <2> QED
    BY <2>1 DEF Record, RecordError
<1> QED
  BY <1>1, Safety, PTL DEF DecisionsStand
=============================================================================
