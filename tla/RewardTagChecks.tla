--------------------------- MODULE RewardTagChecks ---------------------------
(***************************************************************************)
(* One player's Telegram tag verification                                  *)
(* (apps/api/src/modules/rewards/rewards.verification.ts, and reviewTag    *)
(* and settings of rewards.service.ts).                                    *)
(*                                                                         *)
(* checkBatch reads the settings, leases the row by moving nextCheckAt,    *)
(* asks Telegram with no lock held, and records the answer if nextCheckAt  *)
(* is still the one it wrote.  Meanwhile players enroll again, staff       *)
(* review, retry and change the tag, leases run out, instances stop.       *)
(*                                                                         *)
(* Of a timestamp only comparisons are kept: "due" is nextCheckAt <= now,  *)
(* "mature" is minimumHours since firstSeenAt, and a worker "holds" the    *)
(* row while nextCheckAt is what its lease wrote (no two writes of it are  *)
(* the same millisecond).  The notices the checks send are left out.       *)
(***************************************************************************)
EXTENDS FiniteSets

CONSTANTS
    Tags,
    NoTag,              \* a name without any of the tags
    Workers             \* API instances, each with one worker pass at a time

ASSUME TagsAssumption == NoTag \notin Tags

VARIABLES
    calm,               \* from now on nothing interrupts the checks
    tag,                \* settings.tag
    active,             \* the program is on and its tag task active
    name,               \* the tag in the player's name
    row,                \* the verification row
    check,              \* each worker's pass
    paid,               \* the task's ledger key of the present period is written
    overruled,          \* history: workers whose lease a person or a new tag has overtaken
    streak              \* history: the tags found since the last miss, rejection or new tag

vars == <<calm, tag, active, name, row, check, paid, overruled, streak>>

Idle == [stage |-> "idle", tag |-> NoTag, holds |-> FALSE, answer |-> "none"]
Step(w, to) == check' = [check EXCEPT ![w] = to]
Asking(w) == check[w].stage \in {"leased", "answered"}

\* nextCheckAt is written: no earlier lease matches it any more.
Moved == [w \in Workers |-> [check[w] EXCEPT !.holds = FALSE]]

Init ==
    /\ calm = FALSE /\ tag \in Tags /\ active \in BOOLEAN /\ name \in Tags \cup {NoTag}
    /\ row = [status |-> "PENDING", first |-> FALSE, mature |-> FALSE, due |-> TRUE]
    /\ check = [w \in Workers |-> Idle]
    /\ paid = FALSE /\ overruled = {} /\ streak = {}

-----------------------------------------------------------------------------
\* The world

Rename(n) ==
    /\ name' = n
    /\ UNCHANGED <<calm, tag, active, row, check, paid, overruled, streak>>

\* The program or its task is switched, archived or restored.
Switch ==
    /\ ~calm /\ active' = ~active
    /\ UNCHANGED <<calm, tag, name, row, check, paid, overruled, streak>>

\* The environment may come to rest with the program on: people leave the row
\* and the settings alone, no instance stops, no lease runs out before its
\* answer.  It need not; only RequestsSettle speaks of it.
Calm ==
    /\ ~calm /\ active /\ calm' = TRUE
    /\ UNCHANGED <<tag, active, name, row, check, paid, overruled, streak>>

\* nextCheckAt passes: the next check, or the end of a lease.
BecomesDue ==
    /\ ~row.due /\ (calm => \A w \in Workers : ~check[w].holds)
    /\ row' = [row EXCEPT !.due = TRUE]
    /\ UNCHANGED <<calm, tag, active, name, check, paid, overruled, streak>>

Matures ==
    /\ row.first /\ ~row.mature
    /\ row' = [row EXCEPT !.mature = TRUE]
    /\ UNCHANGED <<calm, tag, active, name, check, paid, overruled, streak>>

NewPeriod ==
    /\ paid' = FALSE
    /\ UNCHANGED <<calm, tag, active, name, row, check, overruled, streak>>

-----------------------------------------------------------------------------
\* People

Overtaken == overruled' = overruled \cup {w \in Workers : Asking(w)}

Enroll ==
    /\ ~calm /\ active
    /\ row' = [row EXCEPT !.status = "PENDING", !.due = TRUE]
    /\ check' = Moved /\ Overtaken
    /\ UNCHANGED <<calm, tag, active, name, paid, streak>>

Retry ==
    /\ ~calm /\ active
    /\ row' = [row EXCEPT !.due = TRUE]
    /\ check' = Moved /\ Overtaken
    /\ UNCHANGED <<calm, tag, active, name, paid, streak>>

\* Mutant: the decision does not move nextCheckAt.
ReviewedInPlace == check

\* reviewTag moves nextCheckAt, an approval keeps the first success and may
\* credit.
Reviewed == Moved
Review(approved) ==
    /\ ~calm
    /\ row' = [status |-> IF approved THEN "VERIFIED" ELSE "MISSING", first |-> approved,
               mature |-> approved /\ row.mature, due |-> FALSE]
    /\ check' = Reviewed /\ Overtaken
    /\ streak' = IF approved THEN streak \cup {tag} ELSE {}
    /\ paid' = (paid \/ (approved /\ active /\ row.mature))
    /\ UNCHANGED <<calm, tag, active, name>>

\* Mutant: a new tag keeps the period watched for the old one.
NewTagKeepsFirst == [row EXCEPT !.status = "PENDING", !.due = TRUE]

\* settings with another tag resets every row.
ResetForNewTag == [row EXCEPT !.status = "PENDING", !.first = FALSE, !.mature = FALSE, !.due = TRUE]
ChangeTag(t) ==
    /\ ~calm /\ t # tag /\ tag' = t
    /\ row' = ResetForNewTag
    /\ check' = Moved /\ Overtaken /\ streak' = {}
    /\ UNCHANGED <<calm, active, name, paid>>

-----------------------------------------------------------------------------
\* checkBatch

ReadProgram(w) ==
    /\ check[w].stage = "idle" /\ active
    /\ Step(w, [Idle EXCEPT !.stage = "program", !.tag = tag])
    /\ UNCHANGED <<calm, tag, active, name, row, paid, overruled, streak>>

\* The lease: a due row gets a new nextCheckAt, which the worker remembers.
Lease(w) ==
    /\ check[w].stage = "program"
    /\ IF row.due
       THEN /\ row' = [row EXCEPT !.due = FALSE]
            /\ check' = [Moved EXCEPT ![w] = [check[w] EXCEPT !.stage = "leased", !.holds = TRUE]]
       ELSE Step(w, Idle) /\ UNCHANGED row
    /\ overruled' = overruled \ {w}
    /\ UNCHANGED <<calm, tag, active, name, paid, streak>>

\* readTelegramProfile answers, or fails.
Profile(w) ==
    /\ check[w].stage = "leased"
    /\ \E answer \in {IF name = check[w].tag THEN "found" ELSE "missing", "error"} :
         Step(w, [check[w] EXCEPT !.stage = "answered", !.answer = answer])
    /\ UNCHANGED <<calm, tag, active, name, row, paid, overruled, streak>>

\* Mutant: the answer is recorded whoever moved the row meanwhile.
RecordsAnyway(w) == TRUE

\* Mutant: an outage only moves the next check.
OutageIgnored(w) == [row EXCEPT !.due = FALSE]

\* Only the nextCheckAt written with the lease accepts the answer.
Holds(w) == check[w].holds
Found(w) == check[w].answer = "found"

\* The answer and the credit commit together; whether the task is active is
\* read again.  The streak counts what the worker looked for.
Record(w) ==
    /\ check[w].stage = "answered" /\ check[w].answer # "error"
    /\ IF Holds(w)
       THEN /\ row' = [status |-> IF Found(w) THEN "VERIFIED" ELSE "MISSING", first |-> Found(w),
                       mature |-> Found(w) /\ row.mature, due |-> FALSE]
            /\ streak' = IF Found(w) THEN streak \cup {check[w].tag} ELSE {}
            /\ paid' = (paid \/ (Found(w) /\ row.mature /\ active))
            /\ check' = [Moved EXCEPT ![w] = Idle]
       ELSE Step(w, Idle) /\ UNCHANGED <<row, paid, streak>>
    /\ UNCHANGED <<calm, tag, active, name, overruled>>

\* The transaction fails: the catch block treats it as an outage.
RecordFails(w) ==
    /\ check[w].stage = "answered" /\ check[w].answer # "error"
    /\ Step(w, [check[w] EXCEPT !.answer = "error"])
    /\ UNCHANGED <<calm, tag, active, name, row, paid, overruled, streak>>

\* An outage keeps what was seen before.
Unavailable(w) == [row EXCEPT !.status = "ERROR", !.due = FALSE]
RecordError(w) ==
    /\ check[w].stage = "answered" /\ check[w].answer = "error"
    /\ IF Holds(w)
       THEN row' = Unavailable(w) /\ check' = [Moved EXCEPT ![w] = Idle]
       ELSE Step(w, Idle) /\ UNCHANGED row
    /\ UNCHANGED <<calm, tag, active, name, paid, overruled, streak>>

\* The instance stops; its lease has to run out.
Stop(w) ==
    /\ ~calm /\ check[w].stage # "idle"
    /\ Step(w, Idle)
    /\ UNCHANGED <<calm, tag, active, name, row, paid, overruled, streak>>

-----------------------------------------------------------------------------
WorkerStep(w) == ReadProgram(w) \/ Lease(w) \/ Profile(w) \/ Record(w) \/ RecordFails(w) \/ RecordError(w)
Next ==
    \/ \E n \in Tags \cup {NoTag} : Rename(n)
    \/ Switch \/ Calm \/ BecomesDue \/ Matures \/ NewPeriod \/ Enroll \/ Retry
    \/ \E approved \in BOOLEAN : Review(approved)
    \/ \E t \in Tags : ChangeTag(t)
    \/ \E w \in Workers : WorkerStep(w) \/ Stop(w)

Spec == Init /\ [][Next]_vars

\* Time passes and every instance's 30 second timer runs its passes.
FairSpec == Spec /\ WF_vars(BecomesDue) /\ \A w \in Workers : WF_vars(WorkerStep(w))

-----------------------------------------------------------------------------
\* Properties

\* Every variable has its type; a period matures only after a success.
TypeOK ==
    /\ calm \in BOOLEAN /\ tag \in Tags /\ active \in BOOLEAN /\ name \in Tags \cup {NoTag}
    /\ row \in [status : {"PENDING", "VERIFIED", "MISSING", "ERROR"}, first : BOOLEAN, mature : BOOLEAN,
                due : BOOLEAN]
    /\ row.mature => row.first
    /\ check \in [Workers -> [stage : {"idle", "program", "leased", "answered"}, tag : Tags \cup {NoTag},
                              holds : BOOLEAN, answer : {"none", "found", "missing", "error"}]]
    /\ paid \in BOOLEAN /\ overruled \subseteq Workers /\ streak \subseteq Tags

\* "A late result or failure does not overwrite a new manual decision or
\* requeue" (fdp-rewards.md): what a person or a new tag overtook stays, and
\* credits nothing.
DecisionsStand ==
    [][\A w \in overruled : Record(w) \/ RecordError(w) => row' = row /\ paid' = paid]_vars

\* The watched period starts with a success and ends with a miss, a rejection
\* or a new tag, never with an outage: whatever is credited was seen since.
PeriodIsEvidenced == row.first <=> streak # {}

\* A requested check is settled in the end once nothing interrupts it any more,
\* whatever leases, passes and answers were under way and whatever Telegram does.
RequestsSettle == calm /\ row.status = "PENDING" ~> row.status # "PENDING"

\* "Changing the tag in the settings resets the periods of the checks"
\* (fdp-rewards.md): no check before the change counts towards the new tag.
OldTagForgotten == row.first => streak \subseteq {tag}
=============================================================================
