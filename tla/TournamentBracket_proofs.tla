---------------------- MODULE TournamentBracket_proofs ----------------------
(***************************************************************************)
(* Proofs about the life of a bracket, for any number of entries, from the *)
(* lemmas of Bracket_proofs about the builder: whatever the interleaving   *)
(* of decisions, confirmations, replacements, scans and cancellation,      *)
(* every match row is a node of the bracket its seeds and results          *)
(* determine, until a decision rewrites a settled match.                   *)
(***************************************************************************)
EXTENDS TournamentBracket, Bracket_proofs

-----------------------------------------------------------------------------
(* Sets of match rows *)

MatchStatuses == {"SCHEDULED", "IN_PROGRESS", "COMPLETED", "CANCELLED"}
Rows == [a : Entries, b : Entries, status : MatchStatuses, winner : Entries \cup {NoEntry}]
IsRows(ms) == ms = [k \in DOMAIN ms |-> ms[k]] /\ \A k \in DOMAIN ms : ms[k] \in Rows

\* Every row is of a node, and has its two sides.
RowsFit(r, sds, f, ms) ==
    \A k \in DOMAIN ms : /\ k \in Keys(r, f)
                         /\ ms[k].a = Nodes(r, sds, ms, f)[k].entryA
                         /\ ms[k].b = Nodes(r, sds, ms, f)[k].entryB

\* ms2 keeps the rows of ms and their results, and adds rows of nodes that are known.
Extends(r, sds, f, ms, ms2) ==
    /\ IsRows(ms2) /\ DOMAIN ms \subseteq DOMAIN ms2
    /\ \A k \in DOMAIN ms : /\ ms2[k].a = ms[k].a /\ ms2[k].b = ms[k].b
                            /\ ms[k].status = "COMPLETED" =>
                                 ms2[k].status = "COMPLETED" /\ ms2[k].winner = ms[k].winner
    /\ \A k \in DOMAIN ms2 \ DOMAIN ms : /\ k \in Keys(r, f)
                                         /\ ms2[k].a = Nodes(r, sds, ms, f)[k].entryA
                                         /\ ms2[k].b = Nodes(r, sds, ms, f)[k].entryB

AllKept(r, sds, f, ms, ms2) ==
    \A key \in Keys(r, f) : Kept(Nodes(r, sds, ms, f)[key], Nodes(r, sds, ms2, f)[key])

LEMMA RowsAreKnown ==
    ASSUME NEW ms, IsRows(ms), NEW k \in DOMAIN ms
    PROVE  ms[k].a \in Entries /\ ms[k].b \in Entries /\ ms[k].a # NoEntry /\ ms[k].b # NoEntry
<1>1. ms[k] \in Rows
  BY DEF IsRows
<1> QED
  BY <1>1, EntriesAssumption DEF Rows

\* A node's known sides stay.
LEMMA KnownSidesStay ==
    ASSUME NEW node, NEW node2, Kept(node, node2)
    PROVE  /\ node.entryA # NoEntry => node2.entryA = node.entryA
           /\ node.entryB # NoEntry => node2.entryB = node.entryB
BY DEF Kept, Side, Sides

LEMMA ExtensionsFit ==
    ASSUME NEW r \in 1..MaxRounds, NEW sds, NEW f \in Formats, NEW ms, NEW ms2,
           IsRows(ms), RowsFit(r, sds, f, ms), Extends(r, sds, f, ms, ms2)
    PROVE  RowsFit(r, sds, f, ms2) /\ AllKept(r, sds, f, ms, ms2)
<1> DEFINE n == Nodes(r, sds, ms, f)
           n2 == Nodes(r, sds, ms2, f)
<1>1. IsBracket(r, f, Slots(r, sds), ms, n) /\ IsBracket(r, f, Slots(r, sds), ms2, n2)
  BY NodesAreABracket
<1>2. ASSUME NEW k \in DOMAIN ms2
      PROVE  k \in Keys(r, f) /\ n[k].entryA = ms2[k].a /\ n[k].entryB = ms2[k].b
             /\ n[k].entryA # NoEntry /\ n[k].entryB # NoEntry
  <2>1. ms2[k].a # NoEntry /\ ms2[k].b # NoEntry
    BY RowsAreKnown DEF Extends
  <2>2. CASE k \in DOMAIN ms
    BY <2>1, <2>2 DEF RowsFit, Extends
  <2>3. CASE k \notin DOMAIN ms
    BY <2>1, <2>3 DEF Extends
  <2> QED
    BY <2>2, <2>3
<1>3. Grows(r, f, n, ms, ms2)
  BY <1>2 DEF Grows, Extends
<1> HIDE DEF n, n2
<1>4. \A key \in Keys(r, f) : Kept(n[key], n2[key])
  BY <1>1, <1>3, NodesAreKept
<1>5. ASSUME NEW k \in DOMAIN ms2
      PROVE  k \in Keys(r, f) /\ ms2[k].a = n2[k].entryA /\ ms2[k].b = n2[k].entryB
  BY <1>2, <1>4, KnownSidesStay
<1> QED
  BY <1>4, <1>5 DEF RowsFit, AllKept, n, n2

Decide(ms, k, w) == [ms EXCEPT ![k].status = "COMPLETED", ![k].winner = w]

LEMMA DecideIs ==
    ASSUME NEW ms, IsRows(ms), NEW k \in DOMAIN ms, NEW w \in Entries
    PROVE  /\ IsRows(Decide(ms, k, w)) /\ DOMAIN Decide(ms, k, w) = DOMAIN ms
           /\ \A j \in DOMAIN ms : j # k => Decide(ms, k, w)[j] = ms[j]
           /\ Decide(ms, k, w)[k].a = ms[k].a /\ Decide(ms, k, w)[k].b = ms[k].b
           /\ Decide(ms, k, w)[k].status = "COMPLETED" /\ Decide(ms, k, w)[k].winner = w
<1> DEFINE row == ms[k]
           first == [row EXCEPT !.status = "COMPLETED"]
           second == [first EXCEPT !.winner = w]
           after == Decide(ms, k, w)
<1>1. ms = [j \in DOMAIN ms |-> ms[j]] /\ \A j \in DOMAIN ms : ms[j] \in Rows
  BY DEF IsRows
<1>2. after = [j \in DOMAIN ms |-> IF j = k THEN second ELSE ms[j]]
  BY <1>1 DEF Decide
<1>3. row \in Rows
  BY <1>1
<1> HIDE DEF row
<1>4. first \in Rows /\ first.a = row.a /\ first.b = row.b /\ first.status = "COMPLETED"
  BY <1>3 DEF Rows, MatchStatuses
<1> HIDE DEF first
<1>5. second \in Rows /\ second.a = row.a /\ second.b = row.b /\ second.status = "COMPLETED" /\ second.winner = w
  BY <1>4 DEF Rows
<1> HIDE DEF second, after
<1>6. DOMAIN after = DOMAIN ms /\ \A j \in DOMAIN ms : after[j] = IF j = k THEN second ELSE ms[j]
  BY <1>2
<1>7. after = [j \in DOMAIN after |-> after[j]]
  BY <1>2, <1>6
<1>8. \A j \in DOMAIN after : after[j] \in Rows
  BY <1>1, <1>5, <1>6
<1>9. IsRows(after)
  BY <1>7, <1>8 DEF IsRows
<1>10. after[k] = second /\ \A j \in DOMAIN ms : j # k => after[j] = ms[j]
  BY <1>6
<1> QED
  BY <1>5, <1>6, <1>9, <1>10 DEF row, after

LEMMA DecisionsExtend ==
    ASSUME NEW r, NEW sds, NEW f, NEW ms, IsRows(ms), NEW k \in DOMAIN ms, NEW w \in Entries,
           ms[k].status # "COMPLETED"
    PROVE  Extends(r, sds, f, ms, Decide(ms, k, w))
BY DecideIs, SMTT(20) DEF Extends

\* Rows for nodes without one are added.
LEMMA AdditionsExtend ==
    ASSUME NEW r, NEW sds, NEW f, NEW ms, NEW new, IsRows(ms), IsRows(new),
           \A k \in DOMAIN new : /\ k \notin DOMAIN ms /\ k \in Keys(r, f)
                                 /\ new[k].a = Nodes(r, sds, ms, f)[k].entryA
                                 /\ new[k].b = Nodes(r, sds, ms, f)[k].entryB
    PROVE  Extends(r, sds, f, ms, Over(new, ms))
<1> DEFINE after == Over(new, ms)
<1>1. after = [k \in DOMAIN ms \cup DOMAIN new |-> IF k \in DOMAIN new THEN new[k] ELSE ms[k]]
  BY DEF Over
<1> HIDE DEF after
<1>2. /\ DOMAIN after = DOMAIN ms \cup DOMAIN new /\ after = [k \in DOMAIN after |-> after[k]]
      /\ \A k \in DOMAIN ms : after[k] = ms[k]
      /\ \A k \in DOMAIN new : after[k] = new[k]
  BY <1>1
<1>3. IsRows(after)
  BY <1>2 DEF IsRows
<1>4. Extends(r, sds, f, ms, after)
  BY <1>2, <1>3 DEF Extends
<1> QED
  BY <1>4 DEF after

\* The matches that are ready.
LEMMA ReadyRows ==
    ASSUME NEW r \in 1..MaxRounds, NEW sds \in Seq(Entries), Distinct(sds), NEW f \in Formats, NEW ms
    PROVE  LET new == ReadyMatches(BuildBracket(r, sds, ms, f))
           IN  /\ IsRows(new)
               /\ \A k \in DOMAIN new : /\ k \notin DOMAIN ms /\ k \in Keys(r, f)
                                        /\ new[k].a = Nodes(r, sds, ms, f)[k].entryA
                                        /\ new[k].b = Nodes(r, sds, ms, f)[k].entryB
                                        /\ new[k].status = "SCHEDULED"
<1> DEFINE n == Nodes(r, sds, ms, f)
           slots == Slots(r, sds)
           bracket == BuildBracket(r, sds, ms, f)
           new == ReadyMatches(bracket)
<1>1. IsBracket(r, f, slots, ms, n) /\ DOMAIN n = Keys(r, f)
  BY NodesAreABracket
<1>2. \A i \in 1..2^r : slots[i] \in Entries \cup {NoEntry}
  BY SlotsAreDistinct, EntriesAssumption
<1>3. bracket.ready = Ready(r, n, f) /\ bracket.nodes = n
  BY BracketIs
<1> HIDE DEF n, slots, bracket
<1>4. new = [k \in Ready(r, n, f) |-> NewMatch(n[k])]
  BY <1>3 DEF ReadyMatches
<1> HIDE DEF new
<1>5. ASSUME NEW k \in Ready(r, n, f)
      PROVE  /\ k \notin DOMAIN ms /\ k \in Keys(r, f)
             /\ n[k].entryA \in Entries /\ n[k].entryB \in Entries
  <2>1. k \notin DOMAIN ms /\ k \in Keys(r, f) /\ NoEntry \notin {n[k].entryA, n[k].entryB}
    BY <1>1, ReadyIs
  <2>2. 1 \in Sides /\ 2 \in Sides /\ Side(n[k], 1) = n[k].entryA /\ Side(n[k], 2) = n[k].entryB
    BY DEF Sides, Side
  <2>3. n[k].entryA \in Entries \cup {NoEntry} /\ n[k].entryB \in Entries \cup {NoEntry}
    <3>1. \A key \in Keys(r, f) : /\ \A s \in Sides : Side(n[key], s) \in Entries \cup {NoEntry}
                                  /\ n[key].winner \in Entries \cup {NoEntry}
                                  /\ n[key].loser \in Entries \cup {NoEntry}
      BY <1>1, <1>2, NodesTyped
    <3> QED
      BY <2>1, <2>2, <3>1
  <2> QED
    BY <2>1, <2>3
<1>6. DOMAIN new = Ready(r, n, f) /\ new = [k \in DOMAIN new |-> new[k]]
  BY <1>4
<1>7. ASSUME NEW k \in DOMAIN new
      PROVE  new[k] \in Rows /\ new[k].a = n[k].entryA /\ new[k].b = n[k].entryB /\ new[k].status = "SCHEDULED"
  <2>1. new[k] = [a |-> n[k].entryA, b |-> n[k].entryB, status |-> "SCHEDULED", winner |-> NoEntry]
    BY <1>4, <1>6 DEF NewMatch
  <2> QED
    BY <1>5, <1>6, <2>1 DEF Rows, MatchStatuses
<1>8. IsRows(new)
  BY <1>6, <1>7 DEF IsRows
<1>9. \A k \in DOMAIN new : /\ k \notin DOMAIN ms /\ k \in Keys(r, f)
                            /\ new[k].a = n[k].entryA /\ new[k].b = n[k].entryB /\ new[k].status = "SCHEDULED"
  BY <1>5, <1>6, <1>7
<1> QED
  BY <1>8, <1>9 DEF new, n, bracket

-----------------------------------------------------------------------------
(* Open confirmations *)

\* The final and the third-place match have their results.
Finished(r, sds, f, ms) == Complete(r, Nodes(r, sds, ms, f), f)

LEMMA FinishedStays ==
    ASSUME NEW r \in 1..MaxRounds, NEW sds, NEW f \in Formats, NEW ms, NEW ms2,
           AllKept(r, sds, f, ms, ms2), Finished(r, sds, f, ms)
    PROVE  Finished(r, sds, f, ms2)
<1> DEFINE n == Nodes(r, sds, ms, f)
           n2 == Nodes(r, sds, ms2, f)
           final == FinalKey(r, f)
           bronze == BronzeKey(r)
<1>1. DOMAIN n = Keys(r, f) /\ DOMAIN n2 = Keys(r, f) /\ final \in Keys(r, f)
  BY NodesAreABracket, FinalIsAKey
<1>2. \A key \in Keys(r, f) : Kept(n[key], n2[key])
  BY DEF AllKept
<1>3. /\ n[final].resolved /\ n[final].winner # NoEntry
      /\ bronze \in DOMAIN n => n[bronze].resolved
  BY DEF Finished, Complete, FinalKey
<1> HIDE DEF n, n2, final, bronze
<1>4. /\ n2[final].resolved /\ n2[final].winner # NoEntry
      /\ bronze \in DOMAIN n2 => n2[bronze].resolved
  BY <1>1, <1>2, <1>3 DEF Kept
<1> QED
  BY <1>4 DEF Finished, Complete, FinalKey, n2, final, bronze

\* An open confirmation holds a match being played, its new rows are those of
\* the bracket that its result makes, unless somebody has made them already,
\* and where it completes the tournament that bracket is finished.
CallFits(r, sds, f, ms, k, call) ==
    /\ k \in DOMAIN ms /\ ms[k].status = "IN_PROGRESS" /\ call.winner \in {ms[k].a, ms[k].b}
    /\ IsRows(call.create)
    /\ \A m \in DOMAIN call.create :
         /\ call.create[m].status = "SCHEDULED"
         /\ m \notin DOMAIN ms =>
              /\ m \in Keys(r, f)
              /\ call.create[m].a = Nodes(r, sds, Decide(ms, k, call.winner), f)[m].entryA
              /\ call.create[m].b = Nodes(r, sds, Decide(ms, k, call.winner), f)[m].entryB
    /\ call.completes => Finished(r, sds, f, Decide(ms, k, call.winner))

LEMMA CallsFitLater ==
    ASSUME NEW r \in 1..MaxRounds, NEW sds, NEW f \in Formats, NEW ms, NEW ms2,
           IsRows(ms), RowsFit(r, sds, f, ms), Extends(r, sds, f, ms, ms2),
           NEW k, NEW call, CallFits(r, sds, f, ms, k, call), ms2[k] = ms[k]
    PROVE  CallFits(r, sds, f, ms2, k, call)
<1> DEFINE w == call.winner
           d == Decide(ms, k, w)
           d2 == Decide(ms2, k, w)
           n == Nodes(r, sds, ms, f)
           nd == Nodes(r, sds, d, f)
           nd2 == Nodes(r, sds, d2, f)
<1>1. k \in DOMAIN ms /\ k \in DOMAIN ms2 /\ w \in Entries /\ ms[k].status # "COMPLETED" /\ IsRows(ms2)
  <2>1. ms[k].a \in Entries /\ ms[k].b \in Entries
    BY RowsAreKnown DEF CallFits
  <2> QED
    BY <2>1 DEF CallFits, Extends
<1>2. /\ IsRows(d) /\ DOMAIN d = DOMAIN ms /\ \A j \in DOMAIN ms : j # k => d[j] = ms[j]
      /\ d[k].a = ms[k].a /\ d[k].b = ms[k].b /\ d[k].status = "COMPLETED" /\ d[k].winner = w
  BY <1>1, DecideIs
<1>3. /\ IsRows(d2) /\ DOMAIN d2 = DOMAIN ms2 /\ \A j \in DOMAIN ms2 : j # k => d2[j] = ms2[j]
      /\ d2[k].a = ms2[k].a /\ d2[k].b = ms2[k].b /\ d2[k].status = "COMPLETED" /\ d2[k].winner = w
  BY <1>1, DecideIs
<1>4. RowsFit(r, sds, f, d) /\ AllKept(r, sds, f, ms, d)
  <2>1. Extends(r, sds, f, ms, d)
    BY <1>1, DecisionsExtend
  <2> QED
    BY <2>1, ExtensionsFit
<1> HIDE DEF d, d2, w
<1>5. Extends(r, sds, f, d, d2)
  <2>1. ASSUME NEW j \in DOMAIN d
        PROVE  /\ d2[j].a = d[j].a /\ d2[j].b = d[j].b
               /\ d[j].status = "COMPLETED" => d2[j].status = "COMPLETED" /\ d2[j].winner = d[j].winner
    <3>1. CASE j = k
      BY <1>2, <1>3, <3>1
    <3>2. CASE j # k
      BY <1>2, <1>3, <2>1, <3>2 DEF Extends
    <3> QED
      BY <3>1, <3>2
  <2>2. ASSUME NEW j \in DOMAIN d2 \ DOMAIN d
        PROVE  j \in Keys(r, f) /\ d2[j].a = nd[j].entryA /\ d2[j].b = nd[j].entryB
    <3>1. j \in DOMAIN ms2 \ DOMAIN ms /\ j # k
      BY <1>1, <1>2, <1>3
    <3>2. d2[j].a = ms2[j].a /\ d2[j].b = ms2[j].b
      BY <1>3, <3>1
    <3>3. ms2[j].a # NoEntry /\ ms2[j].b # NoEntry
      BY <1>1, <3>1, RowsAreKnown
    <3>4. j \in Keys(r, f) /\ ms2[j].a = n[j].entryA /\ ms2[j].b = n[j].entryB
      BY <3>1 DEF Extends
    <3>5. Kept(n[j], nd[j])
      BY <1>4, <3>4 DEF AllKept
    <3> HIDE DEF n, nd
    <3> QED
      BY <3>2, <3>3, <3>4, <3>5, KnownSidesStay
  <2>3. DOMAIN d \subseteq DOMAIN d2
    BY <1>2, <1>3 DEF Extends
  <2> QED
    BY <1>3, <2>1, <2>2, <2>3 DEF Extends
<1>6. AllKept(r, sds, f, d, d2)
  BY <1>2, <1>4, <1>5, ExtensionsFit
<1>7. ASSUME NEW m \in DOMAIN call.create, m \notin DOMAIN ms2
      PROVE  /\ m \in Keys(r, f)
             /\ call.create[m].a = nd2[m].entryA /\ call.create[m].b = nd2[m].entryB
  <2>1. m \notin DOMAIN ms
    BY <1>7 DEF Extends
  <2>2. m \in Keys(r, f) /\ call.create[m].a = nd[m].entryA /\ call.create[m].b = nd[m].entryB
    BY <2>1 DEF CallFits, d, w
  <2>3. call.create[m].a # NoEntry /\ call.create[m].b # NoEntry
    BY RowsAreKnown DEF CallFits
  <2>4. Kept(nd[m], nd2[m])
    BY <1>6, <2>2 DEF AllKept
  <2> HIDE DEF nd, nd2
  <2> QED
    BY <2>2, <2>3, <2>4, KnownSidesStay
<1>8. \A m \in DOMAIN call.create : call.create[m].status = "SCHEDULED"
  BY DEF CallFits
<1>9. call.completes => Finished(r, sds, f, d2)
  <2>1. call.completes => Finished(r, sds, f, d)
    BY DEF CallFits, d, w
  <2> QED
    BY <1>6, <2>1, FinishedStays
<1> QED
  BY <1>1, <1>7, <1>8, <1>9 DEF CallFits, d2, w

-----------------------------------------------------------------------------
(* Rows and confirmations together *)

Fit(r, sds, f, ms, calls) ==
    RowsFit(r, sds, f, ms) /\ \A k \in DOMAIN calls : CallFits(r, sds, f, ms, k, calls[k])

LEMMA FitLater ==
    ASSUME NEW r \in 1..MaxRounds, NEW sds, NEW f \in Formats, NEW ms, NEW ms2, NEW calls,
           IsRows(ms), Fit(r, sds, f, ms, calls), Extends(r, sds, f, ms, ms2),
           \A k \in DOMAIN calls : ms2[k] = ms[k]
    PROVE  Fit(r, sds, f, ms2, calls) /\ AllKept(r, sds, f, ms, ms2)
<1>1. RowsFit(r, sds, f, ms2) /\ AllKept(r, sds, f, ms, ms2)
  BY ExtensionsFit DEF Fit
<1>2. ASSUME NEW k \in DOMAIN calls
      PROVE  CallFits(r, sds, f, ms2, k, calls[k])
  BY CallsFitLater DEF Fit
<1> QED
  BY <1>1, <1>2 DEF Fit

\* Rows of ms2 are rows of ms, or not started.
OnlyScheduled(ms, ms2) ==
    \A k \in DOMAIN ms2 : (k \in DOMAIN ms /\ ms2[k] = ms[k]) \/ ms2[k].status = "SCHEDULED"

LEMMA ReconcileFits ==
    ASSUME NEW r \in 1..MaxRounds, NEW sds \in Seq(Entries), Distinct(sds), format \in Formats, NEW ms, NEW calls,
           IsRows(ms), Fit(r, sds, format, ms, calls), Reconcile(ms, sds, r)
    PROVE  /\ Fit(r, sds, format, matches', calls) /\ Extends(r, sds, format, ms, matches')
           /\ AllKept(r, sds, format, ms, matches') /\ OnlyScheduled(ms, matches')
           /\ status' \in {"COMPLETED", "IN_PROGRESS"}
           /\ status' = "COMPLETED" => Finished(r, sds, format, matches')
<1> DEFINE new == ReadyMatches(BuildBracket(r, sds, ms, format))
           after == Over(new, ms)
<1>1. matches' = after /\ status' \in {"COMPLETED", "IN_PROGRESS"}
  BY DEF Reconcile
<1>2. /\ IsRows(new)
      /\ \A k \in DOMAIN new : /\ k \notin DOMAIN ms /\ k \in Keys(r, format)
                               /\ new[k].a = Nodes(r, sds, ms, format)[k].entryA
                               /\ new[k].b = Nodes(r, sds, ms, format)[k].entryB
                               /\ new[k].status = "SCHEDULED"
  BY ReadyRows
<1> HIDE DEF new
<1>3. /\ Extends(r, sds, format, ms, after)
      /\ DOMAIN after = DOMAIN ms \cup DOMAIN new
      /\ \A k \in DOMAIN ms : after[k] = ms[k]
      /\ \A k \in DOMAIN new : after[k] = new[k]
  <2>1. \A k \in DOMAIN new : /\ k \notin DOMAIN ms /\ k \in Keys(r, format)
                              /\ new[k].a = Nodes(r, sds, ms, format)[k].entryA
                              /\ new[k].b = Nodes(r, sds, ms, format)[k].entryB
    BY <1>2
  <2>2. IsRows(ms) /\ IsRows(new)
    BY <1>2
  <2>3. Extends(r, sds, format, ms, after)
    BY <2>1, <2>2, AdditionsExtend
  <2>4. after = [k \in DOMAIN new \cup DOMAIN ms |-> IF k \in DOMAIN new THEN new[k] ELSE ms[k]]
    BY DEF Over
  <2> HIDE DEF after
  <2>5. DOMAIN after = DOMAIN ms \cup DOMAIN new
    BY <2>4
  <2>6. \A k \in DOMAIN ms : after[k] = ms[k]
    BY <2>1, <2>4
  <2>7. \A k \in DOMAIN new : after[k] = new[k]
    BY <2>4
  <2> QED
    BY <2>3, <2>5, <2>6, <2>7
<1> HIDE DEF after
<1>4. \A k \in DOMAIN calls : after[k] = ms[k]
  BY <1>3 DEF Fit, CallFits
<1>5. Fit(r, sds, format, after, calls) /\ AllKept(r, sds, format, ms, after)
  BY <1>3, <1>4, FitLater
<1>6. OnlyScheduled(ms, after)
  BY <1>2, <1>3 DEF OnlyScheduled
<1>7. status' = "COMPLETED" => Finished(r, sds, format, after)
  <2>1. status' = "COMPLETED" => BuildBracket(r, sds, ms, format).complete
    BY DEF Reconcile
  <2>2. status' = "COMPLETED" => Finished(r, sds, format, ms)
    BY <2>1, BracketIs DEF Finished
  <2> QED
    BY <1>5, <2>2, FinishedStays
<1> QED
  BY <1>1, <1>3, <1>5, <1>6, <1>7

-----------------------------------------------------------------------------
(* The ranking *)

\* A finite set whose members are counted off by different numbers below its size.
LEMMA EveryNumberIsTaken ==
    ASSUME NEW S, IsFiniteSet(S), NEW g \in [S -> 0..(Cardinality(S) - 1)],
           \A x, y \in S : g[x] = g[y] => x = y
    PROVE  \A i \in 0..(Cardinality(S) - 1) : \E x \in S : g[x] = i
<1> DEFINE n == Cardinality(S)
           T == 0..(n - 1)
<1>1. n \in Nat
  BY FS_CardinalityType
<1>2. IsFiniteSet(T) /\ Cardinality(T) = n
  <2>1. 0 \in Int /\ n - 1 \in Int
    BY <1>1
  <2>2. IsFiniteSet(T) /\ Cardinality(T) = IF 0 > n - 1 THEN 0 ELSE (n - 1) - 0 + 1
    BY <2>1, FS_Interval
  <2> QED
    BY <1>1, <2>2
<1>3. g \in Injection(S, T)
  BY DEF Injection, IsInjective
<1>4. g \in Surjection(S, T)
  <2> HIDE DEF T
  <2> QED
    BY <1>2, <1>3, FS_Injection
<1> QED
  BY <1>4 DEF Surjection

\* The ranking puts any two entries in order.
LEMMA RankingIsAnOrder ==
    ASSUME NEW d \in Entries, NEW e \in Entries, NEW f \in Entries
    PROVE  /\ ~RankedBefore(e, e)
           /\ RankedBefore(d, e) /\ RankedBefore(e, f) => RankedBefore(d, f)
           /\ e # f => RankedBefore(e, f) \/ RankedBefore(f, e)
<1> DEFINE known(x) == Mmr[x] # NoMmr
<1>1. ASSUME NEW x \in Entries
      PROVE  (known(x) => Mmr[x] \in Nat) /\ CreatedAt[x] \in Nat
  BY RankingAssumption
<1>2. e # f => CreatedAt[e] # CreatedAt[f]
  BY RankingAssumption
<1>3. ASSUME NEW x \in Entries, NEW y \in Entries
      PROVE  RankedBefore(x, y) <=>
               \/ known(x) /\ ~known(y)
               \/ known(x) /\ known(y) /\ Mmr[x] > Mmr[y]
               \/ Mmr[x] = Mmr[y] /\ CreatedAt[x] < CreatedAt[y]
  BY DEF RankedBefore
<1>4. CreatedAt[d] \in Nat /\ CreatedAt[e] \in Nat /\ CreatedAt[f] \in Nat
  BY <1>1
<1>5. (known(d) => Mmr[d] \in Nat) /\ (known(e) => Mmr[e] \in Nat) /\ (known(f) => Mmr[f] \in Nat)
  BY <1>1
<1>6. ~RankedBefore(e, e)
  BY <1>3, <1>4, <1>5
<1>7. RankedBefore(d, e) /\ RankedBefore(e, f) => RankedBefore(d, f)
  BY <1>3, <1>4, <1>5
<1>8. e # f => RankedBefore(e, f) \/ RankedBefore(f, e)
  BY <1>2, <1>3, <1>4, <1>5
<1> QED
  BY <1>6, <1>7, <1>8

LEMMA RankingIsASequence ==
    ASSUME NEW S \in SUBSET Entries
    PROVE  /\ RankEntries(S) \in Seq(Entries) /\ Len(RankEntries(S)) = Cardinality(S)
           /\ Distinct(RankEntries(S))
           /\ \A e \in Entries : e \in S <=> \E i \in 1..Len(RankEntries(S)) : RankEntries(S)[i] = e
<1> DEFINE n == Cardinality(S)
           ahead(e) == {f \in S : RankedBefore(f, e)}
           g == [e \in S |-> Cardinality(ahead(e))]
           rank == RankEntries(S)
<1>1. IsFiniteSet(S) /\ n \in Nat
  BY EntriesAssumption, FS_Subset, FS_CardinalityType
<1>2. ASSUME NEW e \in S
      PROVE  IsFiniteSet(ahead(e)) /\ Cardinality(ahead(e)) \in 0..(n - 1)
  <2>1. ahead(e) \subseteq S \ {e}
    BY RankingIsAnOrder
  <2>2. IsFiniteSet(S \ {e}) /\ Cardinality(S \ {e}) = n - 1
    BY <1>1, FS_RemoveElement
  <2> HIDE DEF ahead
  <2>3. IsFiniteSet(ahead(e)) /\ Cardinality(ahead(e)) <= n - 1
    BY <2>1, <2>2, FS_Subset
  <2>4. Cardinality(ahead(e)) \in Nat
    BY <2>3, FS_CardinalityType
  <2> QED
    BY <1>1, <2>3, <2>4
<1>3. ASSUME NEW e \in S, NEW f \in S, RankedBefore(e, f)
      PROVE  g[e] # g[f]
  <2>1. ahead(e) \subseteq ahead(f) /\ e \in ahead(f) /\ e \notin ahead(e)
    <3>1. \A x \in S : RankedBefore(x, e) => RankedBefore(x, f)
      BY <1>3, RankingIsAnOrder
    <3>2. ~RankedBefore(e, e)
      BY RankingIsAnOrder
    <3> QED
      BY <1>3, <3>1, <3>2
  <2>2. IsFiniteSet(ahead(f))
    BY <1>2
  <2>3. g[e] = Cardinality(ahead(e)) /\ g[f] = Cardinality(ahead(f))
    OBVIOUS
  <2> HIDE DEF ahead, g
  <2> QED
    BY <2>1, <2>2, <2>3, FS_Subset
<1>4. \A e, f \in S : g[e] = g[f] => e = f
  <2> HIDE DEF g
  <2> QED
    BY <1>3, RankingIsAnOrder
<1>5. g \in [S -> 0..(n - 1)]
  BY <1>2
<1>6. rank = [i \in 1..n |-> CHOOSE e \in S : Cardinality(ahead(e)) = i - 1]
  BY DEF RankEntries
<1>7. \A i \in 0..(n - 1) : \E e \in S : g[e] = i
  <2> HIDE DEF g, rank
  <2> QED
    BY <1>1, <1>4, <1>5, EveryNumberIsTaken
<1> HIDE DEF ahead, rank
<1>8. ASSUME NEW i \in 1..n
      PROVE  rank[i] \in S /\ g[rank[i]] = i - 1
  <2>1. i - 1 \in 0..(n - 1)
    BY <1>1
  <2>2. rank[i] = CHOOSE e \in S : Cardinality(ahead(e)) = i - 1
    BY <1>6
  <2>3. \E e \in S : Cardinality(ahead(e)) = i - 1
    BY <1>7, <2>1
  <2>4. rank[i] \in S /\ Cardinality(ahead(rank[i])) = i - 1
    BY <2>2, <2>3
  <2> QED
    BY <2>4
<1> HIDE DEF g
<1>9. rank \in [1..n -> Entries] /\ DOMAIN rank = 1..n
  <2>1. DOMAIN rank = 1..n /\ rank = [i \in 1..n |-> rank[i]]
    BY <1>6
  <2> QED
    BY <1>8, <2>1
<1>10. rank \in Seq(Entries) /\ Len(rank) = n
  BY <1>1, <1>9
<1>11. Distinct(rank)
  <2>1. ASSUME NEW i \in 1..n, NEW j \in 1..n, rank[i] = rank[j]
        PROVE  i = j
    <3>1. i - 1 = j - 1
      BY <1>8, <2>1
    <3> QED
      BY <1>1, <3>1
  <2> QED
    BY <1>10, <2>1 DEF Distinct
<1>12. ASSUME NEW e \in S
       PROVE  \E i \in 1..n : rank[i] = e
  <2> DEFINE i == g[e] + 1
  <2>1. i \in 1..n /\ i - 1 = g[e]
    BY <1>1, <1>5
  <2>2. rank[i] \in S /\ g[rank[i]] = g[e]
    BY <1>8, <2>1
  <2> QED
    BY <1>4, <2>1, <2>2
<1> QED
  BY <1>8, <1>10, <1>11, <1>12 DEF rank

-----------------------------------------------------------------------------
(* The invariant *)

TournamentStatuses == {"REGISTRATION_OPEN", "REGISTRATION_CLOSED", "IN_PROGRESS", "COMPLETED", "CANCELLED"}
EntryStatuses == {"REGISTERED", "RECRUITING", "RESERVE", "DISQUALIFIED"}

Typed ==
    /\ format \in Formats /\ status \in TournamentStatuses
    /\ entryStatus \in [Entries -> EntryStatuses]
    /\ rounds \in 0..MaxRounds /\ seeds \in Seq(Entries)
    /\ IsRows(matches)

\* Whoever is in a completed match's row as its winner has played it.
WinnersPlayed(ms) == \A k \in DOMAIN ms : ms[k].status = "COMPLETED" => ms[k].winner \in {ms[k].a, ms[k].b}
NoneCancelled(ms) == \A k \in DOMAIN ms : ms[k].status # "CANCELLED"

\* A bracket exists from the start on, is not cancelled while the tournament is
\* active, and is finished once the tournament is completed.
Phases ==
    /\ status \in {"REGISTRATION_OPEN", "REGISTRATION_CLOSED"} => rounds = 0
    /\ status = "IN_PROGRESS" => rounds > 0 /\ NoneCancelled(matches)
    /\ rounds = 0 => DOMAIN matches = {} /\ DOMAIN confirming = {}
    /\ status = "COMPLETED" => rounds > 0 /\ Finished(rounds, seeds, format, matches)

\* The seeds are the registered entries.
SeedsAreRegistered ==
    rounds > 0 => /\ Distinct(seeds)
                  /\ \A e \in Entries : entryStatus[e] = "REGISTERED" <=> \E i \in 1..Len(seeds) : seeds[i] = e

BracketFits == rounds > 0 => Fit(rounds, seeds, format, matches, confirming)

Inv == Typed /\ Phases /\ SeedsAreRegistered /\ BracketFits /\ WinnersPlayed(matches)

\* What was settled stays so.
SettledStay ==
    rounds > 0 =>
      /\ rounds' = rounds /\ format' = format
      /\ \A key \in Keys(rounds, format) :
           LET before == Nodes(rounds, seeds, matches, format)[key]
               after == Nodes(rounds, seeds', matches', format)[key]
           IN  before.hasMatch /\ before.resolved => after.winner = before.winner /\ after.loser = before.loser

LEMMA InitFits == Init => Inv
<1> SUFFICES ASSUME Init PROVE Inv
  OBVIOUS
<1>1. DOMAIN matches = {} /\ DOMAIN confirming = {} /\ rounds = 0 /\ seeds = <<>> /\ matches = <<>>
  BY DEF Init
<1>2. IsRows(matches)
  <2>1. matches = [k \in DOMAIN matches |-> matches[k]]
    BY <1>1
  <2> QED
    BY <1>1, <2>1 DEF IsRows
<1>3. rounds \in 0..MaxRounds /\ seeds \in Seq(Entries)
  BY <1>1 DEF MaxRounds
<1>4. /\ format \in Formats /\ status = "REGISTRATION_OPEN"
      /\ entryStatus \in [Entries -> {"REGISTERED", "RECRUITING", "RESERVE"}]
  BY DEF Init
<1>5. Typed
  BY <1>2, <1>3, <1>4 DEF Typed, TournamentStatuses, EntryStatuses
<1> QED
  BY <1>1, <1>4, <1>5 DEF Inv, Phases, SeedsAreRegistered, BracketFits, WinnersPlayed

LEMMA KeptTwice ==
    ASSUME NEW r, NEW f, NEW sds, NEW ms, NEW ms2, NEW ms3,
           AllKept(r, sds, f, ms, ms2), AllKept(r, sds, f, ms2, ms3)
    PROVE  AllKept(r, sds, f, ms, ms3)
<1> SUFFICES ASSUME NEW key \in Keys(r, f)
             PROVE  Kept(Nodes(r, sds, ms, f)[key], Nodes(r, sds, ms3, f)[key])
  BY DEF AllKept
<1> DEFINE x == Nodes(r, sds, ms, f)[key]
           y == Nodes(r, sds, ms2, f)[key]
           z == Nodes(r, sds, ms3, f)[key]
<1>1. Kept(x, y) /\ Kept(y, z)
  BY DEF AllKept
<1> HIDE DEF x, y, z
<1>2. Kept(x, z)
  BY <1>1 DEF Kept
<1> QED
  BY <1>2 DEF x, z

\* A step that keeps the seeds and what the nodes say.
LEMMA KeptSettled ==
    ASSUME UNCHANGED <<format, rounds, seeds>>,
           rounds > 0 => AllKept(rounds, seeds, format, matches, matches')
    PROVE  SettledStay
BY DEF SettledStay, AllKept, Kept

\* A step that changes rows and confirmations only.
LEMMA InvGrows ==
    ASSUME Inv, rounds > 0, UNCHANGED <<format, rounds, seeds, entryStatus>>,
           IsRows(matches'), WinnersPlayed(matches'),
           Fit(rounds, seeds, format, matches', confirming'),
           AllKept(rounds, seeds, format, matches, matches'),
           status' \in {"IN_PROGRESS", "COMPLETED", "CANCELLED"},
           status' = "IN_PROGRESS" => NoneCancelled(matches'),
           status' = "COMPLETED" => status = "COMPLETED" \/ Finished(rounds, seeds, format, matches')
    PROVE  Inv' /\ SettledStay
<1>1. Typed'
  BY DEF Inv, Typed, TournamentStatuses
<1>2. rounds' > 0 /\ rounds' # 0
  BY DEF Inv, Typed
<1>3. Phases'
  <2>1. rounds \in 1..MaxRounds /\ format \in Formats
    BY DEF Inv, Typed, MaxRounds
  <2>2. status = "COMPLETED" => Finished(rounds, seeds, format, matches)
    BY DEF Inv, Phases
  <2>3. status' = "COMPLETED" => Finished(rounds, seeds, format, matches')
    BY <2>1, <2>2, FinishedStays
  <2>4. (Finished(rounds, seeds, format, matches))' <=> Finished(rounds, seeds, format, matches')
    BY DEF Finished
  <2> QED
    BY <1>2, <2>3, <2>4 DEF Phases
<1>4. SeedsAreRegistered'
  BY DEF Inv, SeedsAreRegistered
<1>5. BracketFits' /\ WinnersPlayed(matches')
  BY DEF BracketFits
<1>6. SettledStay
  BY KeptSettled
<1>7. (WinnersPlayed(matches))' = WinnersPlayed(matches')
  BY DEF WinnersPlayed
<1> QED
  BY <1>1, <1>3, <1>4, <1>5, <1>6, <1>7 DEF Inv

LEMMA InvSays ==
    ASSUME Inv
    PROVE  /\ format \in Formats /\ IsRows(matches) /\ seeds \in Seq(Entries)
           /\ WinnersPlayed(matches) /\ rounds \in 0..MaxRounds
           /\ (DOMAIN matches # {} \/ DOMAIN confirming # {} \/ status = "IN_PROGRESS" \/ rounds > 0) =>
                /\ rounds > 0 /\ rounds \in 1..MaxRounds /\ Distinct(seeds)
                /\ status \in {"IN_PROGRESS", "COMPLETED", "CANCELLED"}
                /\ Fit(rounds, seeds, format, matches, confirming)
           /\ status = "IN_PROGRESS" => NoneCancelled(matches)
<1>1. Typed /\ Phases /\ SeedsAreRegistered /\ BracketFits /\ WinnersPlayed(matches)
  BY DEF Inv
<1>2. MaxRounds \in Nat
  BY DEF MaxRounds
<1>3. rounds \in 0..MaxRounds /\ (rounds # 0 => rounds > 0 /\ rounds \in 1..MaxRounds)
  BY <1>1, <1>2 DEF Typed
<1>4. ASSUME DOMAIN matches # {} \/ DOMAIN confirming # {} \/ status = "IN_PROGRESS" \/ rounds > 0
      PROVE  rounds # 0
  BY <1>1, <1>3, <1>4 DEF Phases
<1>5. rounds # 0 => status \in {"IN_PROGRESS", "COMPLETED", "CANCELLED"}
  BY <1>1 DEF Phases, Typed, TournamentStatuses
<1>6. rounds # 0 => Distinct(seeds) /\ Fit(rounds, seeds, format, matches, confirming)
  BY <1>1, <1>3 DEF SeedsAreRegistered, BracketFits
<1> QED
  BY <1>1, <1>3, <1>4, <1>5, <1>6 DEF Typed, Phases

-----------------------------------------------------------------------------
(* One lemma per action *)

\* The result of a match that nobody else holds.
LEMMA DecidedFits ==
    ASSUME Inv, NEW k \in DOMAIN matches, matches[k].status \in Unresolved,
           NEW w \in {matches[k].a, matches[k].b}, NEW calls, k \notin DOMAIN calls,
           Fit(rounds, seeds, format, matches, calls)
    PROVE  LET d == Decided(k, w)
           IN  /\ IsRows(d) /\ DOMAIN d = DOMAIN matches /\ Fit(rounds, seeds, format, d, calls)
               /\ AllKept(rounds, seeds, format, matches, d) /\ WinnersPlayed(d)
               /\ NoneCancelled(matches) => NoneCancelled(d)
<1> DEFINE d == Decided(k, w)
<1>1. /\ format \in Formats /\ IsRows(matches) /\ rounds \in 1..MaxRounds /\ WinnersPlayed(matches)
  BY InvSays
<1>2. w \in Entries /\ matches[k].status # "COMPLETED"
  BY <1>1, RowsAreKnown DEF Unresolved
<1>3. d = Decide(matches, k, w)
  BY <1>2, EntriesAssumption DEF Decided, Decide
<1> HIDE DEF d
<1>4. /\ IsRows(d) /\ DOMAIN d = DOMAIN matches /\ \A j \in DOMAIN matches : j # k => d[j] = matches[j]
      /\ d[k].a = matches[k].a /\ d[k].b = matches[k].b /\ d[k].status = "COMPLETED" /\ d[k].winner = w
  BY <1>1, <1>2, <1>3, DecideIs
<1>5. Extends(rounds, seeds, format, matches, d)
  BY <1>1, <1>2, <1>3, DecisionsExtend
<1>6. \A c \in DOMAIN calls : d[c] = matches[c]
  BY <1>4 DEF Fit, CallFits
<1>7. Fit(rounds, seeds, format, d, calls) /\ AllKept(rounds, seeds, format, matches, d)
  BY <1>1, <1>5, <1>6, FitLater
<1>8. WinnersPlayed(d) /\ (NoneCancelled(matches) => NoneCancelled(d))
  BY <1>1, <1>4 DEF WinnersPlayed, NoneCancelled
<1> QED
  BY <1>4, <1>7, <1>8 DEF d

\* d is the rows with that of one match rewritten, which stays open.
Reopens(d, k) ==
    \E after \in Rows : /\ after.a = matches[k].a /\ after.b = matches[k].b /\ after.status \in Unresolved
                        /\ d = [j \in DOMAIN matches |-> IF j = k THEN after ELSE matches[j]]

LEMMA StatusReopens ==
    ASSUME Inv, NEW k \in DOMAIN matches, NEW s \in Unresolved
    PROVE  Reopens([matches EXCEPT ![k].status = s], k)
<1> DEFINE row == matches[k]
           after == [row EXCEPT !.status = s]
           d == [matches EXCEPT ![k].status = s]
<1>1. IsRows(matches) /\ row \in Rows /\ s \in MatchStatuses
  BY InvSays DEF IsRows, Unresolved, MatchStatuses
<1>2. d = [j \in DOMAIN matches |-> IF j = k THEN after ELSE matches[j]]
  BY <1>1 DEF IsRows
<1> HIDE DEF row
<1>3. after \in Rows /\ after.a = row.a /\ after.b = row.b /\ after.status = s
  BY <1>1 DEF Rows
<1> HIDE DEF after, d
<1> QED
  BY <1>2, <1>3 DEF Reopens, row, d

LEMMA NextGameReopens ==
    ASSUME Inv, NEW k \in DOMAIN matches
    PROVE  Reopens(Decided(k, NoEntry), k)
<1> DEFINE row == matches[k]
           first == [row EXCEPT !.status = "IN_PROGRESS"]
           after == [first EXCEPT !.winner = NoEntry]
           d == Decided(k, NoEntry)
<1>1. IsRows(matches) /\ row \in Rows
  BY InvSays DEF IsRows
<1>2. d = [j \in DOMAIN matches |-> IF j = k THEN after ELSE matches[j]]
  BY <1>1 DEF IsRows, Decided
<1> HIDE DEF row
<1>3. first \in Rows /\ first.a = row.a /\ first.b = row.b /\ first.status = "IN_PROGRESS"
  BY <1>1 DEF Rows, MatchStatuses
<1> HIDE DEF first
<1>4. after \in Rows /\ after.a = row.a /\ after.b = row.b /\ after.status = "IN_PROGRESS"
  BY <1>3 DEF Rows
<1> HIDE DEF after, d
<1> QED
  BY <1>2, <1>4 DEF Reopens, Unresolved, row, d

\* A match that nobody else holds is started, put back or goes on with its next game.
LEMMA RestatusFits ==
    ASSUME Inv, NEW k \in DOMAIN matches, matches[k].status \in Unresolved,
           NEW d, Reopens(d, k), k \notin DOMAIN confirming
    PROVE  /\ IsRows(d) /\ DOMAIN d = DOMAIN matches /\ Fit(rounds, seeds, format, d, confirming)
           /\ AllKept(rounds, seeds, format, matches, d) /\ WinnersPlayed(d)
           /\ NoneCancelled(matches) => NoneCancelled(d)
<1>1. /\ format \in Formats /\ IsRows(matches) /\ rounds \in 1..MaxRounds /\ WinnersPlayed(matches)
      /\ Fit(rounds, seeds, format, matches, confirming)
  BY InvSays
<1>2. PICK after \in Rows :
           /\ after.a = matches[k].a /\ after.b = matches[k].b /\ after.status \in Unresolved
           /\ d = [j \in DOMAIN matches |-> IF j = k THEN after ELSE matches[j]]
  BY DEF Reopens
<1>3. /\ after.status # "COMPLETED" /\ after.status # "CANCELLED" /\ matches[k].status # "COMPLETED"
  BY <1>2 DEF Unresolved
<1>4. DOMAIN d = DOMAIN matches /\ d[k] = after /\ \A j \in DOMAIN matches : j # k => d[j] = matches[j]
  BY <1>2
<1>5. d = [j \in DOMAIN d |-> d[j]]
  BY <1>2, <1>4
<1>6. IsRows(d)
  BY <1>1, <1>2, <1>4, <1>5 DEF IsRows
<1>7. Extends(rounds, seeds, format, matches, d)
  BY <1>2, <1>3, <1>4, <1>6 DEF Extends
<1>8. \A c \in DOMAIN confirming : d[c] = matches[c]
  BY <1>1, <1>4 DEF Fit, CallFits
<1>9. Fit(rounds, seeds, format, d, confirming) /\ AllKept(rounds, seeds, format, matches, d)
  BY <1>1, <1>7, <1>8, FitLater
<1>10. WinnersPlayed(d) /\ (NoneCancelled(matches) => NoneCancelled(d))
  BY <1>1, <1>3, <1>4 DEF WinnersPlayed, NoneCancelled
<1> QED
  BY <1>4, <1>6, <1>9, <1>10

\* A reconciliation after rows have changed.
LEMMA ReconciledInv ==
    ASSUME Inv, rounds > 0, NEW ms, IsRows(ms), WinnersPlayed(ms), NoneCancelled(ms),
           Fit(rounds, seeds, format, ms, confirming), AllKept(rounds, seeds, format, matches, ms),
           Reconcile(ms, seeds, rounds), UNCHANGED <<format, entryStatus, rounds, seeds, confirming>>
    PROVE  Inv' /\ SettledStay
<1>1. format \in Formats /\ rounds \in 1..MaxRounds /\ seeds \in Seq(Entries) /\ Distinct(seeds)
  BY InvSays
<1>2. /\ Fit(rounds, seeds, format, matches', confirming) /\ Extends(rounds, seeds, format, ms, matches')
      /\ AllKept(rounds, seeds, format, ms, matches') /\ OnlyScheduled(ms, matches')
      /\ status' \in {"COMPLETED", "IN_PROGRESS"}
      /\ status' = "COMPLETED" => Finished(rounds, seeds, format, matches')
  BY <1>1, ReconcileFits
<1>3. AllKept(rounds, seeds, format, matches, matches')
  BY <1>2, KeptTwice
<1>4. IsRows(matches')
  BY <1>2 DEF Extends
<1>5. WinnersPlayed(matches')
  BY <1>2 DEF OnlyScheduled, WinnersPlayed
<1>6. NoneCancelled(matches')
  BY <1>2 DEF OnlyScheduled, NoneCancelled
<1>7. Fit(rounds, seeds, format, matches', confirming')
  BY <1>2
<1>8. status' \in {"IN_PROGRESS", "COMPLETED", "CANCELLED"}
  BY <1>2
<1> QED
  BY <1>2, <1>3, <1>4, <1>5, <1>6, <1>7, <1>8, InvGrows

LEMMA StartMatchKeepsInv ==
    ASSUME Inv, NEW k \in DOMAIN matches, StartMatch(k)
    PROVE  Inv' /\ SettledStay
<1>1. /\ matches[k].status \in Unresolved /\ k \notin DOMAIN confirming /\ "IN_PROGRESS" \in Unresolved
      /\ matches' = [matches EXCEPT ![k].status = "IN_PROGRESS"]
      /\ UNCHANGED <<format, status, entryStatus, rounds, seeds, confirming>>
  BY DEF StartMatch, Playable, RowLocked, Unresolved, registration, Unsettled
<1>2. /\ IsRows(matches') /\ Fit(rounds, seeds, format, matches', confirming)
      /\ AllKept(rounds, seeds, format, matches, matches') /\ WinnersPlayed(matches')
      /\ NoneCancelled(matches) => NoneCancelled(matches')
  BY <1>1, RestatusFits, StatusReopens
<1>3. rounds > 0 /\ status \in {"IN_PROGRESS", "COMPLETED", "CANCELLED"}
      /\ (status = "IN_PROGRESS" => NoneCancelled(matches))
  BY InvSays
<1> QED
  BY <1>1, <1>2, <1>3, InvGrows

LEMMA ReplayMatchKeepsInv ==
    ASSUME Inv, NEW k \in DOMAIN matches, ReplayMatch(k)
    PROVE  Inv' /\ SettledStay
<1> DEFINE d == [matches EXCEPT ![k].status = "SCHEDULED"]
<1>1. /\ matches[k].status \in Unresolved /\ k \notin DOMAIN confirming /\ "SCHEDULED" \in Unresolved
      /\ IF status = "IN_PROGRESS" THEN Reconcile(d, seeds, rounds) ELSE matches' = d /\ UNCHANGED status
      /\ UNCHANGED <<format, entryStatus, rounds, seeds, confirming>>
  BY DEF ReplayMatch, Playable, RowLocked, Unresolved, registration, Unsettled
<1>2. /\ IsRows(d) /\ Fit(rounds, seeds, format, d, confirming)
      /\ AllKept(rounds, seeds, format, matches, d) /\ WinnersPlayed(d)
      /\ NoneCancelled(matches) => NoneCancelled(d)
  <2>1. Reopens(d, k)
    BY <1>1, StatusReopens
  <2> HIDE DEF d
  <2> QED
    BY <1>1, <2>1, RestatusFits
<1>3. rounds > 0 /\ status \in {"IN_PROGRESS", "COMPLETED", "CANCELLED"}
      /\ (status = "IN_PROGRESS" => NoneCancelled(matches))
  BY InvSays
<1> HIDE DEF d
<1>4. CASE status = "IN_PROGRESS"
  BY <1>1, <1>2, <1>3, <1>4, ReconciledInv
<1>5. CASE status # "IN_PROGRESS"
  BY <1>1, <1>2, <1>3, <1>5, InvGrows
<1> QED
  BY <1>4, <1>5

\* What a decision that is still open will write.
DecidingFits ==
    /\ DOMAIN deciding # {} => cancelling = NotCancelling
    /\ \A k \in DOMAIN deciding : /\ k \in DOMAIN matches
                                  /\ deciding[k] \in {matches[k].a, matches[k].b, NoEntry}

\* It fits if its match has not been settled in the meantime.
LEMMA DecisionFits ==
    ASSUME Inv, DecidingFits, Intact', NEW k \in DOMAIN deciding, CommitDecision(k)
    PROVE  LET d == Decided(k, deciding[k])
           IN  /\ k \in DOMAIN matches /\ matches[k].status \in Unresolved
               /\ IsRows(d) /\ Fit(rounds, seeds, format, d, confirming)
               /\ AllKept(rounds, seeds, format, matches, d) /\ WinnersPlayed(d)
               /\ NoneCancelled(matches) => NoneCancelled(d)
               /\ IF status = "IN_PROGRESS" THEN Reconcile(d, seeds, rounds)
                  ELSE matches' = d /\ UNCHANGED status
               /\ UNCHANGED <<format, entryStatus, rounds, seeds, confirming>>
<1> DEFINE w == deciding[k]
           d == Decided(k, w)
<1>1. /\ k \notin DOMAIN confirming
      /\ IF status = "IN_PROGRESS" THEN Reconcile(d, seeds, rounds) ELSE matches' = d /\ UNCHANGED status
      /\ UNCHANGED <<format, entryStatus, rounds, seeds, confirming>>
  BY DEF CommitDecision, RowLocked, registration
<1>2. k \in DOMAIN matches /\ matches[k].status \in Unresolved /\ w \in {matches[k].a, matches[k].b, NoEntry}
  BY DEF CommitDecision, Intact, Unsettled, DecidingFits
<1>3. Fit(rounds, seeds, format, matches, confirming)
  BY <1>2, InvSays
<1> HIDE DEF w
<1>4. CASE w = NoEntry
  <2>1. Reopens(d, k)
    BY <1>2, <1>4, NextGameReopens
  <2> HIDE DEF d
  <2>2. /\ IsRows(d) /\ Fit(rounds, seeds, format, d, confirming)
        /\ AllKept(rounds, seeds, format, matches, d) /\ WinnersPlayed(d)
        /\ NoneCancelled(matches) => NoneCancelled(d)
    BY <1>1, <1>2, <2>1, RestatusFits
  <2> QED
    BY <1>1, <1>2, <2>2 DEF d, w
<1>5. CASE w \in {matches[k].a, matches[k].b}
  <2>1. /\ IsRows(d) /\ Fit(rounds, seeds, format, d, confirming)
        /\ AllKept(rounds, seeds, format, matches, d) /\ WinnersPlayed(d)
        /\ NoneCancelled(matches) => NoneCancelled(d)
    BY <1>1, <1>2, <1>3, <1>5, DecidedFits
  <2> HIDE DEF d
  <2> QED
    BY <1>1, <1>2, <2>1 DEF d, w
<1> QED
  BY <1>2, <1>4, <1>5

LEMMA CommitDecisionKeepsInv ==
    ASSUME Inv, DecidingFits, Intact', NEW k \in DOMAIN deciding, CommitDecision(k)
    PROVE  Inv' /\ SettledStay
<1> DEFINE d == Decided(k, deciding[k])
<1>1. /\ k \in DOMAIN matches
      /\ IsRows(d) /\ Fit(rounds, seeds, format, d, confirming)
      /\ AllKept(rounds, seeds, format, matches, d) /\ WinnersPlayed(d)
      /\ NoneCancelled(matches) => NoneCancelled(d)
      /\ IF status = "IN_PROGRESS" THEN Reconcile(d, seeds, rounds) ELSE matches' = d /\ UNCHANGED status
      /\ UNCHANGED <<format, entryStatus, rounds, seeds, confirming>>
  BY DecisionFits
<1>2. rounds > 0 /\ status \in {"IN_PROGRESS", "COMPLETED", "CANCELLED"}
      /\ (status = "IN_PROGRESS" => NoneCancelled(matches))
  BY <1>1, InvSays
<1> HIDE DEF d
<1>3. CASE status = "IN_PROGRESS"
  BY <1>1, <1>2, <1>3, ReconciledInv
<1>4. CASE status # "IN_PROGRESS"
  BY <1>1, <1>2, <1>4, InvGrows
<1> QED
  BY <1>3, <1>4

LEMMA ScanReconcileKeepsInv ==
    ASSUME Inv, ScanReconcile
    PROVE  Inv' /\ SettledStay
<1>1. /\ status = "IN_PROGRESS" /\ rounds > 0 /\ Reconcile(matches, seeds, rounds)
      /\ UNCHANGED <<format, entryStatus, rounds, seeds, confirming>>
  BY DEF ScanReconcile, registration
<1>2. /\ IsRows(matches) /\ WinnersPlayed(matches) /\ NoneCancelled(matches)
      /\ Fit(rounds, seeds, format, matches, confirming)
  BY <1>1, InvSays
<1>3. AllKept(rounds, seeds, format, matches, matches)
  BY DEF AllKept, Kept
<1> QED
  BY <1>1, <1>2, <1>3, ReconciledInv

LEMMA ConfirmManagedResultKeepsInv ==
    ASSUME Inv, NEW k \in DOMAIN matches, NEW w \in {matches[k].a, matches[k].b}, ConfirmManagedResult(k, w)
    PROVE  Inv' /\ SettledStay
<1> DEFINE d == Decided(k, w)
           bracket == BuildBracket(rounds, seeds, d, format)
           new == IF status = "IN_PROGRESS" THEN ReadyMatches(bracket) ELSE <<>>
           call == [winner |-> w, completes |-> status = "IN_PROGRESS" /\ bracket.complete, create |-> new]
           calls == Over([c \in {k} |-> call], confirming)
<1>1. /\ matches[k].status = "IN_PROGRESS" /\ confirming' = calls
      /\ UNCHANGED <<format, status, entryStatus, rounds, seeds, matches>>
  BY DEF ConfirmManagedResult, Playable, RowLocked, registration, Unsettled
<1>2. /\ rounds > 0 /\ rounds \in 1..MaxRounds /\ format \in Formats /\ seeds \in Seq(Entries) /\ Distinct(seeds)
      /\ IsRows(matches) /\ WinnersPlayed(matches)
      /\ status \in {"IN_PROGRESS", "COMPLETED", "CANCELLED"} /\ (status = "IN_PROGRESS" => NoneCancelled(matches))
      /\ Fit(rounds, seeds, format, matches, confirming)
  BY InvSays
<1>3. /\ IsRows(new)
      /\ \A m \in DOMAIN new : /\ m \notin DOMAIN d /\ m \in Keys(rounds, format)
                               /\ new[m].a = Nodes(rounds, seeds, d, format)[m].entryA
                               /\ new[m].b = Nodes(rounds, seeds, d, format)[m].entryB
                               /\ new[m].status = "SCHEDULED"
  <2>1. CASE status = "IN_PROGRESS"
    <3>1. new = ReadyMatches(bracket)
      BY <2>1
    <3> HIDE DEF d
    <3> QED
      BY <1>2, <3>1, ReadyRows
  <2>2. CASE status # "IN_PROGRESS"
    <3>1. new = <<>> /\ DOMAIN new = {} /\ new = [m \in DOMAIN new |-> new[m]]
      BY <2>2
    <3> QED
      BY <3>1 DEF IsRows
  <2> QED
    BY <2>1, <2>2
<1>4. call.winner = w /\ call.create = new /\ (call.completes => bracket.complete)
  OBVIOUS
<1> HIDE DEF new, bracket, call
<1>5. d = Decide(matches, k, w)
  BY <1>2, RowsAreKnown DEF Decided, Decide
<1>6. CallFits(rounds, seeds, format, matches, k, call)
  <2> HIDE DEF d
  <2> QED
    BY <1>1, <1>3, <1>4, <1>5, BracketIs DEF CallFits, Finished, bracket
<1> HIDE DEF d
<1>7. /\ DOMAIN calls = DOMAIN confirming \cup {k} /\ calls[k] = call
      /\ \A c \in DOMAIN confirming : c # k => calls[c] = confirming[c]
  <2> DEFINE one == [c \in {k} |-> call]
  <2>1. DOMAIN one = {k} /\ one[k] = call
    OBVIOUS
  <2> HIDE DEF one
  <2>2. Over(one, confirming) = [c \in DOMAIN one \cup DOMAIN confirming |-> IF c \in DOMAIN one THEN one[c] ELSE confirming[c]]
    BY DEF Over
  <2> QED
    BY <2>1, <2>2 DEF one
<1> HIDE DEF calls
<1>8. Fit(rounds, seeds, format, matches, calls)
  BY <1>2, <1>6, <1>7 DEF Fit
<1>9. AllKept(rounds, seeds, format, matches, matches)
  BY DEF AllKept, Kept
<1> QED
  BY <1>1, <1>2, <1>8, <1>9, InvGrows

\* A confirmation is taken off the open ones.
LEMMA FewerCalls ==
    ASSUME NEW k, Fit(rounds, seeds, format, matches, confirming)
    PROVE  Fit(rounds, seeds, format, matches, [c \in DOMAIN confirming \ {k} |-> confirming[c]])
BY DEF Fit

LEMMA AbortManagedResultKeepsInv ==
    ASSUME Inv, NEW k \in DOMAIN confirming, AbortManagedResult(k)
    PROVE  Inv' /\ SettledStay
<1> DEFINE calls == [c \in DOMAIN confirming \ {k} |-> confirming[c]]
<1>1. UNCHANGED <<format, status, entryStatus, rounds, seeds, matches>> /\ confirming' = calls
  BY DEF AbortManagedResult, registration
<1>2. /\ rounds > 0 /\ IsRows(matches) /\ WinnersPlayed(matches)
      /\ status \in {"IN_PROGRESS", "COMPLETED", "CANCELLED"} /\ (status = "IN_PROGRESS" => NoneCancelled(matches))
      /\ Fit(rounds, seeds, format, matches, confirming)
  BY InvSays
<1>3. Fit(rounds, seeds, format, matches, calls)
  BY <1>2, FewerCalls
<1>4. AllKept(rounds, seeds, format, matches, matches)
  BY DEF AllKept, Kept
<1> HIDE DEF calls
<1> QED
  BY <1>1, <1>2, <1>3, <1>4, InvGrows

LEMMA CommitManagedResultKeepsInv ==
    ASSUME Inv, NEW k \in DOMAIN confirming, CommitManagedResult(k)
    PROVE  Inv' /\ SettledStay
<1> DEFINE w == confirming[k].winner
           new == confirming[k].create
           d == Decided(k, w)
           calls == [c \in DOMAIN confirming \ {k} |-> confirming[c]]
           after == Over(new, d)
<1>1. /\ DOMAIN new \cap DOMAIN matches = {} /\ matches' = after /\ confirming' = calls
      /\ (status' = "COMPLETED" /\ confirming[k].completes) \/ status' = status
      /\ UNCHANGED <<format, entryStatus, rounds, seeds>>
  BY DEF CommitManagedResult, registration
<1>2. /\ rounds > 0 /\ rounds \in 1..MaxRounds /\ format \in Formats /\ IsRows(matches) /\ WinnersPlayed(matches)
      /\ status \in {"IN_PROGRESS", "COMPLETED", "CANCELLED"} /\ (status = "IN_PROGRESS" => NoneCancelled(matches))
      /\ Fit(rounds, seeds, format, matches, confirming)
  BY InvSays
<1>3. /\ k \in DOMAIN matches /\ matches[k].status \in Unresolved /\ w \in {matches[k].a, matches[k].b}
      /\ CallFits(rounds, seeds, format, matches, k, confirming[k])
  BY <1>2 DEF Fit, CallFits, Unresolved
<1>4. Fit(rounds, seeds, format, matches, calls) /\ k \notin DOMAIN calls
  BY <1>2, FewerCalls
<1>5. d = Decide(matches, k, w)
  BY <1>2, <1>3, RowsAreKnown DEF Decided, Decide
<1> HIDE DEF calls, w
<1>6. /\ IsRows(d) /\ DOMAIN d = DOMAIN matches /\ Fit(rounds, seeds, format, d, calls)
      /\ AllKept(rounds, seeds, format, matches, d) /\ WinnersPlayed(d)
      /\ NoneCancelled(matches) => NoneCancelled(d)
  BY <1>3, <1>4, DecidedFits
<1> HIDE DEF d
<1>7. /\ IsRows(new)
      /\ \A m \in DOMAIN new : /\ m \notin DOMAIN d /\ m \in Keys(rounds, format)
                               /\ new[m].a = Nodes(rounds, seeds, d, format)[m].entryA
                               /\ new[m].b = Nodes(rounds, seeds, d, format)[m].entryB
                               /\ new[m].status = "SCHEDULED"
  BY <1>1, <1>3, <1>5, <1>6 DEF CallFits, w
<1> HIDE DEF new
<1>8. Extends(rounds, seeds, format, d, after)
  <2>1. \A m \in DOMAIN new : /\ m \notin DOMAIN d /\ m \in Keys(rounds, format)
                               /\ new[m].a = Nodes(rounds, seeds, d, format)[m].entryA
                               /\ new[m].b = Nodes(rounds, seeds, d, format)[m].entryB
    BY <1>7
  <2> HIDE DEF after
  <2>2. Extends(rounds, seeds, format, d, Over(new, d))
    BY <1>6, <1>7, <2>1, AdditionsExtend
  <2> QED
    BY <2>2 DEF after
<1>9. /\ DOMAIN after = DOMAIN d \cup DOMAIN new
      /\ \A m \in DOMAIN d : after[m] = d[m]
      /\ \A m \in DOMAIN new : after[m] = new[m]
  <2>1. after = [m \in DOMAIN new \cup DOMAIN d |-> IF m \in DOMAIN new THEN new[m] ELSE d[m]]
    BY DEF Over
  <2> HIDE DEF after
  <2> QED
    BY <1>7, <2>1
<1> HIDE DEF after
<1>10. \A c \in DOMAIN calls : after[c] = d[c]
  BY <1>6, <1>9 DEF Fit, CallFits
<1>11. Fit(rounds, seeds, format, after, calls) /\ AllKept(rounds, seeds, format, d, after)
  BY <1>2, <1>6, <1>8, <1>10, FitLater
<1>12. AllKept(rounds, seeds, format, matches, after)
  BY <1>6, <1>11, KeptTwice
<1>13. IsRows(after) /\ WinnersPlayed(after) /\ (NoneCancelled(matches) => NoneCancelled(after))
  BY <1>6, <1>7, <1>8, <1>9 DEF Extends, WinnersPlayed, NoneCancelled
<1>14. status' = "COMPLETED" => status = "COMPLETED" \/ Finished(rounds, seeds, format, after)
  <2>1. confirming[k].completes => Finished(rounds, seeds, format, d)
    BY <1>3, <1>5 DEF CallFits, w
  <2> QED
    BY <1>1, <1>2, <1>11, <2>1, FinishedStays
<1> QED
  BY <1>1, <1>2, <1>11, <1>12, <1>13, <1>14, InvGrows

\* Steps that leave the bracket alone.
LEMMA QuietStepsKeepInv ==
    ASSUME Inv, UNCHANGED <<format, status, entryStatus, rounds, seeds, matches, confirming>>
    PROVE  Inv' /\ SettledStay
<1>1. Typed' /\ Phases' /\ SeedsAreRegistered' /\ BracketFits' /\ (WinnersPlayed(matches))'
  BY DEF Inv, Typed, Phases, Finished, NoneCancelled, SeedsAreRegistered, BracketFits, WinnersPlayed
<1>2. AllKept(rounds, seeds, format, matches, matches')
  BY DEF AllKept, Kept
<1> QED
  BY <1>1, <1>2, KeptSettled DEF Inv

LEMMA RegistrationClosingKeepsInv ==
    ASSUME Inv, rounds = 0, status' = "REGISTRATION_CLOSED", entryStatus' = RecruitsToReserve,
           UNCHANGED <<format, rounds, seeds, matches, confirming>>
    PROVE  Inv' /\ SettledStay
<1>1. Typed'
  BY DEF Inv, Typed, TournamentStatuses, EntryStatuses, RecruitsToReserve
<1>2. Phases' /\ SeedsAreRegistered' /\ BracketFits' /\ (WinnersPlayed(matches))'
  BY DEF Inv, Phases, SeedsAreRegistered, BracketFits, WinnersPlayed
<1> QED
  BY <1>1, <1>2 DEF Inv, SettledStay

LEMMA CommitCancelKeepsInv ==
    ASSUME Inv, CommitCancel
    PROVE  Inv' /\ SettledStay
<1> DEFINE hit(k) == k \in cancelling /\ matches[k].status \in Unresolved
           after == [k \in DOMAIN matches |->
                       IF hit(k) THEN [matches[k] EXCEPT !.status = "CANCELLED"] ELSE matches[k]]
<1>1. /\ matches' = after /\ status' = "CANCELLED" /\ \A k \in cancelling : k \notin DOMAIN confirming
      /\ UNCHANGED <<format, entryStatus, rounds, seeds, confirming>>
  BY DEF CommitCancel, RowLocked, registration
<1>2. IsRows(matches) /\ WinnersPlayed(matches) /\ format \in Formats
  BY InvSays
<1> HIDE DEF after
<1>3. DOMAIN after = DOMAIN matches /\ \A k \in DOMAIN matches : ~hit(k) => after[k] = matches[k]
  BY DEF after
<1>4. ASSUME NEW k \in DOMAIN matches, hit(k)
      PROVE  /\ after[k] \in Rows /\ after[k].a = matches[k].a /\ after[k].b = matches[k].b
             /\ after[k].status = "CANCELLED" /\ matches[k].status # "COMPLETED"
  <2>1. after[k] = [matches[k] EXCEPT !.status = "CANCELLED"]
    BY <1>4 DEF after
  <2>2. matches[k] \in Rows /\ matches[k].status # "COMPLETED"
    BY <1>2, <1>4 DEF IsRows, Unresolved
  <2> DEFINE row == matches[k]
             out == [row EXCEPT !.status = "CANCELLED"]
  <2> HIDE DEF row
  <2>3. row \in Rows => out \in Rows /\ out.a = row.a /\ out.b = row.b /\ out.status = "CANCELLED"
    BY DEF Rows, MatchStatuses
  <2> QED
    BY <2>1, <2>2, <2>3 DEF row
<1>5. IsRows(after)
  <2>1. after = [k \in DOMAIN after |-> after[k]]
    BY DEF after
  <2>2. \A k \in DOMAIN after : after[k] \in Rows
    BY <1>2, <1>3, <1>4 DEF IsRows
  <2> QED
    BY <2>1, <2>2 DEF IsRows
<1>6. WinnersPlayed(after)
  BY <1>2, <1>3, <1>4 DEF WinnersPlayed
<1>7. CASE rounds = 0
  <2>1. DOMAIN matches = {} /\ DOMAIN confirming = {}
    BY <1>7 DEF Inv, Phases
  <2>2. Phases'
    BY <1>1, <1>3, <2>1 DEF Phases
  <2>3. Typed' /\ SeedsAreRegistered' /\ BracketFits'
    BY <1>1, <1>5, <1>7 DEF Inv, Typed, TournamentStatuses, SeedsAreRegistered, BracketFits
  <2>4. SettledStay
    BY <1>7 DEF SettledStay
  <2>5. (WinnersPlayed(matches))'
    BY <1>1, <1>6 DEF WinnersPlayed
  <2> QED
    BY <2>2, <2>3, <2>4, <2>5 DEF Inv
<1>8. CASE rounds # 0
  <2>1. /\ rounds > 0 /\ rounds \in 1..MaxRounds /\ Fit(rounds, seeds, format, matches, confirming)
    <3>1. rounds > 0
      BY <1>8 DEF Inv, Typed
    <3> QED
      BY <3>1, InvSays
  <2>2. Extends(rounds, seeds, format, matches, after)
    BY <1>3, <1>4, <1>5 DEF Extends
  <2>3. \A c \in DOMAIN confirming : after[c] = matches[c]
    BY <1>1, <1>3, <2>1 DEF Fit, CallFits
  <2>4. Fit(rounds, seeds, format, after, confirming) /\ AllKept(rounds, seeds, format, matches, after)
    BY <1>2, <2>1, <2>2, <2>3, FitLater
  <2> QED
    BY <1>1, <1>5, <1>6, <2>1, <2>4, InvGrows
<1> QED
  BY <1>7, <1>8

LEMMA StartKeepsInv ==
    ASSUME Inv, Start
    PROVE  Inv' /\ SettledStay
<1> DEFINE sds == RankEntries(Registered)
           n == Cardinality(Registered)
           r == Log2Ceil(n)
<1>1. /\ rounds = 0 /\ n \in 2..256 /\ entryStatus' = RecruitsToReserve
      /\ seeds' = sds /\ rounds' = r /\ Reconcile(matches, sds, r) /\ UNCHANGED <<format, confirming>>
  BY DEF Start
<1>2. /\ format \in Formats /\ IsRows(matches) /\ DOMAIN matches = {} /\ DOMAIN confirming = {}
      /\ entryStatus \in [Entries -> EntryStatuses]
  BY <1>1 DEF Inv, Typed, Phases
<1>3. sds \in Seq(Entries) /\ Distinct(sds) /\ \A e \in Registered : \E i \in 1..Len(sds) : sds[i] = e
  BY RankingIsASequence DEF Registered
<1>4. \A i \in 1..Len(sds) : sds[i] \in Registered
  BY RankingIsASequence DEF Registered
<1>5. r \in 1..MaxRounds
  BY <1>1, RoundsFit
<1> HIDE DEF sds, n, r
<1>6. Fit(r, sds, format, matches, confirming)
  BY <1>2 DEF Fit, RowsFit
<1>7. /\ Fit(r, sds, format, matches', confirming) /\ Extends(r, sds, format, matches, matches')
      /\ OnlyScheduled(matches, matches') /\ status' \in {"COMPLETED", "IN_PROGRESS"}
      /\ status' = "COMPLETED" => Finished(r, sds, format, matches')
  BY <1>1, <1>2, <1>3, <1>5, <1>6, ReconcileFits
<1>8. IsRows(matches') /\ WinnersPlayed(matches') /\ NoneCancelled(matches')
  BY <1>2, <1>7 DEF Extends, OnlyScheduled, WinnersPlayed, NoneCancelled
<1>9. rounds' \in 0..MaxRounds /\ rounds' > 0 /\ rounds' # 0
  BY <1>1, <1>5 DEF MaxRounds
<1>10. Typed'
  BY <1>1, <1>2, <1>3, <1>7, <1>8, <1>9 DEF Typed, TournamentStatuses, EntryStatuses, RecruitsToReserve
<1>11. Phases'
  <2>1. status' = "COMPLETED" => (Finished(rounds, seeds, format, matches))'
    BY <1>1, <1>7 DEF Finished
  <2> QED
    BY <1>7, <1>8, <1>9, <2>1 DEF Phases
<1>12. SeedsAreRegistered'
  <2>1. \A e \in Entries : entryStatus'[e] = "REGISTERED" <=> e \in Registered
    BY <1>1 DEF RecruitsToReserve, Registered
  <2>2. \A e \in Entries : entryStatus'[e] = "REGISTERED" <=> \E i \in 1..Len(sds) : sds[i] = e
    BY <1>3, <1>4, <2>1
  <2> QED
    BY <1>1, <1>3, <2>2 DEF SeedsAreRegistered
<1>13. BracketFits'
  BY <1>1, <1>7 DEF BracketFits
<1>14. (WinnersPlayed(matches))'
  BY <1>8 DEF WinnersPlayed
<1> QED
  BY <1>1, <1>10, <1>11, <1>12, <1>13, <1>14 DEF Inv, SettledStay

-----------------------------------------------------------------------------
(* Replacing a side *)

Substituted(ms, k, i, r) ==
    [ms EXCEPT ![k] = IF i = @.a THEN [@ EXCEPT !.a = r] ELSE [@ EXCEPT !.b = r]]

LEMMA SubstitutedIs ==
    ASSUME NEW ms, IsRows(ms), NEW k \in DOMAIN ms, NEW i \in {ms[k].a, ms[k].b}, ms[k].a # ms[k].b, NEW r \in Entries
    PROVE  LET ms2 == Substituted(ms, k, i, r)
           IN  /\ IsRows(ms2) /\ DOMAIN ms2 = DOMAIN ms /\ \A j \in DOMAIN ms : j # k => ms2[j] = ms[j]
               /\ ms2[k].a = Named(i, r, ms[k].a) /\ ms2[k].b = Named(i, r, ms[k].b)
               /\ ms2[k].status = ms[k].status /\ ms2[k].winner = ms[k].winner
<1> DEFINE row == ms[k]
           row2 == IF i = row.a THEN [row EXCEPT !.a = r] ELSE [row EXCEPT !.b = r]
           ms2 == Substituted(ms, k, i, r)
<1>1. ms = [j \in DOMAIN ms |-> ms[j]] /\ \A j \in DOMAIN ms : ms[j] \in Rows
  BY DEF IsRows
<1>2. ms2 = [j \in DOMAIN ms |-> IF j = k THEN row2 ELSE ms[j]]
  BY <1>1 DEF Substituted
<1>3. row \in Rows /\ i \in {row.a, row.b} /\ row.a # row.b
  BY <1>1
<1> HIDE DEF row
<1>4. /\ row2 \in Rows /\ row2.a = Named(i, r, row.a) /\ row2.b = Named(i, r, row.b)
      /\ row2.status = row.status /\ row2.winner = row.winner
  <2>1. CASE i = row.a
    <3> DEFINE out == [row EXCEPT !.a = r]
    <3>1. out \in Rows /\ out.a = r /\ out.b = row.b /\ out.status = row.status /\ out.winner = row.winner
      BY <1>3 DEF Rows
    <3>2. row2 = out
      BY <2>1
    <3> HIDE DEF out, row2
    <3> QED
      BY <1>3, <2>1, <3>1, <3>2 DEF Named
  <2>2. CASE i # row.a
    <3> DEFINE out == [row EXCEPT !.b = r]
    <3>1. out \in Rows /\ out.a = row.a /\ out.b = r /\ out.status = row.status /\ out.winner = row.winner
      BY <1>3 DEF Rows
    <3>2. row2 = out
      BY <2>2
    <3> HIDE DEF out, row2
    <3> QED
      BY <1>3, <2>2, <3>1, <3>2 DEF Named
  <2> QED
    BY <2>1, <2>2
<1> HIDE DEF row2, ms2
<1>5. DOMAIN ms2 = DOMAIN ms /\ ms2[k] = row2 /\ \A j \in DOMAIN ms : j # k => ms2[j] = ms[j]
  BY <1>2
<1>6. ms2 = [j \in DOMAIN ms2 |-> ms2[j]]
  BY <1>2, <1>5
<1>7. \A j \in DOMAIN ms2 : ms2[j] \in Rows
  BY <1>1, <1>4, <1>5
<1> QED
  BY <1>4, <1>5, <1>6, <1>7 DEF IsRows, ms2, row

\* The seeds with e's in the hands of x.
Handed(sds, e, x) == [i \in DOMAIN sds |-> IF sds[i] = e THEN x ELSE sds[i]]

LEMMA HandedOverSlots ==
    ASSUME NEW r \in 1..MaxRounds, NEW sds \in Seq(Entries), NEW e \in Entries, NEW x \in Entries
    PROVE  LET sds2 == Handed(sds, e, x)
           IN  /\ sds2 \in Seq(Entries) /\ Len(sds2) = Len(sds)
               /\ \A i \in 1..Len(sds) : sds2[i] = Named(e, x, sds[i])
               /\ \A i \in 1..2^r : Slots(r, sds2)[i] = Named(e, x, Slots(r, sds)[i])
<1> DEFINE sds2 == Handed(sds, e, x)
           order == SeedOrder[r]
<1>1. /\ sds2 \in Seq(Entries) /\ Len(sds2) = Len(sds)
      /\ \A i \in 1..Len(sds) : sds2[i] = Named(e, x, sds[i])
  BY DEF Named, Handed
<1>2. order \in [1..2^r -> 1..2^r] /\ 2^r \in Nat
  <2>1. r \in 0..MaxRounds
    BY DEF MaxRounds
  <2> QED
    BY <2>1, SeedOrderPlacesAll, Powers
<1> HIDE DEF sds2, order
<1>3. ASSUME NEW i \in 1..2^r
      PROVE  Slots(r, sds2)[i] = Named(e, x, Slots(r, sds)[i])
  <2>1. /\ Slots(r, sds)[i] = SlotSeed(order, sds, i)
        /\ Slots(r, sds2)[i] = SlotSeed(order, sds2, i)
    BY SlotsAre DEF order
  <2>2. order[i] \in 1..2^r /\ order[i] \in Nat /\ order[i] >= 1 /\ Len(sds) \in Nat
    BY <1>2
  <2>3. CASE order[i] <= Len(sds)
    <3>1. order[i] \in 1..Len(sds)
      BY <2>2, <2>3
    <3> QED
      BY <1>1, <2>1, <2>3, <3>1 DEF SlotSeed
  <2>4. CASE ~(order[i] <= Len(sds))
    <3>1. Named(e, x, NoEntry) = NoEntry
      BY EntriesAssumption DEF Named
    <3> QED
      BY <1>1, <2>1, <2>4, <3>1 DEF SlotSeed
  <2> QED
    BY <2>3, <2>4
<1> QED
  BY <1>1, <1>3 DEF sds2

\* The same results, with x for e who has none: the same nodes, with x for e.
LEMMA RowsRenamed ==
    ASSUME NEW r \in 1..MaxRounds, NEW f \in Formats, NEW sds, NEW sds2, NEW ms, NEW ms2,
           NEW e \in Entries, NEW x \in Entries,
           IsRows(ms), RowsFit(r, sds, f, ms), DOMAIN ms2 \subseteq DOMAIN ms,
           \A i \in 1..2^r : Slots(r, sds2)[i] = Named(e, x, Slots(r, sds)[i]),
           \A k \in DOMAIN ms : /\ ms[k].status = "COMPLETED" <=> k \in DOMAIN ms2 /\ ms2[k].status = "COMPLETED"
                                /\ ms[k].status = "COMPLETED" => /\ ms2[k].winner = ms[k].winner
                                                                 /\ e = x \/ e \notin {ms[k].a, ms[k].b}
    PROVE  \A key \in Keys(r, f) : Renamed(e, x, Nodes(r, sds, ms, f)[key], Nodes(r, sds2, ms2, f)[key])
<1> DEFINE n == Nodes(r, sds, ms, f)
           n2 == Nodes(r, sds2, ms2, f)
<1>1. IsBracket(r, f, Slots(r, sds), ms, n) /\ IsBracket(r, f, Slots(r, sds2), ms2, n2)
  BY NodesAreABracket
<1>2. ASSUME NEW k \in DOMAIN ms
      PROVE  n[k].entryA = ms[k].a /\ n[k].entryB = ms[k].b /\ NoEntry \notin {n[k].entryA, n[k].entryB}
  BY RowsAreKnown DEF RowsFit
<1> HIDE DEF n, n2
<1>3. SameResults(r, f, n, ms, ms2)
  BY <1>2 DEF SameResults
<1>4. MayStandFor(r, f, n, ms, e, x)
  <2>1. e # NoEntry /\ x # NoEntry
    BY EntriesAssumption
  <2> QED
    BY <1>2, <2>1 DEF MayStandFor
<1>5. \A key \in Keys(r, f) : Renamed(e, x, n[key], n2[key])
  BY <1>1, <1>3, <1>4, NodesAreRenamed
<1> QED
  BY <1>5 DEF n, n2

\* A finished bracket stays so with another name for a team.
LEMMA FinishedRenamed ==
    ASSUME NEW r \in 1..MaxRounds, NEW f \in Formats, NEW sds, NEW sds2, NEW ms, NEW ms2, NEW e, NEW x, x # NoEntry,
           \A key \in Keys(r, f) : Renamed(e, x, Nodes(r, sds, ms, f)[key], Nodes(r, sds2, ms2, f)[key]),
           Finished(r, sds, f, ms)
    PROVE  Finished(r, sds2, f, ms2)
<1> DEFINE n == Nodes(r, sds, ms, f)
           n2 == Nodes(r, sds2, ms2, f)
           final == FinalKey(r, f)
           bronze == BronzeKey(r)
<1>1. DOMAIN n = Keys(r, f) /\ DOMAIN n2 = Keys(r, f) /\ final \in Keys(r, f)
  BY NodesAreABracket, FinalIsAKey
<1>2. \A key \in Keys(r, f) : Renamed(e, x, n[key], n2[key])
  OBVIOUS
<1>3. /\ n[final].resolved /\ n[final].winner # NoEntry
      /\ bronze \in DOMAIN n => n[bronze].resolved
  BY DEF Finished, Complete, FinalKey
<1> HIDE DEF n, n2, final, bronze
<1>4. /\ n2[final].resolved /\ n2[final].winner # NoEntry
      /\ bronze \in DOMAIN n2 => n2[bronze].resolved
  BY <1>1, <1>2, <1>3 DEF Renamed, Named
<1> QED
  BY <1>4 DEF Finished, Complete, FinalKey, n2, final, bronze

\* A row with no result leaves its node open, and its two sides are different.
LEMMA OpenRow ==
    ASSUME NEW r \in 1..MaxRounds, NEW f \in Formats, NEW sds \in Seq(Entries), Distinct(sds), NEW ms,
           IsRows(ms), RowsFit(r, sds, f, ms), NEW k \in DOMAIN ms, ms[k].status # "COMPLETED"
    PROVE  /\ k \in Keys(r, f) /\ ~Nodes(r, sds, ms, f)[k].resolved /\ ms[k].a # ms[k].b
           /\ Side(Nodes(r, sds, ms, f)[k], 1) = ms[k].a /\ Side(Nodes(r, sds, ms, f)[k], 2) = ms[k].b
<1> DEFINE n == Nodes(r, sds, ms, f)
           slots == Slots(r, sds)
<1>1. k \in Keys(r, f) /\ n[k].entryA = ms[k].a /\ n[k].entryB = ms[k].b
  BY DEF RowsFit
<1>2. IsBracket(r, f, slots, ms, n) /\ DistinctSlots(r, slots)
  BY NodesAreABracket, SlotsAreDistinct, EntriesAssumption DEF DistinctSlots
<1>3. ms[k].a # NoEntry /\ ms[k].b # NoEntry
  BY RowsAreKnown
<1> HIDE DEF n, slots
<1>4. ~n[k].resolved
  <2>1. NodeSays(ms, k, n[k])
    BY <1>1, <1>2, NodeSides
  <2> QED
    BY <2>1 DEF NodeSays, Valid, Bye
<1>5. 1 \in Sides /\ 2 \in Sides /\ Side(n[k], 1) = ms[k].a /\ Side(n[k], 2) = ms[k].b
  BY <1>1 DEF Sides, Side
<1>6. ms[k].a # ms[k].b
  <2> SUFFICES ASSUME ms[k].a = ms[k].b PROVE FALSE
    OBVIOUS
  <2>1. <<k, 2>> = <<k, 1>> \/ Precedes(r, f, n, ms[k].a, k, k)
    BY <1>1, <1>2, <1>3, <1>4, <1>5, OneFrontier
  <2>2. Place(r, k) \in Int
    <3>1. Place(r, k) \in 1..Depth(r, f)
      BY <1>1, KeysByPlace
    <3> QED
      BY <3>1
  <2> QED
    BY <2>1, <2>2 DEF Precedes
<1> QED
  BY <1>1, <1>4, <1>5, <1>6 DEF n

\* Whoever waits in an open row is at no node without a row.
LEMMA NoOtherNode ==
    ASSUME NEW r \in 1..MaxRounds, NEW f \in Formats, NEW sds \in Seq(Entries), Distinct(sds), NEW ms,
           IsRows(ms), RowsFit(r, sds, f, ms), NEW k \in DOMAIN ms, ms[k].status # "COMPLETED",
           NEW m \in Keys(r, f), m \notin DOMAIN ms,
           NoEntry \notin {Nodes(r, sds, ms, f)[m].entryA, Nodes(r, sds, ms, f)[m].entryB},
           NEW e \in {ms[k].a, ms[k].b}
    PROVE  e \notin {Nodes(r, sds, ms, f)[m].entryA, Nodes(r, sds, ms, f)[m].entryB}
<1> DEFINE n == Nodes(r, sds, ms, f)
           slots == Slots(r, sds)
<1> SUFFICES ASSUME e \in {n[m].entryA, n[m].entryB} PROVE FALSE
  OBVIOUS
<1>1. IsBracket(r, f, slots, ms, n) /\ DistinctSlots(r, slots)
  BY NodesAreABracket, SlotsAreDistinct, EntriesAssumption DEF DistinctSlots
<1>2. k \in Keys(r, f) /\ ~n[k].resolved /\ Side(n[k], 1) = ms[k].a /\ Side(n[k], 2) = ms[k].b
  BY OpenRow
<1>3. e # NoEntry
  BY RowsAreKnown
<1> HIDE DEF n, slots
<1>4. PICK s \in Sides : Side(n[k], s) = e
  BY <1>2 DEF Sides
<1>5. PICK t \in Sides : Side(n[m], t) = e
  BY DEF Sides, Side
<1>6. ~n[m].resolved
  <2>1. NodeSays(ms, m, n[m])
    BY <1>1, NodeSides
  <2> QED
    BY <2>1 DEF NodeSays, Valid, Bye, n
<1>7. /\ Place(r, m) <= Place(r, k)
      /\ <<m, t>> = <<k, s>> \/ Precedes(r, f, n, e, m, k)
      /\ ~n[m].resolved => m = k
  BY <1>1, <1>2, <1>3, <1>4, <1>5, OneFrontier
<1> QED
  BY <1>6, <1>7

\* What replaceMatchSideWithReserve has checked.
LEMMA ReplacementIs ==
    ASSUME Inv, NEW k \in DOMAIN matches, NEW e \in Entries, NEW x \in Entries, ReplaceSide(k, e, x)
    PROVE  /\ rounds \in 1..MaxRounds /\ rounds > 0 /\ format \in Formats
           /\ seeds \in Seq(Entries) /\ Distinct(seeds)
           /\ IsRows(matches) /\ Fit(rounds, seeds, format, matches, confirming)
           /\ matches[k].status = "SCHEDULED" /\ e \in {matches[k].a, matches[k].b} /\ matches[k].a # matches[k].b
           /\ k \notin DOMAIN confirming
           /\ \A m \in DOMAIN matches : m # k => e \notin {matches[m].a, matches[m].b}
           /\ e # x /\ \A i \in 1..Len(seeds) : seeds[i] # x
           /\ matches' = Substituted(matches, k, e, x)
           /\ seeds' = Handed(seeds, e, x)
           /\ entryStatus' = [entryStatus EXCEPT ![e] = "DISQUALIFIED", ![x] = "REGISTERED"]
           /\ UNCHANGED <<format, status, rounds, confirming>> /\ status = "IN_PROGRESS"
<1>1. /\ status = "IN_PROGRESS" /\ matches[k].status = "SCHEDULED" /\ k \notin DOMAIN confirming
      /\ e \in {matches[k].a, matches[k].b} /\ entryStatus[x] = "RESERVE" /\ entryStatus[e] = "REGISTERED"
      /\ OnlyAssignment(e, k)
      /\ matches' = [matches EXCEPT ![k] = IF e = @.a THEN [@ EXCEPT !.a = x] ELSE [@ EXCEPT !.b = x]]
      /\ seeds' = Handed(seeds, e, x)
      /\ entryStatus' = [entryStatus EXCEPT ![e] = "DISQUALIFIED", ![x] = "REGISTERED"]
      /\ UNCHANGED <<format, status, rounds, confirming>>
  BY DEF ReplaceSide, Playable, Unsettled, RowLocked, InMatch, SeedsHandedOver, Handed
<1>2. /\ rounds > 0 /\ rounds \in 1..MaxRounds /\ format \in Formats /\ seeds \in Seq(Entries) /\ Distinct(seeds)
      /\ IsRows(matches) /\ NoneCancelled(matches) /\ Fit(rounds, seeds, format, matches, confirming)
  BY <1>1, InvSays
<1>3. matches[k].a # matches[k].b
  BY <1>1, <1>2, OpenRow DEF Fit
<1>4. \A m \in DOMAIN matches : m # k => e \notin {matches[m].a, matches[m].b}
  BY <1>1, <1>2 DEF OnlyAssignment, NoneCancelled
<1>5. e # x
  BY <1>1
<1>6. \A i \in 1..Len(seeds) : seeds[i] # x
  BY <1>1, <1>2 DEF Inv, SeedsAreRegistered
<1>7. matches' = Substituted(matches, k, e, x)
  BY <1>1 DEF Substituted
<1> QED
  BY <1>1, <1>2, <1>3, <1>4, <1>5, <1>6, <1>7

\* The rows still fit after the replacement, and so do the open confirmations.
LEMMA ReplacedRowsFit ==
    ASSUME Inv, NEW k \in DOMAIN matches, NEW e \in Entries, NEW x \in Entries, ReplaceSide(k, e, x)
    PROVE  Fit(rounds, seeds', format, matches', confirming)
<1> DEFINE ms2 == Substituted(matches, k, e, x)
           sds2 == Handed(seeds, e, x)
           n == Nodes(rounds, seeds, matches, format)
           n2 == Nodes(rounds, sds2, ms2, format)
<1>1. /\ rounds \in 1..MaxRounds /\ format \in Formats /\ seeds \in Seq(Entries) /\ Distinct(seeds)
      /\ IsRows(matches) /\ Fit(rounds, seeds, format, matches, confirming)
      /\ matches[k].status = "SCHEDULED" /\ e \in {matches[k].a, matches[k].b} /\ matches[k].a # matches[k].b
      /\ k \notin DOMAIN confirming
      /\ \A m \in DOMAIN matches : m # k => e \notin {matches[m].a, matches[m].b}
      /\ matches' = ms2 /\ seeds' = sds2
  BY ReplacementIs
<1>2. /\ IsRows(ms2) /\ DOMAIN ms2 = DOMAIN matches /\ \A j \in DOMAIN matches : j # k => ms2[j] = matches[j]
      /\ ms2[k].a = Named(e, x, matches[k].a) /\ ms2[k].b = Named(e, x, matches[k].b)
      /\ ms2[k].status = matches[k].status /\ ms2[k].winner = matches[k].winner
  BY <1>1, SubstitutedIs
<1>3. \A i \in 1..2^rounds : Slots(rounds, sds2)[i] = Named(e, x, Slots(rounds, seeds)[i])
  BY <1>1, HandedOverSlots
<1> HIDE DEF ms2, sds2
<1>4. \A key \in Keys(rounds, format) : Renamed(e, x, n[key], n2[key])
  <2>1. RowsFit(rounds, seeds, format, matches) /\ DOMAIN ms2 \subseteq DOMAIN matches
    BY <1>1, <1>2 DEF Fit
  <2>2. \A j \in DOMAIN matches :
           /\ matches[j].status = "COMPLETED" <=> j \in DOMAIN ms2 /\ ms2[j].status = "COMPLETED"
           /\ matches[j].status = "COMPLETED" => /\ ms2[j].winner = matches[j].winner
                                                 /\ e = x \/ e \notin {matches[j].a, matches[j].b}
    BY <1>1, <1>2
  <2> QED
    BY <1>1, <1>3, <2>1, <2>2, RowsRenamed
<1>5. RowsFit(rounds, sds2, format, ms2)
  <2> SUFFICES ASSUME NEW j \in DOMAIN ms2
               PROVE  j \in Keys(rounds, format) /\ ms2[j].a = n2[j].entryA /\ ms2[j].b = n2[j].entryB
    BY DEF RowsFit
  <2>1. j \in Keys(rounds, format) /\ matches[j].a = n[j].entryA /\ matches[j].b = n[j].entryB
    BY <1>1, <1>2 DEF Fit, RowsFit
  <2>2. n2[j].entryA = Named(e, x, n[j].entryA) /\ n2[j].entryB = Named(e, x, n[j].entryB)
    BY <1>4, <2>1 DEF Renamed, Side, Sides
  <2> HIDE DEF n, n2
  <2>3. CASE j = k
    BY <1>2, <2>1, <2>2, <2>3
  <2>4. CASE j # k
    BY <1>1, <1>2, <2>1, <2>2, <2>4 DEF Named
  <2> QED
    BY <2>3, <2>4
<1>6. ASSUME NEW c \in DOMAIN confirming
      PROVE  CallFits(rounds, sds2, format, ms2, c, confirming[c])
  <2> DEFINE call == confirming[c]
             w == call.winner
             d == Decide(matches, c, w)
             d2 == Decide(ms2, c, w)
             nd == Nodes(rounds, seeds, d, format)
             nd2 == Nodes(rounds, sds2, d2, format)
  <2>1. CallFits(rounds, seeds, format, matches, c, call) /\ c # k
    BY <1>1 DEF Fit
  <2>2. /\ c \in DOMAIN matches /\ matches[c].status = "IN_PROGRESS" /\ w \in {matches[c].a, matches[c].b}
        /\ IsRows(call.create) /\ w \in Entries /\ ms2[c] = matches[c] /\ c \in DOMAIN ms2
    <3>1. c \in DOMAIN matches
      BY <2>1 DEF CallFits
    <3>2. matches[c].a \in Entries /\ matches[c].b \in Entries
      BY <1>1, <3>1, RowsAreKnown
    <3> QED
      BY <1>2, <2>1, <3>1, <3>2 DEF CallFits
  <2> HIDE DEF call, w
  <2>3. /\ IsRows(d) /\ DOMAIN d = DOMAIN matches /\ \A j \in DOMAIN matches : j # c => d[j] = matches[j]
        /\ d[c].a = matches[c].a /\ d[c].b = matches[c].b /\ d[c].status = "COMPLETED" /\ d[c].winner = w
    <3>1. IsRows(matches)
      BY <1>1
    <3>2. c \in DOMAIN matches /\ w \in Entries
      BY <2>2
    <3> QED
      BY <3>1, <3>2, DecideIs
  <2>4. /\ IsRows(d2) /\ DOMAIN d2 = DOMAIN ms2 /\ \A j \in DOMAIN ms2 : j # c => d2[j] = ms2[j]
        /\ d2[c].a = ms2[c].a /\ d2[c].b = ms2[c].b /\ d2[c].status = "COMPLETED" /\ d2[c].winner = w
    BY <1>2, <2>2, DecideIs
  <2>5. RowsFit(rounds, seeds, format, d)
    <3>1. Extends(rounds, seeds, format, matches, d)
      BY <1>1, <2>2, DecisionsExtend
    <3> QED
      BY <1>1, <3>1, ExtensionsFit DEF Fit
  <2> HIDE DEF d, d2
  <2>6. \A key \in Keys(rounds, format) : Renamed(e, x, nd[key], nd2[key])
    <3>1. DOMAIN d2 \subseteq DOMAIN d
      BY <1>2, <2>3, <2>4
    <3>2. \A j \in DOMAIN d :
           /\ d[j].status = "COMPLETED" <=> j \in DOMAIN d2 /\ d2[j].status = "COMPLETED"
           /\ d[j].status = "COMPLETED" => /\ d2[j].winner = d[j].winner
                                           /\ e = x \/ e \notin {d[j].a, d[j].b}
      <4> SUFFICES ASSUME NEW j \in DOMAIN d
                   PROVE  /\ d[j].status = "COMPLETED" <=> j \in DOMAIN d2 /\ d2[j].status = "COMPLETED"
                          /\ d[j].status = "COMPLETED" => /\ d2[j].winner = d[j].winner
                                                          /\ e = x \/ e \notin {d[j].a, d[j].b}
        OBVIOUS
      <4>1. CASE j = c
        BY <1>1, <1>2, <2>1, <2>2, <2>3, <2>4, <4>1
      <4>2. CASE j # c
        BY <1>1, <1>2, <2>1, <2>2, <2>3, <2>4, <4>2
      <4> QED
        BY <4>1, <4>2
    <3> QED
      BY <1>1, <1>3, <2>3, <2>5, <3>1, <3>2, RowsRenamed
  <2>7. ASSUME NEW m \in DOMAIN call.create, m \notin DOMAIN ms2
        PROVE  /\ m \in Keys(rounds, format)
               /\ call.create[m].a = nd2[m].entryA /\ call.create[m].b = nd2[m].entryB
    <3>1. m \in Keys(rounds, format) /\ call.create[m].a = nd[m].entryA /\ call.create[m].b = nd[m].entryB
      BY <1>2, <2>1, <2>7 DEF CallFits, w, d
    <3>2. call.create[m].a # NoEntry /\ call.create[m].b # NoEntry
      BY <2>2, RowsAreKnown
    <3>3. k \in DOMAIN d /\ m \notin DOMAIN d /\ d[k].status # "COMPLETED" /\ e \in {d[k].a, d[k].b}
      BY <1>1, <1>2, <2>1, <2>3, <2>7
    <3>4. e \notin {nd[m].entryA, nd[m].entryB}
      BY <1>1, <2>3, <2>5, <3>1, <3>2, <3>3, NoOtherNode
    <3>5. nd2[m].entryA = Named(e, x, nd[m].entryA) /\ nd2[m].entryB = Named(e, x, nd[m].entryB)
      BY <2>6, <3>1 DEF Renamed, Side, Sides
    <3> HIDE DEF nd, nd2
    <3> QED
      BY <3>1, <3>4, <3>5 DEF Named
  <2>8. \A m \in DOMAIN call.create : call.create[m].status = "SCHEDULED"
    BY <2>1 DEF CallFits
  <2>9. call.completes => Finished(rounds, sds2, format, d2)
    <3>1. call.completes => Finished(rounds, seeds, format, d)
      BY <2>1 DEF CallFits, w, d
    <3>2. x # NoEntry
      BY EntriesAssumption
    <3> QED
      BY <1>1, <2>6, <3>1, <3>2, FinishedRenamed
  <2> QED
    BY <2>2, <2>7, <2>8, <2>9 DEF CallFits, call, w, d2
<1> QED
  BY <1>1, <1>5, <1>6 DEF Fit

LEMMA ReplacedSettledStay ==
    ASSUME Inv, NEW k \in DOMAIN matches, NEW e \in Entries, NEW x \in Entries, ReplaceSide(k, e, x)
    PROVE  SettledStay
<1> DEFINE ms2 == Substituted(matches, k, e, x)
           sds2 == Handed(seeds, e, x)
           n == Nodes(rounds, seeds, matches, format)
           n2 == Nodes(rounds, sds2, ms2, format)
<1>1. /\ rounds \in 1..MaxRounds /\ format \in Formats /\ seeds \in Seq(Entries) /\ Distinct(seeds)
      /\ IsRows(matches) /\ Fit(rounds, seeds, format, matches, confirming)
      /\ matches[k].status = "SCHEDULED" /\ e \in {matches[k].a, matches[k].b} /\ matches[k].a # matches[k].b
      /\ \A m \in DOMAIN matches : m # k => e \notin {matches[m].a, matches[m].b}
      /\ matches' = ms2 /\ seeds' = sds2 /\ UNCHANGED <<format, rounds>>
  BY ReplacementIs
<1>2. /\ DOMAIN ms2 = DOMAIN matches /\ \A j \in DOMAIN matches : j # k => ms2[j] = matches[j]
      /\ ms2[k].status = matches[k].status
  BY <1>1, SubstitutedIs
<1>3. \A i \in 1..2^rounds : Slots(rounds, sds2)[i] = Named(e, x, Slots(rounds, seeds)[i])
  BY <1>1, HandedOverSlots
<1> HIDE DEF ms2, sds2
<1>4. \A key \in Keys(rounds, format) : Renamed(e, x, n[key], n2[key])
  <2>1. RowsFit(rounds, seeds, format, matches) /\ DOMAIN ms2 \subseteq DOMAIN matches
    BY <1>1, <1>2 DEF Fit
  <2>2. \A j \in DOMAIN matches :
           /\ matches[j].status = "COMPLETED" <=> j \in DOMAIN ms2 /\ ms2[j].status = "COMPLETED"
           /\ matches[j].status = "COMPLETED" => /\ ms2[j].winner = matches[j].winner
                                                 /\ e = x \/ e \notin {matches[j].a, matches[j].b}
    BY <1>1, <1>2
  <2> QED
    BY <1>1, <1>3, <2>1, <2>2, RowsRenamed
<1>5. ASSUME NEW key \in Keys(rounds, format), n[key].hasMatch, n[key].resolved
      PROVE  n2[key].winner = n[key].winner /\ n2[key].loser = n[key].loser
  <2>1. NodeSays(matches, key, n[key])
    <3>1. IsBracket(rounds, format, Slots(rounds, seeds), matches, n)
      BY <1>1, NodesAreABracket
    <3> HIDE DEF n
    <3> QED
      BY <1>1, <3>1, NodeSides
  <2>2. Renamed(e, x, n[key], n2[key])
    BY <1>4
  <2> HIDE DEF n, n2
  <2>3. /\ key \in DOMAIN matches /\ key # k
        /\ n[key].winner \in {n[key].entryA, n[key].entryB} /\ n[key].loser \in {n[key].entryA, n[key].entryB}
    BY <1>1, <1>5, <2>1 DEF NodeSays, Valid, Bye
  <2>4. n[key].entryA = matches[key].a /\ n[key].entryB = matches[key].b
    BY <1>1, <2>3 DEF Fit, RowsFit, n
  <2>5. n[key].winner # e /\ n[key].loser # e
    BY <1>1, <2>3, <2>4
  <2> QED
    BY <2>2, <2>5 DEF Renamed, Named
<1> QED
  BY <1>1, <1>5 DEF SettledStay

LEMMA ReplaceSideKeepsInv ==
    ASSUME Inv, NEW k \in DOMAIN matches, NEW e \in Entries, NEW x \in Entries, ReplaceSide(k, e, x)
    PROVE  Inv' /\ SettledStay
<1> DEFINE ms2 == Substituted(matches, k, e, x)
           sds2 == Handed(seeds, e, x)
<1>1. /\ rounds > 0 /\ rounds \in 1..MaxRounds /\ seeds \in Seq(Entries) /\ Distinct(seeds)
      /\ IsRows(matches) /\ matches[k].status = "SCHEDULED"
      /\ e \in {matches[k].a, matches[k].b} /\ matches[k].a # matches[k].b
      /\ e # x /\ \A i \in 1..Len(seeds) : seeds[i] # x
      /\ matches' = ms2 /\ seeds' = sds2
      /\ entryStatus' = [entryStatus EXCEPT ![e] = "DISQUALIFIED", ![x] = "REGISTERED"]
      /\ UNCHANGED <<format, status, rounds, confirming>> /\ status = "IN_PROGRESS"
  BY ReplacementIs
<1>2. entryStatus[e] = "REGISTERED" /\ entryStatus \in [Entries -> EntryStatuses]
  BY DEF ReplaceSide, Inv, Typed
<1>3. /\ IsRows(ms2) /\ DOMAIN ms2 = DOMAIN matches /\ \A j \in DOMAIN matches : j # k => ms2[j] = matches[j]
      /\ ms2[k].status = matches[k].status
  BY <1>1, SubstitutedIs
<1>4. /\ sds2 \in Seq(Entries) /\ Len(sds2) = Len(seeds)
      /\ \A i \in 1..Len(seeds) : sds2[i] = Named(e, x, seeds[i])
  BY <1>1, HandedOverSlots
<1> HIDE DEF ms2, sds2
<1>5. /\ Distinct(sds2)
      /\ \A g \in Entries : (\E i \in 1..Len(sds2) : sds2[i] = g) <=>
           IF g = x THEN \E i \in 1..Len(seeds) : seeds[i] = e
           ELSE g # e /\ \E i \in 1..Len(seeds) : seeds[i] = g
  <2>1. \A i \in 1..Len(seeds) : sds2[i] = Named(e, x, seeds[i]) /\ seeds[i] # x
    BY <1>1, <1>4
  <2>2. e # x /\ seeds \in Seq(Entries) /\ Distinct(seeds)
    BY <1>1
  <2> QED
    BY <1>4, <2>1, <2>2 DEF Distinct, Named
<1>6. SeedsAreRegistered'
  <2>1. \A g \in Entries : entryStatus[g] = "REGISTERED" <=> \E i \in 1..Len(seeds) : seeds[i] = g
    BY <1>1 DEF Inv, SeedsAreRegistered
  <2>2. \A g \in Entries : entryStatus'[g] = "REGISTERED" <=> g = x \/ (g # e /\ entryStatus[g] = "REGISTERED")
    BY <1>1, <1>2
  <2>3. \A g \in Entries : entryStatus'[g] = "REGISTERED" <=> \E i \in 1..Len(sds2) : sds2[i] = g
    BY <1>2, <1>5, <2>1, <2>2
  <2> QED
    BY <1>1, <1>5, <2>3 DEF SeedsAreRegistered
<1>7. entryStatus' \in [Entries -> EntryStatuses]
  BY <1>1, <1>2 DEF EntryStatuses
<1>8. Typed'
  BY <1>1, <1>3, <1>4, <1>7 DEF Inv, Typed
<1>9. NoneCancelled(ms2) /\ WinnersPlayed(ms2)
  <2>1. NoneCancelled(matches) /\ WinnersPlayed(matches)
    BY <1>1 DEF Inv, Phases
  <2> QED
    BY <1>1, <1>3, <2>1 DEF NoneCancelled, WinnersPlayed
<1>10. Phases'
  <2>1. rounds # 0
    BY <1>1
  <2> QED
    BY <1>1, <1>9, <2>1 DEF Phases
<1>11. BracketFits'
  BY <1>1, ReplacedRowsFit DEF BracketFits
<1>12. (WinnersPlayed(matches))'
  BY <1>1, <1>9 DEF WinnersPlayed
<1>13. SettledStay
  BY ReplacedSettledStay
<1> QED
  BY <1>6, <1>8, <1>10, <1>11, <1>12, <1>13 DEF Inv

-----------------------------------------------------------------------------
(* The invariant holds *)

LEMMA EveryStepKeepsInv ==
    ASSUME Inv, DecidingFits, Intact', [Next]_vars
    PROVE  Inv' /\ SettledStay
<1>1. CASE UNCHANGED vars
  BY <1>1, QuietStepsKeepInv DEF vars, registration
<1>2. CASE CloseRegistration
  <2>1. rounds = 0
    BY <1>2 DEF CloseRegistration, Inv, Phases
  <2> QED
    BY <1>2, <2>1, RegistrationClosingKeepsInv DEF CloseRegistration
<1>3. CASE Start
  BY <1>3, StartKeepsInv
<1>4. CASE StartTooFew
  <2>1. rounds = 0
    BY <1>4 DEF StartTooFew, Inv, Phases
  <2> QED
    BY <1>4, <2>1, RegistrationClosingKeepsInv DEF StartTooFew
<1>5. CASE ScanReconcile
  BY <1>5, ScanReconcileKeepsInv
<1>6. ASSUME NEW k \in DOMAIN matches, StartMatch(k) \/ ReplayMatch(k)
      PROVE  Inv' /\ SettledStay
  BY <1>6, StartMatchKeepsInv, ReplayMatchKeepsInv
<1>7. ASSUME NEW k \in DOMAIN matches, NEW w \in {matches[k].a, matches[k].b},
             ConfirmManagedResult(k, w)
      PROVE  Inv' /\ SettledStay
  BY <1>7, ConfirmManagedResultKeepsInv
<1>8. ASSUME NEW k \in DOMAIN matches, NEW e \in Entries, NEW x \in Entries, ReplaceSide(k, e, x)
      PROVE  Inv' /\ SettledStay
  BY <1>8, ReplaceSideKeepsInv
<1>9. ASSUME NEW k \in DOMAIN confirming, CommitManagedResult(k) \/ AbortManagedResult(k)
      PROVE  Inv' /\ SettledStay
  BY <1>9, CommitManagedResultKeepsInv, AbortManagedResultKeepsInv
<1>10. CASE BeginCancel
  BY <1>10, QuietStepsKeepInv DEF BeginCancel, registration
<1>11. CASE CommitCancel
  BY <1>11, CommitCancelKeepsInv
<1>12. CASE AbortCancel
  BY <1>12, QuietStepsKeepInv DEF AbortCancel, registration
<1>13. ASSUME NEW k \in DOMAIN matches, NEW w \in {matches[k].a, matches[k].b, NoEntry}, BeginDecision(k, w)
       PROVE  Inv' /\ SettledStay
  BY <1>13, QuietStepsKeepInv DEF BeginDecision, registration
<1>14. ASSUME NEW k \in DOMAIN deciding, CommitDecision(k) \/ AbortDecision(k)
       PROVE  Inv' /\ SettledStay
  BY <1>14, CommitDecisionKeepsInv, QuietStepsKeepInv DEF AbortDecision, registration
<1> QED
  BY <1>1, <1>2, <1>3, <1>4, <1>5, <1>6, <1>7, <1>8, <1>9, <1>10, <1>11, <1>12, <1>13, <1>14, Zenon DEF Next

\* The match and the sides of an open decision stay what they were when it read them.
LEMMA EveryStepKeepsDecidingFits ==
    ASSUME Inv, DecidingFits, [Next]_vars
    PROVE  DecidingFits'
<1>1. ASSUME AdvisoryLockFree, UNCHANGED deciding
      PROVE  DecidingFits'
  BY <1>1 DEF AdvisoryLockFree, DecidingFits
<1>2. ASSUME DOMAIN deciding' = {}
      PROVE  DecidingFits'
  BY <1>2 DEF DecidingFits
<1>3. ASSUME UNCHANGED <<matches, deciding>>, cancelling' \in {cancelling, NotCancelling}
      PROVE  DecidingFits'
  BY <1>3 DEF DecidingFits, NotCancelling
<1>4. CASE CloseRegistration \/ Start \/ StartTooFew \/ ScanReconcile \/ BeginCancel
  BY <1>1, <1>4 DEF CloseRegistration, Start, StartTooFew, ScanReconcile, BeginCancel
<1>5. ASSUME NEW k \in DOMAIN matches, StartMatch(k) \/ ReplayMatch(k)
      PROVE  DecidingFits'
  BY <1>1, <1>5 DEF StartMatch, ReplayMatch
<1>6. ASSUME NEW k \in DOMAIN matches, NEW e \in Entries, NEW x \in Entries, ReplaceSide(k, e, x)
      PROVE  DecidingFits'
  BY <1>1, <1>6 DEF ReplaceSide
<1>7. CASE UNCHANGED vars \/ AbortCancel
  BY <1>3, <1>7 DEF vars, AbortCancel
<1>8. ASSUME NEW k \in DOMAIN matches, NEW w \in {matches[k].a, matches[k].b}, ConfirmManagedResult(k, w)
      PROVE  DecidingFits'
  BY <1>3, <1>8 DEF ConfirmManagedResult
<1>9. ASSUME NEW k \in DOMAIN confirming, AbortManagedResult(k)
      PROVE  DecidingFits'
  BY <1>3, <1>9 DEF AbortManagedResult
<1>10. ASSUME NEW k \in DOMAIN confirming, CommitManagedResult(k)
       PROVE  DecidingFits'
  <2> DEFINE w == confirming[k].winner
             new == confirming[k].create
             d == Decided(k, w)
  <2>1. /\ DOMAIN new \cap DOMAIN matches = {} /\ matches' = Over(new, d)
        /\ deciding' = deciding /\ cancelling' = cancelling
    BY <1>10 DEF CommitManagedResult
  <2>2. IsRows(matches) /\ k \in DOMAIN matches /\ w \in {matches[k].a, matches[k].b}
    BY InvSays DEF Fit, CallFits
  <2>3. w \in Entries /\ d = Decide(matches, k, w)
    BY <2>2, RowsAreKnown DEF Decided, Decide
  <2> HIDE DEF new, d, w
  <2>4. DOMAIN d = DOMAIN matches /\ \A m \in DOMAIN matches : d[m].a = matches[m].a /\ d[m].b = matches[m].b
    BY <2>2, <2>3, DecideIs
  <2>5. Over(new, d) = [m \in DOMAIN new \cup DOMAIN d |-> IF m \in DOMAIN new THEN new[m] ELSE d[m]]
    BY DEF Over
  <2>6. \A m \in DOMAIN matches : /\ m \in DOMAIN matches'
                                 /\ matches'[m].a = matches[m].a /\ matches'[m].b = matches[m].b
    BY <2>1, <2>4, <2>5
  <2> QED
    BY <2>1, <2>6 DEF DecidingFits
<1>11. CASE CommitCancel
  <2>1. DOMAIN deciding' = {}
    BY <1>11 DEF CommitCancel, DecidingFits
  <2> QED
    BY <1>2, <2>1
<1>12. ASSUME NEW k \in DOMAIN matches, NEW w \in {matches[k].a, matches[k].b, NoEntry}, BeginDecision(k, w)
       PROVE  DecidingFits'
  <2>1. /\ deciding' = [c \in {k} |-> w] /\ matches' = matches /\ cancelling' = cancelling
        /\ cancelling = NotCancelling
    BY <1>12 DEF BeginDecision, AdvisoryLockFree
  <2>2. DOMAIN deciding' = {k} /\ deciding'[k] = w
    BY <2>1
  <2> QED
    BY <2>1, <2>2 DEF DecidingFits, NotCancelling
<1>13. ASSUME NEW k \in DOMAIN deciding, CommitDecision(k) \/ AbortDecision(k)
       PROVE  DecidingFits'
  <2>1. DOMAIN deciding' = {}
    BY <1>13 DEF CommitDecision, AbortDecision
  <2> QED
    BY <1>2, <2>1
<1> QED
  BY <1>4, <1>5, <1>6, <1>7, <1>8, <1>9, <1>10, <1>11, <1>12, <1>13, Zenon DEF Next

\* What was overwritten stays on record.
LEMMA StaysIntact ==
    ASSUME [Next]_vars, Intact'
    PROVE  Intact
<1>1. CASE UNCHANGED overwritten
  BY <1>1 DEF Intact
<1>2. ASSUME NEW k \in DOMAIN deciding, CommitDecision(k)
      PROVE  Intact
  BY <1>2 DEF CommitDecision, Intact
<1> QED
  BY <1>1, <1>2
  DEF Next, vars, CloseRegistration, Start, StartTooFew, ScanReconcile, StartMatch, ReplayMatch,
      ConfirmManagedResult, BeginDecision, ReplaceSide, CommitManagedResult, AbortManagedResult,
      AbortDecision, BeginCancel, CommitCancel, AbortCancel

Sound == Intact => Inv /\ DecidingFits

LEMMA SoundNext ==
    ASSUME Sound, [Next]_vars
    PROVE  Sound'
<1> SUFFICES ASSUME Intact' PROVE Inv' /\ DecidingFits'
  BY DEF Sound
<1>1. Inv /\ DecidingFits
  BY StaysIntact DEF Sound
<1> QED
  BY <1>1, EveryStepKeepsInv, EveryStepKeepsDecidingFits

\* Until a settled match is rewritten, rows are nodes of the bracket with their sides, and what
\* open confirmations will insert and open decisions will write fits the bracket when they commit.
THEOREM Invariance == Spec => []Sound
<1>1. Init => Sound
  BY InitFits DEF Init, Sound, DecidingFits
<1>2. Sound /\ [Next]_vars => Sound'
  BY SoundNext
<1> QED
  BY <1>1, <1>2, PTL DEF Spec

-----------------------------------------------------------------------------
(* The rows and the bracket *)

\* The nodes of the bracket that the seeds and the rows make.
LEMMA CurrentNodes ==
    Current.nodes = Nodes(rounds, seeds, matches, format)
BY BracketIs DEF Current

LEMMA InvRows ==
    ASSUME Inv
    PROVE  RowsMatchNodes
<1> SUFFICES ASSUME rounds > 0
             PROVE  LET nodes == Nodes(rounds, seeds, matches, format)
                    IN  /\ DOMAIN matches \subseteq DOMAIN nodes
                        /\ \A k \in DOMAIN matches :
                             matches[k].a = nodes[k].entryA /\ matches[k].b = nodes[k].entryB
  BY CurrentNodes DEF RowsMatchNodes
<1> DEFINE nodes == Nodes(rounds, seeds, matches, format)
<1>1. rounds \in 1..MaxRounds /\ format \in Formats /\ Fit(rounds, seeds, format, matches, confirming)
  BY InvSays
<1>2. DOMAIN nodes = Keys(rounds, format)
  BY <1>1, NodesAreABracket
<1>3. \A k \in DOMAIN matches : /\ k \in Keys(rounds, format)
                                /\ matches[k].a = nodes[k].entryA /\ matches[k].b = nodes[k].entryB
  BY <1>1 DEF Fit, RowsFit
<1> QED
  BY <1>2, <1>3

\* Every match row is a node of the bracket that the seeds and the results
\* determine, with that node's two sides, for any number of entries, whatever
\* confirmations, replacements, scans and cancellation interleave.
THEOREM RowsStayNodes == Spec => []RowsMatchNodes
<1>1. Sound => RowsMatchNodes
  BY InvRows DEF Sound, RowsMatchNodes
<1> QED
  BY <1>1, Invariance, PTL

\* A series that is settled keeps its winner and its loser in the bracket.
THEOREM SettledSeriesAreKept == Spec => SettledSeriesStay
<1> DEFINE Kept1 == Intact' /\ rounds > 0 =>
             \E before \in {Current.nodes}, after \in {Current'.nodes} :
                 \A k \in DOMAIN before : before[k].hasMatch /\ before[k].resolved =>
                   after[k].winner = before[k].winner /\ after[k].loser = before[k].loser
<1>1. Sound /\ [Next]_vars => Kept1
  <2> SUFFICES ASSUME Sound, [Next]_vars, Intact', rounds > 0
               PROVE  \E before \in {Current.nodes}, after \in {Current'.nodes} :
                        \A k \in DOMAIN before : before[k].hasMatch /\ before[k].resolved =>
                          after[k].winner = before[k].winner /\ after[k].loser = before[k].loser
    OBVIOUS
  <2> DEFINE before == Nodes(rounds, seeds, matches, format)
             after == Nodes(rounds, seeds', matches', format)
  <2>0. Inv /\ DecidingFits
    BY StaysIntact DEF Sound
  <2>1. SettledStay
    BY <2>0, EveryStepKeepsInv
  <2>2. rounds' = rounds /\ format' = format
    BY <2>1 DEF SettledStay
  <2>3. Current.nodes = before
    BY CurrentNodes
  <2>4. Current'.nodes = after
    <3>1. Current' = BuildBracket(rounds, seeds', matches', format)
      BY <2>2 DEF Current
    <3> QED
      BY <3>1, BracketIs
  <2>5. DOMAIN before = Keys(rounds, format)
    BY <2>0, InvSays, NodesAreABracket
  <2>6. \A k \in Keys(rounds, format) : before[k].hasMatch /\ before[k].resolved =>
           after[k].winner = before[k].winner /\ after[k].loser = before[k].loser
    BY <2>1 DEF SettledStay
  <2> HIDE DEF before, after
  <2> QED
    BY <2>3, <2>4, <2>5, <2>6
<1>2. SettledSeriesStay <=> [][Kept1]_vars
  BY DEF SettledSeriesStay
<1> HIDE DEF Kept1
<1>3. Sound /\ [Next]_vars => [Kept1]_vars
  BY <1>1
<1> QED
  BY <1>2, <1>3, Invariance, PTL DEF Spec

\* An entry is a side of at most one unresolved match row.
LEMMA InvOneSeries ==
    ASSUME Inv
    PROVE  OneUnresolvedSeries
<1> SUFFICES ASSUME NEW e \in Entries
             PROVE  Cardinality({k \in DOMAIN matches : InMatch(e, k) /\ matches[k].status \in Unresolved}) <= 1
  BY DEF OneUnresolvedSeries
<1> DEFINE open == {k \in DOMAIN matches : InMatch(e, k) /\ matches[k].status \in Unresolved}
           n == Nodes(rounds, seeds, matches, format)
           slots == Slots(rounds, seeds)
<1>1. ASSUME NEW k \in open, NEW m \in open
      PROVE  k = m
  <2>1. /\ format \in Formats /\ IsRows(matches) /\ seeds \in Seq(Entries) /\ Distinct(seeds)
        /\ rounds \in 1..MaxRounds /\ Fit(rounds, seeds, format, matches, confirming)
    BY InvSays
  <2>2. IsBracket(rounds, format, slots, matches, n) /\ DistinctSlots(rounds, slots)
    BY <2>1, NodesAreABracket, SlotsAreDistinct, EntriesAssumption DEF DistinctSlots
  <2>3. ASSUME NEW j \in open
        PROVE  /\ j \in Keys(rounds, format) /\ ~n[j].resolved
               /\ Side(n[j], 1) = matches[j].a /\ Side(n[j], 2) = matches[j].b
               /\ e \in {matches[j].a, matches[j].b}
    <3>1. j \in DOMAIN matches /\ matches[j].status # "COMPLETED" /\ e \in {matches[j].a, matches[j].b}
      BY DEF Unresolved, InMatch
    <3> QED
      BY <2>1, <3>1, OpenRow DEF Fit
  <2> HIDE DEF n, slots, open
  <2>4. PICK s \in Sides : Side(n[k], s) = e
    BY <1>1, <2>3 DEF Sides
  <2>5. PICK t \in Sides : Side(n[m], t) = e
    BY <1>1, <2>3 DEF Sides
  <2>6. k \in Keys(rounds, format) /\ m \in Keys(rounds, format) /\ ~n[k].resolved /\ ~n[m].resolved
    BY <1>1, <2>3
  <2>7. /\ Place(rounds, m) <= Place(rounds, k)
        /\ <<m, t>> = <<k, s>> \/ Precedes(rounds, format, n, e, m, k)
        /\ ~n[m].resolved => m = k
    <3>1. e # NoEntry /\ rounds \in 1..MaxRounds /\ format \in Formats
      BY <2>1, EntriesAssumption
    <3> QED
      BY <2>2, <2>4, <2>5, <2>6, <3>1, OneFrontier
  <2> QED
    BY <2>6, <2>7
<1> HIDE DEF open
<1>2. CASE open = {}
  BY <1>2, FS_EmptySet DEF open
<1>3. CASE open # {}
  <2>1. PICK k \in open : open = {k}
    BY <1>1, <1>3
  <2> QED
    BY <2>1, FS_Singleton DEF open
<1> QED
  BY <1>2, <1>3

\* No entry ever has two unresolved series, although several transactions
\* create matches from different snapshots of the bracket.
THEOREM SeriesComeOneByOne == Spec => []OneUnresolvedSeries
<1>1. Sound => OneUnresolvedSeries
  BY InvOneSeries DEF Sound, OneUnresolvedSeries
<1> QED
  BY <1>1, Invariance, PTL

-----------------------------------------------------------------------------
(* Eliminated teams *)

LEMMA AtMostOne ==
    ASSUME NEW S, \A x, y \in S : x = y
    PROVE  Cardinality(S) <= 1 /\ (S = {} => Cardinality(S) = 0)
<1>1. CASE S = {}
  BY <1>1, FS_EmptySet
<1>2. CASE S # {}
  <2>1. PICK x \in S : S = {x}
    BY <1>2
  <2> QED
    BY <2>1, FS_Singleton, SMTT(20)
<1> QED
  BY <1>1, <1>2

\* Where the nodes are that only losers reach.
LEMMA LastPlaces ==
    ASSUME NEW r \in 1..MaxRounds, NEW f \in Formats, NEW key \in Keys(r, f)
    PROVE  /\ Place(r, key) \in Nat
           /\ key[1] = "MAIN" => Place(r, key) <= r
           /\ f # "DOUBLE_ELIMINATION" /\ Place(r, key) > r => key = BronzeKey(r)
           /\ Place(r, BronzeKey(r)) = r + 1 /\ BronzeKey(r)[1] = "BRONZE"
<1>1. r \in Nat
  OBVIOUS
<1>2. Place(r, key) \in Nat
  <2>1. Place(r, key) \in 1..Depth(r, f)
    BY KeysByPlace
  <2> QED
    BY <2>1
<1>3. Place(r, BronzeKey(r)) = r + 1 /\ BronzeKey(r)[1] = "BRONZE"
  BY DEF Place, BronzeKey
<1>4. \A l \in 1..r : key \in MainRound(r, l) => key[1] = "MAIN" /\ key[2] = l
  BY DEF MainRound
<1>5. \A q \in 1..2*(r - 1) : key \in LowerRound(r, q) => key[1] = "LOWER"
  BY DEF LowerRound
<1>6. GrandFinalKey[1] = "GRAND_FINAL"
  BY DEF GrandFinalKey
<1>7. \/ \E l \in 1..r : key \in MainRound(r, l)
      \/ f = "DOUBLE_ELIMINATION" /\ \E q \in 1..2*(r - 1) : key \in LowerRound(r, q)
      \/ f = "DOUBLE_ELIMINATION" /\ key = GrandFinalKey
      \/ f # "DOUBLE_ELIMINATION" /\ r >= 2 /\ key = BronzeKey(r)
  BY KeysByKind
<1>8. (\E l \in 1..r : key \in MainRound(r, l)) => Place(r, key) <= r
  BY <1>4 DEF Place
<1>9. key[1] = "MAIN" => \E l \in 1..r : key \in MainRound(r, l)
  BY <1>3, <1>5, <1>6, <1>7
<1> QED
  BY <1>1, <1>2, <1>3, <1>7, <1>8, <1>9

\* Whoever waits at a node and has lost another has been taken on as its loser.
LEMMA LossTaken ==
    ASSUME NEW r \in 1..MaxRounds, NEW f \in Formats, NEW slots, NEW ms, NEW n,
           IsBracket(r, f, slots, ms, n), NEW e, NEW m \in Keys(r, f), n[m].winner # e,
           NEW k, Precedes(r, f, n, e, m, k)
    PROVE  \E c \in Keys(r, f), u \in Sides :
             /\ Takes(r, n, e, m, c, u) /\ Side(n[c], u) = e /\ Place(r, c) <= Place(r, k)
             /\ m[1] = "MAIN" /\ Feeds(r, c)[u].key = m
             /\ IF f = "DOUBLE_ELIMINATION" THEN Place(r, c) > r ELSE c = BronzeKey(r)
<1>1. PICK c \in Keys(r, f), u \in Sides : Takes(r, n, e, m, c, u) /\ Place(r, c) <= Place(r, k)
  BY DEF Precedes
<1>2. Side(n[c], u) = e
  BY <1>1, TakersHold
<1>3. FeedFits(r, f, c, u, Feeds(r, c)[u])
  BY <1>1, FeedsFit DEF Takes, Sides
<1>4. Feeds(r, c)[u].result = "loser" /\ Feeds(r, c)[u].key = m
  BY <1>1, <1>3 DEF FeedFits, Takes
<1> QED
  BY <1>1, <1>2, <1>3, <1>4 DEF FeedFits

\* A team that waits for a series has lost at most one, and in single
\* elimination only on its way to the third-place match.
LEMMA FewLosses ==
    ASSUME NEW r \in 1..MaxRounds, NEW f \in Formats, NEW slots, NEW ms, NEW n,
           IsBracket(r, f, slots, ms, n), DistinctSlots(r, slots), NEW e, e # NoEntry,
           NEW k \in Keys(r, f), NEW s \in Sides, Side(n[k], s) = e, ~n[k].resolved,
           NEW m \in Keys(r, f), NEW t \in Sides, Side(n[m], t) = e, n[m].resolved, n[m].winner # e
    PROVE  /\ f # "DOUBLE_ELIMINATION" => k = BronzeKey(r)
           /\ \A p \in Keys(r, f), v \in Sides :
                Side(n[p], v) = e /\ n[p].resolved /\ n[p].winner # e => p = m
<1>1. ASSUME NEW p \in Keys(r, f), NEW v \in Sides, Side(n[p], v) = e, n[p].resolved
      PROVE  Precedes(r, f, n, e, p, k)
  <2>1. /\ Place(r, p) <= Place(r, k)
        /\ <<p, v>> = <<k, s>> \/ Precedes(r, f, n, e, p, k)
        /\ ~n[p].resolved => p = k
    BY <1>1, OneFrontier
  <2>2. <<p, v>> # <<k, s>>
    BY <1>1
  <2> QED
    BY <2>1, <2>2
<1>2. PICK c \in Keys(r, f), u \in Sides :
             /\ Takes(r, n, e, m, c, u) /\ Side(n[c], u) = e /\ Place(r, c) <= Place(r, k)
             /\ m[1] = "MAIN" /\ Feeds(r, c)[u].key = m
             /\ IF f = "DOUBLE_ELIMINATION" THEN Place(r, c) > r ELSE c = BronzeKey(r)
  BY <1>1, LossTaken
<1>3. /\ Place(r, k) \in Nat /\ Place(r, c) \in Nat /\ r \in Nat /\ Place(r, BronzeKey(r)) = r + 1
      /\ f # "DOUBLE_ELIMINATION" /\ Place(r, k) > r => k = BronzeKey(r)
  BY LastPlaces
<1>4. f # "DOUBLE_ELIMINATION" => k = BronzeKey(r)
  BY <1>2, <1>3
<1>5. ASSUME NEW p \in Keys(r, f), NEW v \in Sides, Side(n[p], v) = e, n[p].resolved, n[p].winner # e, p # m
      PROVE  FALSE
  <2>1. PICK d \in Keys(r, f), w \in Sides :
             /\ Takes(r, n, e, p, d, w) /\ Side(n[d], w) = e /\ Place(r, d) <= Place(r, k)
             /\ p[1] = "MAIN" /\ Feeds(r, d)[w].key = p
             /\ IF f = "DOUBLE_ELIMINATION" THEN Place(r, d) > r ELSE d = BronzeKey(r)
    BY <1>1, <1>5, LossTaken
  <2>2. CASE f # "DOUBLE_ELIMINATION"
    <3>1. c = k /\ d = k /\ u # w /\ Side(n[k], u) = e /\ Side(n[k], w) = e
      BY <1>2, <1>4, <1>5, <2>1, <2>2
    <3>2. \A v1, v2 \in Sides : Side(n[k], v1) = e /\ Side(n[k], v2) = e => v1 = v2
      <4> SUFFICES ASSUME NEW v1 \in Sides, NEW v2 \in Sides, Side(n[k], v1) = e, Side(n[k], v2) = e
                   PROVE  v1 = v2
        OBVIOUS
      <4>1. /\ Place(r, k) <= Place(r, k)
            /\ <<k, v2>> = <<k, v1>> \/ Precedes(r, f, n, e, k, k)
            /\ ~n[k].resolved => k = k
        BY OneFrontier
      <4> QED
        BY <1>3, <4>1 DEF Precedes
    <3> QED
      BY <3>1, <3>2
  <2>3. CASE f = "DOUBLE_ELIMINATION"
    <3>1. /\ Place(r, m) \in Nat /\ Place(r, p) \in Nat /\ Place(r, m) <= r /\ Place(r, p) <= r
      BY <1>2, <2>1, LastPlaces
    <3>2. ASSUME NEW x \in Keys(r, f), NEW y \in Keys(r, f), NEW a \in Sides, NEW b \in Sides,
                 Side(n[x], a) = e, Side(n[y], b) = e, x # y, n[x].winner # e, Place(r, x) <= Place(r, y),
                 Place(r, y) <= r, Place(r, y) \in Nat
          PROVE  FALSE
      <4>1. Threaded(r, f, n, e, y)
        BY OneThread
      <4>2. Precedes(r, f, n, e, x, y)
        BY <3>2, <4>1 DEF Threaded
      <4>3. PICK g \in Keys(r, f) : Place(r, g) <= Place(r, y) /\ Place(r, g) > r
        BY <2>3, <3>2, <4>2, LossTaken
      <4>4. Place(r, g) \in Nat
        BY LastPlaces
      <4> QED
        BY <1>3, <3>2, <4>3, <4>4
    <3>3. Place(r, m) <= Place(r, p) \/ Place(r, p) <= Place(r, m)
      BY <3>1
    <3> QED
      BY <1>5, <3>1, <3>2, <3>3
  <2> QED
    BY <2>2, <2>3
<1> QED
  BY <1>4, <1>5

LEMMA InvEliminated ==
    ASSUME Inv
    PROVE  EliminatedTeamsStopPlaying
<1> SUFFICES ASSUME NEW k \in DOMAIN matches, matches[k].status \in Unresolved, NEW e \in {matches[k].a, matches[k].b}
             PROVE  Losses(e) <= IF format = "DOUBLE_ELIMINATION" \/ k[1] = "BRONZE" THEN 1 ELSE 0
  BY DEF EliminatedTeamsStopPlaying
<1> DEFINE lost == {m \in DOMAIN matches : InMatch(e, m) /\ matches[m].status = "COMPLETED" /\ matches[m].winner # e}
           n == Nodes(rounds, seeds, matches, format)
           slots == Slots(rounds, seeds)
<1>1. /\ format \in Formats /\ IsRows(matches) /\ seeds \in Seq(Entries) /\ Distinct(seeds)
      /\ rounds \in 1..MaxRounds /\ Fit(rounds, seeds, format, matches, confirming) /\ WinnersPlayed(matches)
  BY InvSays
<1>2. IsBracket(rounds, format, slots, matches, n) /\ DistinctSlots(rounds, slots)
  BY <1>1, NodesAreABracket, SlotsAreDistinct, EntriesAssumption DEF DistinctSlots
<1>3. /\ k \in Keys(rounds, format) /\ ~n[k].resolved
      /\ Side(n[k], 1) = matches[k].a /\ Side(n[k], 2) = matches[k].b
  <2>1. matches[k].status # "COMPLETED" /\ RowsFit(rounds, seeds, format, matches)
    BY <1>1 DEF Unresolved, Fit
  <2> QED
    BY <1>1, <2>1, OpenRow
<1>4. e # NoEntry
  BY <1>1, RowsAreKnown
<1>5. ASSUME NEW m \in lost
      PROVE  /\ m \in Keys(rounds, format) /\ n[m].resolved /\ n[m].winner # e
             /\ \E t \in Sides : Side(n[m], t) = e
  <2>1. /\ m \in DOMAIN matches /\ e \in {matches[m].a, matches[m].b} /\ matches[m].status = "COMPLETED"
        /\ matches[m].winner # e /\ matches[m].winner \in {matches[m].a, matches[m].b}
    BY <1>1 DEF InMatch, WinnersPlayed
  <2>2. m \in Keys(rounds, format) /\ matches[m].a = n[m].entryA /\ matches[m].b = n[m].entryB
    BY <1>1, <2>1 DEF Fit, RowsFit
  <2>3. matches[m].a # NoEntry /\ matches[m].b # NoEntry
    BY <1>1, <2>1, RowsAreKnown
  <2> HIDE DEF n, slots, lost
  <2>4. NodeSays(matches, m, n[m])
    BY <1>1, <1>2, <2>2, NodeSides
  <2>5. Valid(matches, m, n[m])
    BY <2>1, <2>2, <2>3 DEF Valid
  <2>6. \E t \in Sides : Side(n[m], t) = e
    BY <2>1, <2>2 DEF Sides, Side
  <2> QED
    BY <2>1, <2>2, <2>4, <2>5, <2>6 DEF NodeSays
<1> HIDE DEF n, slots, lost
<1>6. PICK s \in Sides : Side(n[k], s) = e
  BY <1>3 DEF Sides
<1>7. ASSUME NEW m \in lost
      PROVE  /\ format # "DOUBLE_ELIMINATION" => k = BronzeKey(rounds)
             /\ \A p \in lost : p = m
  <2>1. PICK t \in Sides : Side(n[m], t) = e
    BY <1>5
  <2>2. m \in Keys(rounds, format) /\ n[m].resolved /\ n[m].winner # e
    BY <1>5
  <2>3. rounds \in 1..MaxRounds /\ format \in Formats
    BY <1>1
  <2>4. /\ format # "DOUBLE_ELIMINATION" => k = BronzeKey(rounds)
        /\ \A p \in Keys(rounds, format), v \in Sides :
             Side(n[p], v) = e /\ n[p].resolved /\ n[p].winner # e => p = m
    BY <1>2, <1>3, <1>4, <1>6, <2>1, <2>2, <2>3, FewLosses
  <2> QED
    BY <1>5, <2>4
<1>8. Losses(e) = Cardinality(lost)
  BY DEF Losses, lost
<1>9. Cardinality(lost) <= 1 /\ (lost = {} => Cardinality(lost) = 0)
  BY <1>7, AtMostOne
<1>10. BronzeKey(rounds)[1] = "BRONZE"
  BY DEF BronzeKey
<1>11. lost = {} \/ format = "DOUBLE_ELIMINATION" \/ k[1] = "BRONZE"
  BY <1>7, <1>10
<1>12. CASE format = "DOUBLE_ELIMINATION" \/ k[1] = "BRONZE"
  BY <1>8, <1>9, <1>12
<1>13. CASE ~(format = "DOUBLE_ELIMINATION" \/ k[1] = "BRONZE")
  BY <1>8, <1>9, <1>11, <1>13
<1> QED
  BY <1>12, <1>13

\* A team that has lost its last chance is given no further series.
THEOREM EliminatedTeamsAreOut == Spec => []EliminatedTeamsStopPlaying
<1>1. Sound => EliminatedTeamsStopPlaying
  BY InvEliminated DEF Sound, EliminatedTeamsStopPlaying
<1> QED
  BY <1>1, Invariance, PTL

-----------------------------------------------------------------------------
(* The tournament is its seeds and results: the steps of BracketResults.   *)

Settled(ms) == [k \in {m \in DOMAIN ms : ms[m].status = "COMPLETED"} |-> ms[k]]

\* BracketResults has its own builder, which is the same.
LEMMA SameBuilder ==
    /\ \A r, sds, ms, f : Results!BuildBracket(r, sds, ms, f) = BuildBracket(r, sds, ms, f)
    /\ \A n : Results!Log2Ceil(n) = Log2Ceil(n)
    /\ \A f, g : Results!Over(f, g) = Over(f, g)
<1>1. ASSUME NEW r, NEW sds, NEW ms, NEW f
      PROVE  Results!BuildBracket(r, sds, ms, f) = BuildBracket(r, sds, ms, f)
  BY Zenon DEF BuildBracket, With, Nodes, Layers, MainRound, LowerRound, BronzeKey, GrandFinalKey, LowerRoundSize,
       Slots, SeedOrder, BuildLayer, FedNode, Node, ValidResult, Feeds, LowerFeeds, WinnerOf, LoserOf, Crossed,
       LowerChampion, Ready, Complete, Podium, PreviousRound,
       Results!BuildBracket, Results!With, Results!Nodes, Results!Layers, Results!MainRound, Results!LowerRound,
       Results!BronzeKey, Results!GrandFinalKey, Results!LowerRoundSize, Results!Slots, Results!SeedOrder,
       Results!BuildLayer, Results!FedNode, Results!Node, Results!ValidResult, Results!Feeds, Results!LowerFeeds,
       Results!WinnerOf, Results!LoserOf, Results!Crossed, Results!LowerChampion, Results!Ready,
       Results!Complete, Results!Podium, Results!PreviousRound
<1>2. ASSUME NEW n
      PROVE  Results!Log2Ceil(n) = Log2Ceil(n)
  BY DEF Log2Ceil, MaxRounds, Results!Log2Ceil, Results!MaxRounds
<1>3. ASSUME NEW f, NEW g
      PROVE  Results!Over(f, g) = Over(f, g)
  BY DEF Over, Results!Over
<1> QED
  BY <1>1, <1>2, <1>3, SMTT(20)

LEMMA DerivedIs ==
    Results!Derived = BuildBracket(rounds, seeds, Settled(matches), format)
<1>1. Results!Derived = Results!BuildBracket(rounds, seeds, SettledRows, format)
  BY DEF Results!Derived, Results!With
<1>2. SettledRows = Settled(matches)
  BY DEF SettledRows, Settled
<1> QED
  BY <1>1, <1>2, SameBuilder

LEMMA SettledTheSame ==
    ASSUME NEW ms, NEW ms2,
           \A k : k \in DOMAIN ms /\ ms[k].status = "COMPLETED" => k \in DOMAIN ms2 /\ ms2[k] = ms[k],
           \A k : k \in DOMAIN ms2 /\ ms2[k].status = "COMPLETED" => k \in DOMAIN ms /\ ms[k].status = "COMPLETED"
    PROVE  Settled(ms2) = Settled(ms)
<1>1. {k \in DOMAIN ms2 : ms2[k].status = "COMPLETED"} = {k \in DOMAIN ms : ms[k].status = "COMPLETED"}
  OBVIOUS
<1> QED
  BY <1>1 DEF Settled

\* Rows that are only added as scheduled settle nothing.
LEMMA SettledThrough ==
    ASSUME NEW r, NEW sds, NEW f, NEW ms, NEW ms2, Extends(r, sds, f, ms, ms2), OnlyScheduled(ms, ms2)
    PROVE  Settled(ms2) = Settled(ms)
<1>1. \A k : k \in DOMAIN ms /\ ms[k].status = "COMPLETED" => k \in DOMAIN ms2 /\ ms2[k] = ms[k]
  BY DEF Extends, OnlyScheduled
<1>2. \A k : k \in DOMAIN ms2 /\ ms2[k].status = "COMPLETED" => k \in DOMAIN ms /\ ms[k].status = "COMPLETED"
  BY DEF OnlyScheduled
<1> QED
  BY <1>1, <1>2, SettledTheSame

OneResult(ms, k, w) == [c \in {k} |-> [a |-> ms[k].a, b |-> ms[k].b, status |-> "COMPLETED", winner |-> w]]

LEMMA DecisionSettles ==
    ASSUME NEW ms, IsRows(ms), NEW k \in DOMAIN ms, NEW w \in Entries
    PROVE  Settled(Decide(ms, k, w)) = Over(OneResult(ms, k, w), Settled(ms))
<1> DEFINE d == Decide(ms, k, w)
           row == [a |-> ms[k].a, b |-> ms[k].b, status |-> "COMPLETED", winner |-> w]
           one == [c \in {k} |-> row]
           done == {m \in DOMAIN ms : ms[m].status = "COMPLETED"}
           old == [c \in done |-> ms[c]]
<1>1. /\ IsRows(d) /\ DOMAIN d = DOMAIN ms /\ \A j \in DOMAIN ms : j # k => d[j] = ms[j]
      /\ d[k].a = ms[k].a /\ d[k].b = ms[k].b /\ d[k].status = "COMPLETED" /\ d[k].winner = w
  BY DecideIs
<1> HIDE DEF d
<1>2. d[k] = row
  <2>1. d[k] \in Rows
    BY <1>1 DEF IsRows
  <2> QED
    BY <1>1, <2>1 DEF Rows
<1> HIDE DEF row
<1>3. DOMAIN one = {k} /\ one[k] = row /\ DOMAIN old = done /\ \A c \in done : old[c] = ms[c]
  OBVIOUS
<1>4. one = OneResult(ms, k, w) /\ old = Settled(ms)
  BY DEF OneResult, Settled, row
<1> HIDE DEF one, old
<1>5. {m \in DOMAIN d : d[m].status = "COMPLETED"} = {k} \cup done
  BY <1>1
<1>6. Settled(d) = [c \in {k} \cup done |-> d[c]]
  BY <1>5 DEF Settled
<1>7. Over(one, old) = [c \in {k} \cup done |-> IF c \in {k} THEN one[c] ELSE old[c]]
  BY <1>3 DEF Over
<1>8. \A c \in {k} \cup done : d[c] = IF c \in {k} THEN one[c] ELSE old[c]
  BY <1>1, <1>2, <1>3
<1>9. Settled(d) = Over(one, old)
  <2> HIDE DEF done
  <2> QED
    BY <1>6, <1>7, <1>8
<1> QED
  BY <1>4, <1>9 DEF d

\* A result is one of the bracket that the results before it determine.
LEMMA ResultSettles ==
    ASSUME Inv, NEW k \in DOMAIN matches, matches[k].status # "COMPLETED", NEW w \in {matches[k].a, matches[k].b},
           Settled(matches') = Over(OneResult(matches, k, w), Settled(matches)),
           UNCHANGED <<format, rounds, seeds>>
    PROVE  Results!Settle
<1> DEFINE done == Settled(matches)
           n == Nodes(rounds, seeds, matches, format)
           n2 == Nodes(rounds, seeds, done, format)
           e == matches[k].a
<1>1. /\ format \in Formats /\ IsRows(matches) /\ rounds \in 1..MaxRounds /\ rounds > 0
      /\ Fit(rounds, seeds, format, matches, confirming)
  BY InvSays
<1>2. e \in Entries /\ matches[k].b # NoEntry /\ e # NoEntry
  BY <1>1, RowsAreKnown
<1>3. /\ DOMAIN done \subseteq DOMAIN matches /\ k \notin DOMAIN done
      /\ \A j \in DOMAIN matches : matches[j].status = "COMPLETED" <=> j \in DOMAIN done
      /\ \A j \in DOMAIN done : done[j] = matches[j]
  BY DEF Settled
<1> HIDE DEF done, e
<1>4. \A key \in Keys(rounds, format) : Renamed(e, e, n[key], n2[key])
  <2>1. \A i \in 1..2^rounds : Slots(rounds, seeds)[i] = Named(e, e, Slots(rounds, seeds)[i])
    BY DEF Named
  <2>2. \A j \in DOMAIN matches :
           /\ matches[j].status = "COMPLETED" <=> j \in DOMAIN done /\ done[j].status = "COMPLETED"
           /\ matches[j].status = "COMPLETED" => /\ done[j].winner = matches[j].winner
                                                 /\ e = e \/ e \notin {matches[j].a, matches[j].b}
    BY <1>3
  <2>3. RowsFit(rounds, seeds, format, matches)
    BY <1>1 DEF Fit
  <2> QED
    BY <1>1, <1>2, <1>3, <2>1, <2>2, <2>3, RowsRenamed
<1>5. k \in Keys(rounds, format) /\ matches[k].a = n[k].entryA /\ matches[k].b = n[k].entryB
  BY <1>1 DEF Fit, RowsFit
<1>6. n2[k].entryA = matches[k].a /\ n2[k].entryB = matches[k].b
  BY <1>4, <1>5 DEF Renamed, Named, Side, Sides
<1>7. DOMAIN n2 = Keys(rounds, format) /\ IsBracket(rounds, format, Slots(rounds, seeds), done, n2)
  BY <1>1, NodesAreABracket
<1>8. ~n2[k].hasMatch
  <2> HIDE DEF n2
  <2>1. NodeSays(done, k, n2[k])
    BY <1>1, <1>5, <1>7, NodeSides
  <2> QED
    BY <1>3, <2>1 DEF NodeSays
<1>9. Results!Derived.nodes = n2
  BY DerivedIs, BracketIs DEF done
<1>10. SettledRows = done /\ SettledRows' = Settled(matches')
  BY DEF SettledRows, Settled, done
<1> HIDE DEF n, n2
<1>11. Results!Playable(n2, k)
  BY <1>2, <1>6, <1>8 DEF Results!Playable, e
<1>12. SettledRows' = Results!Over([c \in {k} |-> [a |-> n2[k].entryA, b |-> n2[k].entryB,
                                                   status |-> "COMPLETED", winner |-> w]], SettledRows)
  BY <1>6, <1>10, SameBuilder DEF OneResult, done
<1>13. k \in DOMAIN n2 /\ w \in {n2[k].entryA, n2[k].entryB}
  BY <1>5, <1>6, <1>7
<1> QED
  BY <1>1, <1>9, <1>11, <1>12, <1>13 DEF Results!Settle

\* The steps that settle no series and hand no seed over.
ResultsStay == Settled(matches') = Settled(matches) /\ UNCHANGED <<format, rounds, seeds>>

LEMMA StayIsAStutter ==
    ASSUME ResultsStay
    PROVE  UNCHANGED Results!vars
BY DEF ResultsStay, Results!vars, SettledRows, Settled

LEMMA ReconcileSettlesNothing ==
    ASSUME Inv, rounds > 0, NEW ms, IsRows(ms), Fit(rounds, seeds, format, ms, confirming),
           Reconcile(ms, seeds, rounds)
    PROVE  Settled(matches') = Settled(ms)
<1>1. format \in Formats /\ rounds \in 1..MaxRounds /\ seeds \in Seq(Entries) /\ Distinct(seeds)
  BY InvSays
<1>2. Extends(rounds, seeds, format, ms, matches') /\ OnlyScheduled(ms, matches')
  BY <1>1, ReconcileFits
<1> QED
  BY <1>2, SettledThrough

\* A match that has no result yet gets another status.
LEMMA RestatusSettlesNothing ==
    ASSUME NEW k \in DOMAIN matches, matches[k].status \in Unresolved, NEW d, Reopens(d, k)
    PROVE  Settled(d) = Settled(matches)
<1>1. PICK after \in Rows :
           /\ after.status \in Unresolved
           /\ d = [j \in DOMAIN matches |-> IF j = k THEN after ELSE matches[j]]
  BY DEF Reopens
<1>2. DOMAIN d = DOMAIN matches /\ d[k] = after /\ \A j \in DOMAIN matches : j # k => d[j] = matches[j]
  BY <1>1
<1>3. matches[k].status # "COMPLETED" /\ after.status # "COMPLETED"
  BY <1>1 DEF Unresolved
<1>4. \A j : j \in DOMAIN matches /\ matches[j].status = "COMPLETED" => j \in DOMAIN d /\ d[j] = matches[j]
  BY <1>2, <1>3
<1>5. \A j : j \in DOMAIN d /\ d[j].status = "COMPLETED" => j \in DOMAIN matches /\ matches[j].status = "COMPLETED"
  BY <1>2, <1>3
<1> QED
  BY <1>4, <1>5, SettledTheSame

LEMMA StartMatchSettlesNothing ==
    ASSUME Inv, NEW k \in DOMAIN matches, StartMatch(k)
    PROVE  ResultsStay
<1>1. /\ matches[k].status \in Unresolved /\ "IN_PROGRESS" \in Unresolved
      /\ matches' = [matches EXCEPT ![k].status = "IN_PROGRESS"]
      /\ UNCHANGED <<format, rounds, seeds>>
  BY DEF StartMatch, Playable, Unresolved, registration, Unsettled
<1>2. Reopens(matches', k)
  BY <1>1, StatusReopens
<1> QED
  BY <1>1, <1>2, RestatusSettlesNothing DEF ResultsStay

LEMMA ReplayMatchSettlesNothing ==
    ASSUME Inv, NEW k \in DOMAIN matches, ReplayMatch(k)
    PROVE  ResultsStay
<1> DEFINE d == [matches EXCEPT ![k].status = "SCHEDULED"]
<1>1. /\ matches[k].status \in Unresolved /\ k \notin DOMAIN confirming /\ "SCHEDULED" \in Unresolved
      /\ IF status = "IN_PROGRESS" THEN Reconcile(d, seeds, rounds) ELSE matches' = d
      /\ UNCHANGED <<format, rounds, seeds>>
  BY DEF ReplayMatch, Playable, RowLocked, Unresolved, registration, Unsettled
<1>0. Reopens(d, k)
  BY <1>1, StatusReopens
<1> HIDE DEF d
<1>2. IsRows(d) /\ Fit(rounds, seeds, format, d, confirming)
  BY <1>0, <1>1, RestatusFits
<1>3. Settled(d) = Settled(matches)
  BY <1>0, <1>1, RestatusSettlesNothing
<1>4. rounds > 0
  BY InvSays
<1> HIDE DEF d
<1>5. CASE status = "IN_PROGRESS"
  BY <1>1, <1>2, <1>3, <1>4, <1>5, ReconcileSettlesNothing DEF ResultsStay
<1>6. CASE status # "IN_PROGRESS"
  BY <1>1, <1>3, <1>6 DEF ResultsStay
<1> QED
  BY <1>5, <1>6

LEMMA ScanSettlesNothing ==
    ASSUME Inv, ScanReconcile
    PROVE  ResultsStay
<1>1. rounds > 0 /\ Reconcile(matches, seeds, rounds) /\ UNCHANGED <<format, rounds, seeds>>
  BY DEF ScanReconcile, registration
<1>2. IsRows(matches) /\ Fit(rounds, seeds, format, matches, confirming)
  BY <1>1, InvSays
<1> QED
  BY <1>1, <1>2, ReconcileSettlesNothing DEF ResultsStay

LEMMA CancelSettlesNothing ==
    ASSUME Inv, CommitCancel
    PROVE  ResultsStay
<1> DEFINE after == [k \in DOMAIN matches |->
                       IF k \in cancelling /\ matches[k].status \in Unresolved
                       THEN [matches[k] EXCEPT !.status = "CANCELLED"] ELSE matches[k]]
<1>1. matches' = after /\ UNCHANGED <<format, rounds, seeds>>
  BY DEF CommitCancel, registration
<1>2. \A k \in DOMAIN matches : matches[k] \in Rows
  BY InvSays DEF IsRows
<1>3. \A k \in DOMAIN matches : ([matches[k] EXCEPT !.status = "CANCELLED"]).status = "CANCELLED"
  BY <1>2 DEF Rows
<1> HIDE DEF after
<1>4. /\ DOMAIN after = DOMAIN matches
      /\ \A k \in DOMAIN matches : \/ after[k] = matches[k]
                                   \/ matches[k].status # "COMPLETED" /\ after[k].status # "COMPLETED"
  BY <1>3 DEF after, Unresolved
<1>5. \A j : j \in DOMAIN matches /\ matches[j].status = "COMPLETED" => j \in DOMAIN after /\ after[j] = matches[j]
  BY <1>4
<1>6. \A j : j \in DOMAIN after /\ after[j].status = "COMPLETED" => j \in DOMAIN matches /\ matches[j].status = "COMPLETED"
  BY <1>4
<1>7. Settled(after) = Settled(matches)
  BY <1>5, <1>6, SettledTheSame
<1> QED
  BY <1>1, <1>7 DEF ResultsStay

\* A decision on an open match settles it or changes no result.
LEMMA CommittedDecisionSettles ==
    ASSUME Inv, DecidingFits, Intact', NEW k \in DOMAIN deciding, CommitDecision(k)
    PROVE  Results!Settle \/ ResultsStay
<1> DEFINE w == deciding[k]
           d == Decided(k, w)
<1>1. /\ k \in DOMAIN matches /\ matches[k].status \in Unresolved
      /\ IsRows(d) /\ Fit(rounds, seeds, format, d, confirming)
      /\ IF status = "IN_PROGRESS" THEN Reconcile(d, seeds, rounds) ELSE matches' = d
      /\ UNCHANGED <<format, rounds, seeds>>
  BY DecisionFits
<1>2. rounds > 0 /\ IsRows(matches)
  BY <1>1, InvSays
<1>3. Settled(matches') = Settled(d)
  <2> HIDE DEF d
  <2>1. CASE status = "IN_PROGRESS"
    BY <1>1, <1>2, <2>1, ReconcileSettlesNothing
  <2>2. CASE status # "IN_PROGRESS"
    BY <1>1, <2>2
  <2> QED
    BY <2>1, <2>2
<1>4. w \in {matches[k].a, matches[k].b, NoEntry}
  BY DEF DecidingFits
<1> HIDE DEF w
<1>5. CASE w = NoEntry
  <2>1. Reopens(d, k)
    BY <1>1, <1>5, NextGameReopens
  <2> HIDE DEF d
  <2>2. Settled(d) = Settled(matches)
    BY <1>1, <2>1, RestatusSettlesNothing
  <2> QED
    BY <1>1, <1>3, <2>2 DEF ResultsStay
<1>6. CASE w \in {matches[k].a, matches[k].b}
  <2>1. w \in Entries
    BY <1>1, <1>2, <1>6, RowsAreKnown
  <2>2. d = Decide(matches, k, w)
    BY <2>1, EntriesAssumption DEF Decided, Decide
  <2> HIDE DEF d
  <2>3. Settled(d) = Over(OneResult(matches, k, w), Settled(matches))
    BY <1>1, <1>2, <2>1, <2>2, DecisionSettles DEF Unresolved
  <2>4. matches[k].status # "COMPLETED"
    BY <1>1 DEF Unresolved
  <2> QED
    BY <1>1, <1>3, <1>6, <2>3, <2>4, ResultSettles
<1> QED
  BY <1>4, <1>5, <1>6

LEMMA CommittedResultSettles ==
    ASSUME Inv, NEW k \in DOMAIN confirming, CommitManagedResult(k)
    PROVE  Results!Settle
<1> DEFINE w == confirming[k].winner
           new == confirming[k].create
           d == Decided(k, w)
           after == Over(new, d)
<1>1. DOMAIN new \cap DOMAIN matches = {} /\ matches' = after /\ UNCHANGED <<format, rounds, seeds>>
  BY DEF CommitManagedResult, registration
<1>2. IsRows(matches) /\ Fit(rounds, seeds, format, matches, confirming)
  BY InvSays
<1>3. /\ k \in DOMAIN matches /\ matches[k].status # "COMPLETED" /\ w \in {matches[k].a, matches[k].b}
      /\ \A m \in DOMAIN new : new[m].status = "SCHEDULED"
  BY <1>2 DEF Fit, CallFits
<1>4. w \in Entries
  BY <1>2, <1>3, RowsAreKnown
<1>5. d = Decide(matches, k, w)
  BY <1>4, EntriesAssumption DEF Decided, Decide
<1> HIDE DEF w, d, new
<1>6. DOMAIN d = DOMAIN matches /\ Settled(d) = Over(OneResult(matches, k, w), Settled(matches))
  BY <1>2, <1>3, <1>4, <1>5, DecisionSettles, DecideIs
<1>7. after = [m \in DOMAIN new \cup DOMAIN d |-> IF m \in DOMAIN new THEN new[m] ELSE d[m]]
  BY DEF Over
<1> HIDE DEF after
<1>8. \A j : j \in DOMAIN d /\ d[j].status = "COMPLETED" => j \in DOMAIN after /\ after[j] = d[j]
  BY <1>1, <1>6, <1>7
<1>9. \A j : j \in DOMAIN after /\ after[j].status = "COMPLETED" => j \in DOMAIN d /\ d[j].status = "COMPLETED"
  BY <1>3, <1>7
<1>10. Settled(after) = Settled(d)
  BY <1>8, <1>9, SettledTheSame
<1> QED
  BY <1>1, <1>3, <1>6, <1>10, ResultSettles

LEMMA ReplacementHandsOver ==
    ASSUME Inv, NEW k \in DOMAIN matches, NEW e \in Entries, NEW x \in Entries, ReplaceSide(k, e, x)
    PROVE  Results!HandOver
<1> DEFINE ms2 == Substituted(matches, k, e, x)
           sds2 == Handed(seeds, e, x)
<1>1. /\ rounds > 0 /\ seeds \in Seq(Entries) /\ Distinct(seeds)
      /\ IsRows(matches) /\ matches[k].status = "SCHEDULED"
      /\ e \in {matches[k].a, matches[k].b} /\ matches[k].a # matches[k].b
      /\ \A m \in DOMAIN matches : m # k => e \notin {matches[m].a, matches[m].b}
      /\ \A i \in 1..Len(seeds) : seeds[i] # x
      /\ matches' = ms2 /\ seeds' = sds2 /\ UNCHANGED <<format, rounds>>
  BY ReplacementIs
<1>2. /\ DOMAIN ms2 = DOMAIN matches /\ \A j \in DOMAIN matches : j # k => ms2[j] = matches[j]
      /\ ms2[k].status = matches[k].status
  BY <1>1, SubstitutedIs
<1>3. PICK i \in 1..Len(seeds) : seeds[i] = e
  <2>1. entryStatus[e] = "REGISTERED"
    BY DEF ReplaceSide
  <2> QED
    BY <1>1, <2>1 DEF Inv, SeedsAreRegistered
<1>4. DOMAIN seeds = 1..Len(seeds) /\ seeds = [j \in 1..Len(seeds) |-> seeds[j]]
  BY <1>1
<1>5. sds2 = [seeds EXCEPT ![i] = x]
  <2>1. \A j \in 1..Len(seeds) : seeds[j] = e <=> j = i
    BY <1>1, <1>3 DEF Distinct
  <2> QED
    BY <1>4, <2>1 DEF Handed
<1> HIDE DEF ms2, sds2
<1>6. Settled(ms2) = Settled(matches)
  <2>1. \A j : j \in DOMAIN matches /\ matches[j].status = "COMPLETED" => j \in DOMAIN ms2 /\ ms2[j] = matches[j]
    BY <1>1, <1>2
  <2>2. \A j : j \in DOMAIN ms2 /\ ms2[j].status = "COMPLETED" => j \in DOMAIN matches /\ matches[j].status = "COMPLETED"
    BY <1>1, <1>2
  <2> QED
    BY <2>1, <2>2, SettledTheSame
<1>7. SettledRows' = SettledRows /\ SettledRows = Settled(matches)
  BY <1>1, <1>6 DEF SettledRows, Settled
<1>8. \A key \in DOMAIN SettledRows : seeds[i] \notin {SettledRows[key].a, SettledRows[key].b}
  BY <1>1, <1>3, <1>7 DEF Settled
<1>9. i \in DOMAIN seeds /\ \A j \in DOMAIN seeds : seeds[j] # x
  BY <1>1, <1>4
<1> QED
  BY <1>1, <1>5, <1>7, <1>8, <1>9 DEF Results!HandOver

LEMMA StartFreezes ==
    ASSUME Inv, Start
    PROVE  Results!Freeze
<1> DEFINE sds == RankEntries(Registered)
           n == Cardinality(Registered)
           r == Log2Ceil(n)
<1>1. /\ rounds = 0 /\ n \in 2..256
      /\ seeds' = sds /\ rounds' = r /\ Reconcile(matches, sds, r) /\ UNCHANGED <<format, confirming>>
  BY DEF Start
<1>2. /\ format \in Formats /\ IsRows(matches) /\ DOMAIN matches = {} /\ DOMAIN confirming = {}
  BY <1>1 DEF Inv, Typed, Phases
<1>3. sds \in Seq(Entries) /\ Distinct(sds) /\ Len(sds) = n
  BY RankingIsASequence DEF Registered
<1>4. r \in 1..MaxRounds
  BY <1>1, RoundsFit
<1>5. r = Results!Log2Ceil(Len(sds))
  BY <1>3, SameBuilder
<1> HIDE DEF sds, n, r
<1>6. Fit(r, sds, format, matches, confirming)
  BY <1>2 DEF Fit, RowsFit
<1>7. Extends(r, sds, format, matches, matches') /\ OnlyScheduled(matches, matches')
  BY <1>1, <1>2, <1>3, <1>4, <1>6, ReconcileFits
<1>8. Settled(matches') = Settled(matches)
  BY <1>7, SettledThrough
<1>9. SettledRows' = SettledRows
  BY <1>8 DEF SettledRows, Settled
<1>10. sds \in SeedLists
  BY <1>3 DEF SeedLists, IsInjective, Distinct
<1> QED
  BY <1>1, <1>3, <1>5, <1>9, <1>10 DEF Results!Freeze

LEMMA InitIsEmpty == Init => Results!Init
<1> SUFFICES ASSUME Init PROVE Results!Init
  OBVIOUS
<1>1. format \in Formats /\ seeds = <<>> /\ rounds = 0 /\ matches = <<>>
  BY DEF Init
<1>2. SettledRows = <<>>
  BY <1>1 DEF SettledRows
<1>3. Results!Formats = Formats
  BY DEF Results!Formats, Formats
<1> QED
  BY <1>1, <1>2, <1>3 DEF Results!Init

LEMMA EveryStepIsAResultsStep ==
    ASSUME Inv, DecidingFits, Intact', [Next]_vars
    PROVE  Results!Next \/ UNCHANGED Results!vars
<1>1. ASSUME UNCHANGED <<format, rounds, seeds, matches>>
      PROVE  UNCHANGED Results!vars
  BY <1>1 DEF Results!vars, SettledRows
<1>2. CASE UNCHANGED vars \/ CloseRegistration \/ StartTooFew \/ BeginCancel \/ AbortCancel
  BY <1>1, <1>2 DEF vars, CloseRegistration, StartTooFew, BeginCancel, AbortCancel, registration
<1>3. CASE Start
  BY <1>3, StartFreezes DEF Results!Next
<1>4. CASE ScanReconcile
  BY <1>4, ScanSettlesNothing, StayIsAStutter
<1>5. ASSUME NEW k \in DOMAIN matches, StartMatch(k) \/ ReplayMatch(k)
      PROVE  UNCHANGED Results!vars
  BY <1>5, StartMatchSettlesNothing, ReplayMatchSettlesNothing, StayIsAStutter
<1>6. ASSUME NEW k \in DOMAIN deciding, CommitDecision(k)
      PROVE  Results!Next \/ UNCHANGED Results!vars
  BY <1>6, CommittedDecisionSettles, StayIsAStutter DEF Results!Next
<1>7. ASSUME NEW k \in DOMAIN matches, NEW w \in {matches[k].a, matches[k].b}, ConfirmManagedResult(k, w)
      PROVE  UNCHANGED Results!vars
  BY <1>1, <1>7 DEF ConfirmManagedResult, registration
<1>8. ASSUME NEW k \in DOMAIN matches, NEW e \in Entries, NEW x \in Entries, ReplaceSide(k, e, x)
      PROVE  Results!Next
  BY <1>8, ReplacementHandsOver DEF Results!Next
<1>9. ASSUME NEW k \in DOMAIN confirming, CommitManagedResult(k)
      PROVE  Results!Next
  BY <1>9, CommittedResultSettles DEF Results!Next
<1>10. ASSUME NEW k \in DOMAIN confirming, AbortManagedResult(k)
       PROVE  UNCHANGED Results!vars
  BY <1>1, <1>10 DEF AbortManagedResult, registration
<1>11. CASE CommitCancel
  BY <1>11, CancelSettlesNothing, StayIsAStutter
<1>12. ASSUME NEW k \in DOMAIN matches, NEW w \in {matches[k].a, matches[k].b, NoEntry}, BeginDecision(k, w)
       PROVE  UNCHANGED Results!vars
  BY <1>1, <1>12 DEF BeginDecision, registration
<1>13. ASSUME NEW k \in DOMAIN deciding, AbortDecision(k)
       PROVE  UNCHANGED Results!vars
  BY <1>1, <1>13 DEF AbortDecision, registration
<1> QED
  BY <1>2, <1>3, <1>4, <1>5, <1>6, <1>7, <1>8, <1>9, <1>10, <1>11, <1>12, <1>13, Zenon DEF Next

\* The detailed life of a tournament implements BracketResults until a settled
\* match is rewritten: it is its frozen seeds and a growing set of results of
\* the bracket they determine, and a seed changes hands only before its team's
\* first result.
THEOREM TournamentsAreTheirResults == Spec => ImplementsBracketResults
<1> DEFINE Grows1 == Intact' => Results!Next
<1>1. Init => Results!Init
  BY InitIsEmpty
<1>2. Sound /\ [Next]_vars => [Grows1]_(Results!vars)
  <2> SUFFICES ASSUME Sound, [Next]_vars, Intact'
               PROVE  Results!Next \/ UNCHANGED Results!vars
    OBVIOUS
  <2>1. Inv /\ DecidingFits
    BY StaysIntact DEF Sound
  <2> QED
    BY <2>1, EveryStepIsAResultsStep
<1>3. ImplementsBracketResults <=> Results!Init /\ [][Grows1]_(Results!vars)
  BY DEF ImplementsBracketResults
<1> HIDE DEF Grows1
<1> QED
  BY <1>1, <1>2, <1>3, Invariance, PTL DEF Spec

-----------------------------------------------------------------------------
(* Progress *)

\* There are two teams or more, and they take more than half of the slots.
SeedsFill == rounds > 0 => Len(seeds) \in Nat /\ 2^(rounds - 1) < Len(seeds) /\ Len(seeds) <= 2^rounds

LEMMA EveryStepKeepsSeedsFill ==
    ASSUME Inv, DecidingFits, SeedsFill, Intact', [Next]_vars
    PROVE  SeedsFill'
<1>1. Results!Next \/ UNCHANGED Results!vars
  BY EveryStepIsAResultsStep
<1>2. CASE Results!Freeze
  <2> DEFINE n == Len(seeds')
  <2>1. n \in 2..256 /\ rounds' = Log2Ceil(n)
    BY <1>2, SameBuilder DEF Results!Freeze
  <2> HIDE DEF n
  <2>2. n \in Nat /\ 2^(Log2Ceil(n) - 1) < n /\ n <= 2^Log2Ceil(n)
    <3>1. Log2Ceil(n) \in 1..MaxRounds /\ 2^Log2Ceil(n) >= n /\ 2^(Log2Ceil(n) - 1) < n
      BY <2>1, RoundsFit
    <3>2. Log2Ceil(n) \in 0..MaxRounds
      BY <3>1 DEF MaxRounds
    <3>3. 2^Log2Ceil(n) \in Nat \ {0}
      BY <3>2, Powers
    <3> DEFINE p == 2^Log2Ceil(n)
    <3>4. p \in Nat /\ p >= n
      BY <3>1, <3>3
    <3> HIDE DEF p
    <3>5. n \in Nat /\ n <= p
      BY <2>1, <3>4
    <3> QED
      BY <3>1, <3>5 DEF p
  <2> QED
    BY <2>1, <2>2 DEF SeedsFill, n
<1>3. CASE Results!Settle \/ UNCHANGED Results!vars
  BY <1>3 DEF Results!Settle, Results!vars, SeedsFill
<1>4. CASE Results!HandOver
  <2>1. rounds' = rounds /\ \E i \in DOMAIN seeds, x \in Entries : seeds' = [seeds EXCEPT ![i] = x]
    BY <1>4 DEF Results!HandOver
  <2>2. seeds \in Seq(Entries)
    BY InvSays
  <2>3. Len(seeds') = Len(seeds)
    BY <2>1, <2>2
  <2> QED
    BY <2>1, <2>3 DEF SeedsFill
<1> QED
  BY <1>1, <1>2, <1>3, <1>4 DEF Results!Next

LEMMA FilledBrackets == Spec => [](Intact => Inv /\ SeedsFill)
<1> DEFINE Filled == Intact => SeedsFill
<1>1. Init => Filled
  BY DEF Init, SeedsFill
<1>2. Sound /\ Filled /\ [Next]_vars => Filled'
  <2> SUFFICES ASSUME Sound, Filled, [Next]_vars, Intact'
               PROVE  SeedsFill'
    OBVIOUS
  <2>1. Inv /\ DecidingFits /\ SeedsFill
    BY StaysIntact DEF Sound
  <2> QED
    BY <2>1, EveryStepKeepsSeedsFill
<1>3. Sound /\ Filled => (Intact => Inv /\ SeedsFill)
  BY DEF Sound
<1> HIDE DEF Filled
<1> QED
  BY <1>1, <1>2, <1>3, Invariance, PTL DEF Spec

\* The nodes that the results alone determine have the sides of the rows.
LEMMA SettledNodes ==
    ASSUME Inv, rounds > 0
    PROVE  \A k \in DOMAIN matches :
             LET node == Nodes(rounds, seeds, Settled(matches), format)[k]
             IN  k \in Keys(rounds, format) /\ node.entryA = matches[k].a /\ node.entryB = matches[k].b
<1> SUFFICES ASSUME NEW k \in DOMAIN matches
             PROVE  LET node == Nodes(rounds, seeds, Settled(matches), format)[k]
                    IN  k \in Keys(rounds, format) /\ node.entryA = matches[k].a /\ node.entryB = matches[k].b
  OBVIOUS
<1> DEFINE done == Settled(matches)
           n == Nodes(rounds, seeds, matches, format)
           n2 == Nodes(rounds, seeds, done, format)
           e == matches[k].a
<1>1. /\ format \in Formats /\ IsRows(matches) /\ rounds \in 1..MaxRounds
      /\ Fit(rounds, seeds, format, matches, confirming)
  BY InvSays
<1>2. e \in Entries
  BY <1>1, RowsAreKnown
<1>3. /\ DOMAIN done \subseteq DOMAIN matches
      /\ \A j \in DOMAIN matches : matches[j].status = "COMPLETED" <=> j \in DOMAIN done
      /\ \A j \in DOMAIN done : done[j] = matches[j]
  BY DEF Settled
<1> HIDE DEF done, e
<1>4. \A key \in Keys(rounds, format) : Renamed(e, e, n[key], n2[key])
  <2>1. \A i \in 1..2^rounds : Slots(rounds, seeds)[i] = Named(e, e, Slots(rounds, seeds)[i])
    BY DEF Named
  <2>2. \A j \in DOMAIN matches :
           /\ matches[j].status = "COMPLETED" <=> j \in DOMAIN done /\ done[j].status = "COMPLETED"
           /\ matches[j].status = "COMPLETED" => /\ done[j].winner = matches[j].winner
                                                 /\ e = e \/ e \notin {matches[j].a, matches[j].b}
    BY <1>3
  <2>3. RowsFit(rounds, seeds, format, matches)
    BY <1>1 DEF Fit
  <2> QED
    BY <1>1, <1>2, <1>3, <2>1, <2>2, <2>3, RowsRenamed
<1>5. k \in Keys(rounds, format) /\ matches[k].a = n[k].entryA /\ matches[k].b = n[k].entryB
  BY <1>1 DEF Fit, RowsFit
<1>6. n2[k].entryA = matches[k].a /\ n2[k].entryB = matches[k].b
  BY <1>4, <1>5 DEF Renamed, Named, Side, Sides
<1> QED
  BY <1>5, <1>6 DEF done

\* Every result decides its node.
LEMMA SettledDecide ==
    ASSUME Inv, rounds > 0
    PROVE  AllDecided(rounds, format, Settled(matches), Nodes(rounds, seeds, Settled(matches), format))
<1> DEFINE done == Settled(matches)
           n2 == Nodes(rounds, seeds, done, format)
<1> SUFFICES ASSUME NEW k \in Keys(rounds, format), k \in DOMAIN done
             PROVE  NoEntry \notin {n2[k].entryA, n2[k].entryB} /\ Valid(done, k, n2[k])
  BY DEF AllDecided
<1>1. k \in DOMAIN matches /\ matches[k].status = "COMPLETED" /\ done[k] = matches[k]
  BY DEF Settled
<1>2. n2[k].entryA = matches[k].a /\ n2[k].entryB = matches[k].b
  BY <1>1, SettledNodes
<1>3. matches[k].a # NoEntry /\ matches[k].b # NoEntry
  BY <1>1, InvSays, RowsAreKnown
<1>4. matches[k].winner \in {matches[k].a, matches[k].b}
  BY <1>1, InvSays DEF WinnersPlayed
<1> HIDE DEF done, n2
<1> QED
  BY <1>1, <1>2, <1>3, <1>4 DEF Valid

LEMMA InvNeverStuck ==
    ASSUME Inv, SeedsFill
    PROVE  NeverStuck
<1> DEFINE n2 == Nodes(rounds, seeds, Settled(matches), format)
<1>1. Results!Derived.nodes = n2 /\ Results!Derived.complete = Complete(rounds, n2, format)
  BY DerivedIs, BracketIs
<1>2. ASSUME rounds > 0
      PROVE  /\ DOMAIN n2 = Keys(rounds, format)
             /\ Complete(rounds, n2, format) <=>
                  \A key \in Keys(rounds, format) : n2[key].hasMatch \/ NoEntry \in {n2[key].entryA, n2[key].entryB}
  <2>1. rounds \in 1..MaxRounds /\ format \in Formats /\ seeds \in Seq(Entries)
    BY <1>2, InvSays
  <2>2. IsBracket(rounds, format, Slots(rounds, seeds), Settled(matches), n2) /\ DOMAIN n2 = Keys(rounds, format)
    BY <2>1, NodesAreABracket
  <2>3. AllDecided(rounds, format, Settled(matches), n2)
    BY <1>2, SettledDecide
  <2>4. 2^(rounds - 1) < Len(seeds) /\ NoEntry \notin Entries
    BY <1>2, EntriesAssumption DEF SeedsFill
  <2> HIDE DEF n2
  <2>5. Complete(rounds, n2, format) <=>
          \A key \in Keys(rounds, format) : n2[key].hasMatch \/ NoEntry \in {n2[key].entryA, n2[key].entryB}
    BY <2>1, <2>2, <2>3, <2>4, NeverStuckBracket
  <2> QED
    BY <2>2, <2>5
<1> HIDE DEF n2
<1>3. \A key : Results!Playable(n2, key) <=>
                 ~(n2[key].hasMatch \/ NoEntry \in {n2[key].entryA, n2[key].entryB})
  BY DEF Results!Playable
<1>4. rounds > 0 => (Complete(rounds, n2, format) <=> \A key \in DOMAIN n2 : ~Results!Playable(n2, key))
  BY <1>2, <1>3
<1> QED
  BY <1>1, <1>4 DEF NeverStuck, Results!NeverStuck

\* Until its bracket is complete some series of a tournament can be settled,
\* and none afterwards: no bye and no missing loser leaves it stuck.
THEOREM TournamentsAreNeverStuck == Spec => []NeverStuck
<1>1. (Intact => Inv /\ SeedsFill) => NeverStuck
  BY InvNeverStuck DEF NeverStuck
<1> QED
  BY <1>1, FilledBrackets, PTL

-----------------------------------------------------------------------------
(* A completed tournament *)

\* Whatever was replaced and replayed, the bracket of a completed tournament
\* has been played to its end.
LEMMA CompletedIsPlayed ==
    ASSUME Inv, SeedsFill, status = "COMPLETED"
    PROVE  /\ rounds \in 1..MaxRounds /\ format \in Formats
           /\ Teams(seeds) \subseteq {e \in Entries : entryStatus[e] = "REGISTERED"}
           /\ Complete(rounds, Nodes(rounds, seeds, matches, format), format)
           /\ Played(rounds, format, seeds, matches, Nodes(rounds, seeds, matches, format))
<1> DEFINE n == Nodes(rounds, seeds, matches, format)
<1>1. rounds > 0 /\ Complete(rounds, n, format)
  BY DEF Inv, Phases, Finished
<1>2. /\ rounds \in 1..MaxRounds /\ format \in Formats /\ seeds \in Seq(Entries) /\ Distinct(seeds)
      /\ IsRows(matches) /\ RowsFit(rounds, seeds, format, matches)
  BY <1>1, InvSays DEF Fit
<1>3. IsBracket(rounds, format, Slots(rounds, seeds), matches, n) /\ DOMAIN n = Keys(rounds, format)
  BY <1>2, NodesAreABracket
<1>4. \A k \in DOMAIN matches : /\ k \in Keys(rounds, format)
                                /\ n[k].entryA # NoEntry /\ n[k].entryB # NoEntry
  BY <1>2, RowsAreKnown DEF RowsFit
<1>5. Teams(seeds) \subseteq {e \in Entries : entryStatus[e] = "REGISTERED"}
  <2>1. ASSUME NEW i \in 1..Len(seeds)
        PROVE  seeds[i] \in Entries
    BY <1>2
  <2>2. \A e \in Entries : entryStatus[e] = "REGISTERED" <=> \E i \in 1..Len(seeds) : seeds[i] = e
    BY <1>1 DEF Inv, SeedsAreRegistered
  <2> QED
    BY <2>1, <2>2 DEF Teams
<1>6. seeds \in Seq(Teams(seeds)) /\ NoEntry \notin Teams(seeds)
  <2>1. seeds \in Seq(Teams(seeds))
    BY <1>2 DEF Teams
  <2> QED
    BY <1>5, <2>1, EntriesAssumption
<1>7. Len(seeds) \in Nat /\ 2^(rounds - 1) < Len(seeds) /\ Len(seeds) <= 2^rounds
  BY <1>1 DEF SeedsFill
<1> HIDE DEF n
<1>8. DOMAIN matches \subseteq Keys(rounds, format) /\ SidesKnown(rounds, format, matches, n)
  BY <1>4 DEF SidesKnown
<1>9. /\ n[FinalKey(rounds, format)].resolved
      /\ BronzeKey(rounds) \in Keys(rounds, format) => n[BronzeKey(rounds)].resolved
  BY <1>1, <1>3 DEF Complete, FinalKey
<1>10. \A key \in Keys(rounds, format) : n[key].resolved
  BY <1>2, <1>3, <1>8, <1>9, CompleteResolves
<1>11. Played(rounds, format, seeds, matches, n)
  BY <1>2, <1>3, <1>6, <1>7, <1>8, <1>10 DEF Played
<1> QED
  BY <1>1, <1>2, <1>5, <1>11 DEF n

LEMMA InvCompleted ==
    ASSUME Inv, SeedsFill
    PROVE  CompletedIsDecided
<1> SUFFICES ASSUME status = "COMPLETED"
             PROVE  LET n == Len(seeds)
                        bracket == Current
                        podium == bracket.podium
                        places == {i \in 1..3 : podium[i] # NoEntry}
                    IN  /\ bracket.complete
                        /\ \A k \in DOMAIN matches : matches[k].status = "COMPLETED"
                        /\ Cardinality(DOMAIN matches) =
                              IF format = "DOUBLE_ELIMINATION" THEN 2 * n - 2 ELSE IF n >= 4 THEN n ELSE n - 1
                        /\ places = 1..(IF n >= 3 THEN 3 ELSE 2)
                        /\ \A i, j \in places : podium[i] = podium[j] => i = j
                        /\ \A i \in places : entryStatus[podium[i]] = "REGISTERED"
  BY DEF CompletedIsDecided
<1> DEFINE n == Nodes(rounds, seeds, matches, format)
           podium == Podium(rounds, n, format)
           places == {i \in 1..3 : podium[i] # NoEntry}
           m == Len(seeds)
<1>1. /\ rounds \in 1..MaxRounds /\ format \in Formats
      /\ Teams(seeds) \subseteq {e \in Entries : entryStatus[e] = "REGISTERED"}
      /\ Complete(rounds, n, format) /\ Played(rounds, format, seeds, matches, n)
  BY CompletedIsPlayed
<1>2. Current.complete = Complete(rounds, n, format) /\ Current.podium = podium
  BY BracketIs DEF Current
<1> HIDE DEF n
<1>3. ASSUME NEW k \in DOMAIN matches
      PROVE  matches[k].status = "COMPLETED"
  <2>1. k \in Keys(rounds, format)
    BY <1>1 DEF Played
  <2>2. Valid(matches, k, n[k])
    BY <1>1, <2>1, PlayedNode
  <2> QED
    BY <2>2 DEF Valid
<1>4. Cardinality(DOMAIN matches) =
        IF format = "DOUBLE_ELIMINATION" THEN 2 * Len(seeds) - 2
        ELSE IF Len(seeds) >= 4 THEN Len(seeds) ELSE Len(seeds) - 1
  BY <1>1, SeriesPlayed
<1>5. /\ podium[1] \in Teams(seeds) /\ podium[2] \in Teams(seeds) /\ podium[1] # podium[2]
      /\ rounds = 1 => podium[3] = NoEntry
      /\ rounds # 1 => podium[3] \in Teams(seeds) /\ podium[3] # podium[1] /\ podium[3] # podium[2]
  BY <1>1, PodiumPlaces
<1>6. NoEntry \notin Teams(seeds)
  BY <1>1 DEF Played
<1>7. m \in Nat /\ (rounds = 1 => m = 2) /\ (rounds # 1 => m >= 3)
  <2>1. m \in Nat /\ 2^(rounds - 1) < m /\ m <= 2^rounds
    BY <1>1 DEF Played
  <2> HIDE DEF m
  <2>2. /\ rounds = 1 => m = 2
        /\ rounds = 2 => m = 3 \/ m = 4
        /\ rounds > 2 => m > 4
    BY <1>1, <2>1, FewTeams
  <2>3. rounds = 1 \/ rounds = 2 \/ rounds > 2
    BY <1>1
  <2> QED
    BY <2>1, <2>2, <2>3
<1> HIDE DEF podium, m
<1>8. places = 1..(IF m >= 3 THEN 3 ELSE 2)
  <2>1. 1..3 = {1, 2, 3} /\ 1..2 = {1, 2}
    OBVIOUS
  <2>2. CASE rounds = 1
    <3>1. places = {1, 2}
      BY <1>5, <1>6, <2>1, <2>2
    <3>2. ~(m >= 3)
      BY <1>7, <2>2
    <3> QED
      BY <2>1, <3>1, <3>2
  <2>3. CASE rounds # 1
    <3>1. places = {1, 2, 3}
      BY <1>5, <1>6, <2>1, <2>3
    <3>2. m >= 3
      BY <1>7, <2>3
    <3> QED
      BY <2>1, <3>1, <3>2
  <2> QED
    BY <2>2, <2>3
<1>9. \A i \in places : i = 1 \/ i = 2 \/ (i = 3 /\ rounds # 1)
  BY <1>5
<1>10. \A i, j \in places : podium[i] = podium[j] => i = j
  BY <1>5, <1>9
<1>11. \A i \in places : entryStatus[podium[i]] = "REGISTERED"
  BY <1>1, <1>5, <1>9
<1> QED
  BY <1>1, <1>2, <1>3, <1>4, <1>8, <1>10, <1>11 DEF m

\* A completed tournament has played n - 1 series and the third-place match, or
\* 2n - 2, none of them is open, and its podium names two or, of three teams or
\* more, three different registered teams: for any number of entries, whatever
\* confirmations, replacements, replays and scans have interleaved.
THEOREM CompletedTournamentsAreDecided == Spec => []CompletedIsDecided
<1>1. (Intact => Inv /\ SeedsFill) => CompletedIsDecided
  BY InvCompleted DEF CompletedIsDecided
<1> QED
  BY <1>1, FilledBrackets, PTL

-----------------------------------------------------------------------------
(* Seeding *)

\* The bracket that the results alone determine.
LEMMA SettledBracket ==
    ASSUME Inv, rounds > 0
    PROVE  LET done == Settled(matches)
               n == Nodes(rounds, seeds, done, format)
           IN  /\ rounds \in 1..MaxRounds /\ format \in Formats /\ seeds \in Seq(Entries) /\ Distinct(seeds)
               /\ DistinctSlots(rounds, Slots(rounds, seeds))
               /\ IsBracket(rounds, format, Slots(rounds, seeds), done, n) /\ DOMAIN n = Keys(rounds, format)
               /\ AllDecided(rounds, format, done, n)
               /\ \A k \in DOMAIN done : /\ k \in Keys(rounds, format) /\ done[k].a # NoEntry /\ done[k].b # NoEntry
                                         /\ Side(n[k], 1) = done[k].a /\ Side(n[k], 2) = done[k].b
<1> DEFINE done == Settled(matches)
           n == Nodes(rounds, seeds, done, format)
<1>1. rounds \in 1..MaxRounds /\ format \in Formats /\ seeds \in Seq(Entries) /\ Distinct(seeds)
  BY InvSays DEF Fit
<1>2. IsBracket(rounds, format, Slots(rounds, seeds), done, n) /\ DOMAIN n = Keys(rounds, format)
  BY <1>1, NodesAreABracket
<1>3. AllDecided(rounds, format, done, n)
  BY SettledDecide
<1>4. DistinctSlots(rounds, Slots(rounds, seeds))
  BY <1>1, SlotsAreDistinct, EntriesAssumption DEF DistinctSlots
<1>5. ASSUME NEW k \in DOMAIN done
      PROVE  /\ k \in Keys(rounds, format) /\ done[k].a # NoEntry /\ done[k].b # NoEntry
             /\ Side(n[k], 1) = done[k].a /\ Side(n[k], 2) = done[k].b
  <2>1. k \in DOMAIN matches /\ done[k] = matches[k]
    BY DEF Settled
  <2>2. k \in Keys(rounds, format) /\ n[k].entryA = matches[k].a /\ n[k].entryB = matches[k].b
    BY <2>1, SettledNodes
  <2>3. matches[k].a # NoEntry /\ matches[k].b # NoEntry
    BY <2>1, InvSays, RowsAreKnown
  <2> HIDE DEF done, n
  <2> QED
    BY <2>1, <2>2, <2>3 DEF Side
<1> QED
  BY <1>1, <1>2, <1>3, <1>4, <1>5

LEMMA SeedOfIs ==
    ASSUME Distinct(seeds), seeds \in Seq(Entries), NEW x \in 1..Len(seeds)
    PROVE  Results!SeedOf(seeds[x]) = x
<1>1. DOMAIN seeds = 1..Len(seeds)
  OBVIOUS
<1> DEFINE i == CHOOSE i \in DOMAIN seeds : seeds[i] = seeds[x]
<1>2. i \in DOMAIN seeds /\ seeds[i] = seeds[x]
  BY <1>1
<1>3. Results!SeedOf(seeds[x]) = i
  BY DEF Results!SeedOf
<1> HIDE DEF i
<1> QED
  BY <1>1, <1>2, <1>3 DEF Distinct

\* In every series of the main bracket one side is not among the best.
LEMMA InvSeparation ==
    ASSUME Inv
    PROVE  Results!SeedSeparation
<1> SUFFICES ASSUME NEW k \in DOMAIN SettledRows, k[1] = "MAIN"
             PROVE  \E side \in {SettledRows[k].a, SettledRows[k].b} : Results!SeedOf(side) > 2^(rounds - k[2])
  BY DEF Results!SeedSeparation
<1> DEFINE done == Settled(matches)
           n == Nodes(rounds, seeds, done, format)
<1>1. SettledRows = done
  BY DEF SettledRows, Settled
<1>2. rounds > 0
  <2>1. k \in DOMAIN matches
    BY <1>1 DEF Settled
  <2>2. DOMAIN matches # {}
    BY <2>1
  <2> QED
    BY <2>2, InvSays
<1>3. /\ rounds \in 1..MaxRounds /\ format \in Formats /\ seeds \in Seq(Entries) /\ Distinct(seeds)
      /\ IsBracket(rounds, format, Slots(rounds, seeds), done, n)
      /\ \A j \in DOMAIN done : /\ j \in Keys(rounds, format) /\ done[j].b # NoEntry
                                /\ Side(n[j], 2) = done[j].b
  BY <1>2, SettledBracket
<1> HIDE DEF done, n
<1>4. k \in Keys(rounds, format) /\ done[k].b # NoEntry /\ Side(n[k], 2) = done[k].b
  BY <1>1, <1>3
<1> DEFINE r == k[2]
<1>5. r \in 1..rounds /\ k \in MainRound(rounds, r)
  BY <1>3, <1>4, MainKeys
<1>6. Len(seeds) \in Nat /\ Side(n[k], 2) # NoEntry
  BY <1>3, <1>4
<1> HIDE DEF r
<1>7. /\ \E x \in 1..Len(seeds) : seeds[x] = Side(n[k], 2)
      /\ \A x \in 1..Len(seeds) : seeds[x] = Side(n[k], 2) => x > 2^(rounds - r)
  BY <1>3, <1>5, <1>6, SecondSides
<1>8. PICK x \in 1..Len(seeds) : seeds[x] = Side(n[k], 2) /\ x > 2^(rounds - r)
  BY <1>7
<1>9. Results!SeedOf(done[k].b) > 2^(rounds - r)
  BY <1>3, <1>4, <1>8, SeedOfIs
<1> QED
  BY <1>1, <1>9 DEF r

\* Nobody meets in the second lower round whom it has just met in the main bracket.
LEMMA InvNoRematch ==
    ASSUME Inv
    PROVE  Results!NoImmediateRematch
<1> SUFFICES ASSUME rounds > 2, NEW k \in DOMAIN SettledRows, k[1] = "LOWER", k[2] = 2,
                    NEW m \in DOMAIN SettledRows, m[1] = "MAIN",
                    {SettledRows[m].a, SettledRows[m].b} = {SettledRows[k].a, SettledRows[k].b}
             PROVE  FALSE
  BY DEF Results!NoImmediateRematch
<1> DEFINE done == Settled(matches)
           n == Nodes(rounds, seeds, done, format)
           slots == Slots(rounds, seeds)
<1>1. SettledRows = done
  BY DEF SettledRows, Settled
<1>2. rounds > 0
  <2>1. k \in DOMAIN matches
    BY <1>1 DEF Settled
  <2>2. DOMAIN matches # {}
    BY <2>1
  <2> QED
    BY <2>2, InvSays
<1>3. /\ rounds \in 1..MaxRounds /\ format \in Formats
      /\ DistinctSlots(rounds, slots) /\ IsBracket(rounds, format, slots, done, n)
      /\ \A j \in DOMAIN done : /\ j \in Keys(rounds, format) /\ done[j].a # NoEntry /\ done[j].b # NoEntry
                                /\ Side(n[j], 1) = done[j].a /\ Side(n[j], 2) = done[j].b
  BY <1>2, SettledBracket
<1> HIDE DEF done, n, slots
<1>4. /\ k \in Keys(rounds, format) /\ m \in Keys(rounds, format)
      /\ Side(n[k], 1) # NoEntry /\ Side(n[k], 2) # NoEntry
  BY <1>1, <1>3
<1>5. {Side(n[m], 1), Side(n[m], 2)} = {Side(n[k], 1), Side(n[k], 2)}
  BY <1>1, <1>3
<1>6. format = "DOUBLE_ELIMINATION" /\ k \in LowerRound(rounds, 2)
  <2>1. \/ \E r \in 1..rounds : k \in MainRound(rounds, r)
        \/ format = "DOUBLE_ELIMINATION" /\ \E q \in 1..2*(rounds - 1) : k \in LowerRound(rounds, q)
        \/ format = "DOUBLE_ELIMINATION" /\ k = GrandFinalKey
        \/ k = BronzeKey(rounds)
    BY <1>3, <1>4, KeysByKind
  <2>2. format = "DOUBLE_ELIMINATION" /\ \E q \in 1..2*(rounds - 1) : k \in LowerRound(rounds, q)
    BY <2>1 DEF MainRound, GrandFinalKey, BronzeKey
  <2>3. PICK q \in 1..2*(rounds - 1) : k \in LowerRound(rounds, q)
    BY <2>2
  <2>4. k[2] = q
    BY <2>3 DEF LowerRound
  <2> QED
    BY <2>2, <2>3, <2>4
<1>7. 1 \in Sides /\ 2 \in Sides
  BY DEF Sides
<1>8. PICK sx \in Sides : Side(n[m], sx) = Side(n[k], 1)
  BY <1>5, <1>7
<1>9. PICK sy \in Sides : Side(n[m], sy) = Side(n[k], 2)
  BY <1>5, <1>7
<1> QED
  BY <1>3, <1>4, <1>6, <1>8, <1>9, NoRematch

\* When the better seed has won every series of a complete bracket the best are on the podium.
LEMMA InvFavourites ==
    ASSUME Inv, SeedsFill
    PROVE  Results!FavouritesWinPodium
<1> DEFINE done == Settled(matches)
           n == Nodes(rounds, seeds, done, format)
           podium == Podium(rounds, n, format)
<1>1. Results!Derived.complete = Complete(rounds, n, format) /\ Results!Derived.podium = podium
  BY DerivedIs, BracketIs
<1>2. SettledRows = done
  BY DEF SettledRows, Settled
<1> SUFFICES ASSUME rounds > 0, Complete(rounds, n, format),
                    \A k \in DOMAIN done : \A s \in {done[k].a, done[k].b} :
                      Results!SeedOf(done[k].winner) <= Results!SeedOf(s)
             PROVE  podium = <<seeds[1], seeds[2], IF Len(seeds) > 2 THEN seeds[3] ELSE NoEntry>>
  <2> HIDE DEF n, podium, done
  <2> QED
    BY <1>1, <1>2 DEF Results!FavouritesWinPodium
<1>3. /\ rounds \in 1..MaxRounds /\ format \in Formats /\ seeds \in Seq(Entries) /\ Distinct(seeds)
      /\ IsBracket(rounds, format, Slots(rounds, seeds), done, n) /\ DOMAIN n = Keys(rounds, format)
      /\ AllDecided(rounds, format, done, n)
      /\ \A k \in DOMAIN done : /\ k \in Keys(rounds, format)
                                /\ Side(n[k], 1) = done[k].a /\ Side(n[k], 2) = done[k].b
  BY SettledBracket
<1> HIDE DEF n, done
<1>4. SidesKnown(rounds, format, done, n) /\ DOMAIN done \subseteq Keys(rounds, format)
  BY <1>3 DEF SidesKnown, AllDecided
<1>5. /\ n[FinalKey(rounds, format)].resolved
      /\ BronzeKey(rounds) \in Keys(rounds, format) => n[BronzeKey(rounds)].resolved
  BY <1>3 DEF Complete, FinalKey
<1>6. \A key \in Keys(rounds, format) : n[key].resolved
  BY <1>3, <1>4, <1>5, CompleteResolves
<1>7. seeds \in Seq(Teams(seeds)) /\ NoEntry \notin Teams(seeds)
  BY <1>3, EntriesAssumption DEF Teams
<1>8. Played(rounds, format, seeds, done, n)
  BY <1>3, <1>4, <1>6, <1>7 DEF Played, SeedsFill
<1>9. Favoured(rounds, format, seeds, n)
  <2> SUFFICES ASSUME NEW k \in Keys(rounds, format), NEW i \in 1..Len(seeds), NEW j \in 1..Len(seeds),
                      n[k].winner = seeds[i], n[k].loser = seeds[j]
               PROVE  i < j
    BY DEF Favoured
  <2>1. n[k].loser # NoEntry
    BY <1>7 DEF Teams
  <2>2. k \in DOMAIN done /\ n[k].winner # n[k].loser
    BY <1>3, <1>8, <2>1, PlayedNode
  <2>3. Valid(done, k, n[k]) /\ NodeSays(done, k, n[k])
    BY <1>3, <2>2, NodeSides DEF AllDecided
  <2>4. done[k].winner = seeds[i]
    BY <2>3 DEF NodeSays
  <2>5. PICK s \in Sides : Side(n[k], s) = seeds[j]
    BY <2>1, <2>3, ResultsAreSides
  <2>6. seeds[j] \in {done[k].a, done[k].b}
    BY <1>3, <2>2, <2>5 DEF Sides
  <2>7. Results!SeedOf(seeds[i]) <= Results!SeedOf(seeds[j])
    BY <2>2, <2>4, <2>6
  <2>8. Results!SeedOf(seeds[i]) = i /\ Results!SeedOf(seeds[j]) = j
    BY <1>3, SeedOfIs
  <2>9. i # j
    BY <2>2
  <2> QED
    BY <1>3, <2>7, <2>8, <2>9
<1> QED
  BY <1>3, <1>8, <1>9, FavouritesPodium

\* For any number of teams and whatever the results: the best 2^j seeds do not
\* meet in the main bracket while more teams are in it, favourites who always
\* win end on the podium in order, and nobody is sent straight back against
\* the team it has just met.
THEOREM SeedingAlwaysWorks == Spec => []SeedingWorks
<1>1. (Intact => Inv /\ SeedsFill) => SeedingWorks
  BY InvSeparation, InvNoRematch, InvFavourites DEF SeedingWorks, Results!SeedingWorks
<1> QED
  BY <1>1, FilledBrackets, PTL

=============================================================================
