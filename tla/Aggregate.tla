------------------------------ MODULE Aggregate ------------------------------
(***************************************************************************)
(* The time-window aggregate of the traffic (sb-stats/agg.rs): rows by     *)
(* client and domain, fed by housekeeping from the records, pruned by age  *)
(* and number, and shown as a JSON text that is made under the lock and    *)
(* stored after it.  Housekeeping, a request for the text and a request    *)
(* to clear run side by side.                                              *)
(***************************************************************************)
EXTENDS Naturals, FiniteSets, FiniteSetsExt

CONSTANTS Recs,      \* connections
          KeyOf,     \* AggKey::of, for each of them
          NoRow,     \* no row
          MaxRows,   \* max_rec
          Window,    \* the rows' window, in ticks
          MaxTraffic, MaxClears

VARIABLES moved,     \* a record's counter
          folded,    \* last_folded
          counted,   \* agg_counted
          open,      \* records in the table
          rows,      \* AggTable::rows: [up, conns, age] or NoRow
          json,      \* AggTable::json
          wanted,    \* traffic_last_access is within the demand window
          keeper,     \* flush_once: its step, records to visit, the text it made
          view,      \* snapshot_json: its step and the text it made
          wipe,      \* clear: its step, and how many there were
          lost       \* what left with rows: [up, conns]

aggVars == <<moved, folded, counted, open, rows, json, wanted, keeper, view, wipe, lost>>

ASSUME AggConstants == /\ IsFiniteSet(Recs) /\ MaxTraffic \in Nat
                       /\ NoRow \notin [up : Nat, conns : Nat, age : Nat]

Keys == {KeyOf[r] : r \in Recs}
NoRows == [k \in Keys |-> NoRow]
Rows(t) == {k \in Keys : t[k] # NoRow}
\* An amount is added up as a set with a pair for each unit of each value.
Amount(f) == Cardinality(UNION {{z} \X (1..f[z]) : z \in DOMAIN f})
UpOf(t) == [k \in Keys |-> IF t[k] = NoRow THEN 0 ELSE t[k].up]
ConnsOf(t) == [k \in Keys |-> IF t[k] = NoRow THEN 0 ELSE t[k].conns]
Up(t) == Amount(UpOf(t))

AggInit == /\ moved = [r \in Recs |-> 0] /\ folded = moved /\ counted = [r \in Recs |-> FALSE]
           /\ open = Recs /\ rows = NoRows /\ json = NoRows /\ wanted = FALSE
           /\ keeper = [at |-> "rest", left |-> {}, text |-> NoRows]
           /\ view = [at |-> "idle", text |-> NoRows]
           /\ wipe = [at |-> "idle", n |-> 0] /\ lost = [up |-> 0, conns |-> 0]

recVars == <<moved, folded, counted, open>>
Traffic == Amount(moved)

RelaysBytes(r) == /\ r \in open /\ Traffic < MaxTraffic /\ moved' = [moved EXCEPT ![r] = @ + 1]
                  /\ UNCHANGED <<folded, counted, open, rows, json, wanted, keeper, view, wipe, lost>>

\* Time passes: the rows grow older.
Later == /\ \E k \in Rows(rows) : rows[k].age < Window
         /\ rows' = [k \in Keys |-> IF k \in Rows(rows) /\ rows[k].age < Window THEN [rows[k] EXCEPT !.age = @ + 1] ELSE rows[k]]
         /\ UNCHANGED <<recVars, json, wanted, keeper, view, wipe, lost>>

-----------------------------------------------------------------------------
(* drain_local and fold *)

HouseBegins == /\ keeper.at = "rest" /\ keeper' = [keeper EXCEPT !.at = "fold", !.left = open]
               /\ UNCHANGED <<recVars, rows, json, wanted, view, wipe, lost>>

Row(k) == IF rows[k] = NoRow THEN [up |-> 0, conns |-> 0, age |-> 0] ELSE rows[k]
\* fold_delta and AggTable::fold: a connection is counted with its first bytes,
\* and not again in the row that follows one it was pruned or cleared with.
FoldsRecord(r) ==
  /\ keeper.at = "fold" /\ r \in keeper.left /\ keeper' = [keeper EXCEPT !.left = @ \ {r}]
  /\ IF moved[r] = folded[r] THEN UNCHANGED <<folded, counted, rows>>
     ELSE /\ rows' = [rows EXCEPT ![KeyOf[r]] = [up |-> Row(KeyOf[r]).up + moved[r] - folded[r], age |-> 0,
                                                 conns |-> Row(KeyOf[r]).conns + IF counted[r] THEN 0 ELSE 1]]
          /\ folded' = [folded EXCEPT ![r] = moved[r]] /\ counted' = [counted EXCEPT ![r] = TRUE]
  /\ UNCHANGED <<moved, open, json, wanted, view, wipe, lost>>

\* sweep_recency: the records of closed connections leave the table.
Sweeps == /\ keeper.at = "fold" /\ keeper.left = {}
          /\ \E S \in SUBSET open : open' = open \ S
          /\ keeper' = [keeper EXCEPT !.at = "show"]
          /\ UNCHANGED <<moved, folded, counted, rows, json, wanted, view, wipe, lost>>

-----------------------------------------------------------------------------
(* prune, rebuild, snapshot_json *)

\* prune_rows: the rows out of the window, then the oldest beyond max_rows
Survivors(t) == LET young == {k \in Rows(t) : t[k].age < Window} IN
  {S \in SUBSET young : /\ Cardinality(S) = Min({MaxRows, Cardinality(young)})
                        /\ \A k \in S, x \in young \ S : t[k].age <= t[x].age}
Prunes == \E S \in Survivors(rows) :
  /\ rows' = [k \in Keys |-> IF k \in S THEN rows[k] ELSE NoRow]
  /\ lost' = [up |-> lost.up + Up(rows) - Up(rows'), conns |-> lost.conns + Amount(ConnsOf(rows)) - Amount(ConnsOf(rows'))]

HouseShowsNever == /\ keeper.at = "show" /\ Prunes /\ keeper' = [keeper EXCEPT !.at = "rest"]
                   /\ UNCHANGED <<recVars, json, wanted, view, wipe>>
\* With somebody watching the text is made again, else the rows are pruned only.
HouseShows ==
  /\ keeper.at = "show" /\ Prunes
  /\ keeper' = IF wanted THEN [keeper EXCEPT !.at = "store", !.text = rows'] ELSE [keeper EXCEPT !.at = "rest"]
  /\ UNCHANGED <<recVars, json, wanted, view, wipe>>
HouseStores == /\ keeper.at = "store" /\ json' = keeper.text
               /\ keeper' = [keeper EXCEPT !.at = "rest", !.text = NoRows]
               /\ UNCHANGED <<recVars, rows, wanted, view, wipe, lost>>

\* WebTraffic::snapshot_json: the first request in a while makes the text itself.
ViewAsksFor == /\ view.at = "idle" /\ wanted' = TRUE
               /\ view' = [view EXCEPT !.at = IF wanted THEN "idle" ELSE "make"]
               /\ UNCHANGED <<recVars, rows, json, keeper, wipe, lost>>
ViewMakes == /\ view.at = "make" /\ Prunes /\ view' = [at |-> "store", text |-> rows']
             /\ UNCHANGED <<recVars, json, wanted, keeper, wipe>>
ViewStores == /\ view.at = "store" /\ json' = view.text /\ view' = [at |-> "idle", text |-> NoRows]
              /\ UNCHANGED <<recVars, rows, wanted, keeper, wipe, lost>>
DemandEnds == /\ wanted /\ wanted' = FALSE
              /\ UNCHANGED <<recVars, rows, json, keeper, view, wipe, lost>>

\* clear, from the web or once a month
ClearsRows == /\ wipe.at = "idle" /\ wipe.n < MaxClears /\ wipe' = [at |-> "json", n |-> wipe.n + 1]
              /\ rows' = NoRows /\ lost' = [up |-> lost.up + Up(rows), conns |-> lost.conns + Amount(ConnsOf(rows))]
              /\ UNCHANGED <<recVars, json, wanted, keeper, view>>
ClearsJson == /\ wipe.at = "json" /\ wipe' = [wipe EXCEPT !.at = "idle"] /\ json' = NoRows
              /\ UNCHANGED <<recVars, rows, wanted, keeper, view, lost>>

AggHouse == HouseBegins \/ Sweeps \/ HouseShows \/ HouseStores \/ \E r \in Recs : FoldsRecord(r)
AggView == ViewMakes \/ ViewStores

AggNext == \/ AggHouse \/ AggView \/ ViewAsksFor \/ DemandEnds \/ ClearsRows \/ ClearsJson \/ Later
           \/ \E r \in Recs : RelaysBytes(r)

AggFair == WF_aggVars(AggHouse) /\ WF_aggVars(AggView) /\ WF_aggVars(ClearsJson)

AggSpec == AggInit /\ [][AggNext]_aggVars /\ AggFair

-----------------------------------------------------------------------------
(* Properties *)

\* Whatever is pruned, cleared or folded at the same time, a byte is in one row
\* once and a connection is counted once.
AggregateExact ==
  /\ Up(rows) + lost.up = Amount(folded)
  /\ Amount(ConnsOf(rows)) + lost.conns = Cardinality({r \in Recs : counted[r]})

\* A text made before a clear, or before a newer one, may be stored after it and
\* show rows that are gone.  While somebody keeps watching that is put right:
\* once the traffic is over, the text shows the rows there are.
Amounts(t) == [k \in Keys |-> IF t[k] = NoRow THEN <<>> ELSE <<t[k].up, t[k].conns>>]
ShownInTheEnd == <>[]wanted => <>[](Amounts(json) = Amounts(rows))

=============================================================================
