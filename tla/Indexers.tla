------------------------------ MODULE Indexers ------------------------------
(* The torrent and NZB indexers and everyone who writes their rows at once: *)
(* admins, the loops that mirror Prowlarr's indexers, and the sweep of       *)
(* NewServer (store/torrent_indexers.go, store/nzb.go, torrent/search.go,    *)
(* nzb/search.go, prowlarr/sync.go, httpapi/torrents.go, httpapi/nzb.go,     *)
(* httpapi/indexer_sweep.go). The two tables are alike.                      *)
EXTENDS Naturals, FiniteSets

CONSTANTS
  Row,      \* ids of rows, numbers; an insert takes the least that is unused
  Loop,     \* runs of SyncService.Run, by number: each replaces the one before
  Admin,    \* requests that write
  Sweep,    \* sweepIndexerCapabilities
  Site,     \* where an indexer answers
  TorBox,   \* the site of the torbox provider, which is never tested
  Offers,   \* Prowlarr's enabled indexers: records [kind, name, site]
  Forms,    \* what admins send to create a row: records [kind, name, site]
  Changes,  \* what admins send to change one: records of some of Column
  MaxRequests  \* bound on the admins' requests

Column == {"name", "site", "enabled"}

ConstantsOK ==
  /\ Row \subseteq Nat \ {0} /\ Loop \subseteq Nat /\ MaxRequests \in Nat
  /\ IsFiniteSet(Loop) /\ Loop # {}
  /\ TorBox \notin Site /\ Sweep \notin Loop \cup Admin /\ Loop \cap Admin = {}
  /\ \A o \in Offers : o.kind \in {"torrent", "nzb"} /\ o.site \in Site
  /\ \A f \in Forms : f.kind \in {"torrent", "nzb"} /\ f.site \in Site \cup {TorBox}
  /\ \A c \in Changes : DOMAIN c \subseteq Column

Agent == Loop \cup Admin \cup {Sweep}

VARIABLES
  rows,       \* id -> the row, NoRow when there is none
  at,         \* agent -> where it is
  on,         \* loop, sweep -> the kind it is at
  todo,       \* loop -> the indexers it has to add; sweep -> the ids it has to test
  write,      \* agent -> the row it inserts, or updates its id to
  cancelled,  \* loops whose context is done
  renamed,    \* ids for which an admin sent a name: the row's first, or another
  requests

vars == <<rows, at, on, todo, write, cancelled, renamed, requests>>

NoRow == [kind |-> "none", name |-> "none", site |-> TorBox, enabled |-> FALSE,
          reason |-> FALSE]
Rows == {r \in Row : rows[r] # NoRow}
OfKind(kind) == {r \in Rows : rows[r].kind = kind}

\* A row as AddIndexer inserts it.
NewRow(entry) ==
  [kind |-> entry.kind, name |-> entry.name, site |-> entry.site, enabled |-> TRUE,
   reason |-> FALSE]

\* Where an agent is once its row is written.
Back(a) == CASE a \in Loop -> "add" [] a \in Admin -> "idle" [] a = Sweep -> "test"

Goto(a, where) == at' = [at EXCEPT ![a] = where]
Write(a, id, row) == write' = [write EXCEPT ![a] = [id |-> id, row |-> row]]

\* A caps document names an id search, names none, or does not arrive; the
\* context of a loop that was cancelled lets none arrive.
TestIndexer(a) == IF a \in cancelled THEN {"error"} ELSE {"able", "unable", "error"}

-----------------------------------------------------------------------------
(* The rows.                                                               *)

\* No two inserts get the same id, and none that a write still refers to.
Unused(r) == rows[r] = NoRow /\ \A a \in Agent : write[a].id # r

Insert(a, r) ==
  /\ at[a] = "insert" /\ Unused(r) /\ \A q \in Row : q < r => ~Unused(q)
  /\ \/ /\ rows' = [rows EXCEPT ![r] = write[a].row]
        /\ renamed' = IF a \in Admin THEN renamed \cup {r} ELSE renamed \ {r}
     \/ UNCHANGED <<rows, renamed>>
  /\ Write(a, 0, NoRow)
  /\ Goto(a, Back(a))
  /\ UNCHANGED <<on, todo, cancelled, requests>>

\* The second statement of an update: every column, of the row if it is there.
Update(a) ==
  /\ at[a] = "update"
  /\ rows' \in {rows, [r \in Row |-> IF r = write[a].id /\ rows[r] # NoRow
                                    THEN write[a].row ELSE rows[r]]}
  /\ Write(a, 0, NoRow)
  /\ Goto(a, Back(a))
  /\ UNCHANGED <<on, todo, cancelled, renamed, requests>>

-----------------------------------------------------------------------------
(* Admins.                                                                 *)

Request(a) ==
  /\ at[a] = "idle" /\ requests < MaxRequests
  /\ requests' = requests + 1
  /\ UNCHANGED <<on, todo, cancelled>>

AddIndexer(a, form) ==
  /\ Request(a)
  /\ form.site = TorBox \/ "able" \in TestIndexer(a)
  /\ Write(a, 0, NewRow(form))
  /\ Goto(a, "insert")
  /\ UNCHANGED <<rows, renamed>>

\* A column that was not sent keeps what was read; the site is not tested.
UpdateIndexer(a, r, change) ==
  /\ Request(a) /\ r \in Rows
  /\ Write(a, r, [c \in DOMAIN NoRow |-> IF c \in DOMAIN change THEN change[c]
                                        ELSE rows[r][c]])
  /\ renamed' = IF "name" \in DOMAIN change THEN renamed \cup {r} ELSE renamed
  /\ Goto(a, "update")
  /\ UNCHANGED rows

RemoveIndexer(a, r) ==
  /\ Request(a) /\ r \in Rows
  /\ rows' = [rows EXCEPT ![r] = NoRow]
  /\ UNCHANGED <<at, write, renamed>>

-----------------------------------------------------------------------------
(* A loop of SyncService.                                                  *)

\* reconfigure cancels the loop before it.
Run(l) ==
  /\ at[l] = "off" /\ \A m \in Loop : m < l => at[m] # "off"
  /\ Goto(l, "idle")
  /\ cancelled' = {m \in Loop : m < l}
  /\ UNCHANGED <<rows, on, todo, write, renamed, requests>>

\* Without an answer of Prowlarr there is no tick. Prowlarr keeps the names of
\* its indexers apart.
Tick(l, offered) ==
  /\ at[l] = "idle" /\ l \notin cancelled
  /\ \A o, p \in offered : o.kind = p.kind /\ o.name = p.name => o = p
  /\ todo' = [todo EXCEPT ![l] = offered]
  /\ on' = [on EXCEPT ![l] = "torrent"]
  /\ Goto(l, "list")
  /\ UNCHANGED <<rows, write, cancelled, renamed, requests>>

\* Mutant: an indexer is known by its site.
MissingBySite(l) ==
  {o \in todo[l] : o.kind = on[l] => o.site \notin {rows[r].site : r \in OfKind(on[l])}}

Missing(l) ==
  {o \in todo[l] : o.kind = on[l] => o.name \notin {rows[r].name : r \in OfKind(on[l])}}

\* The names of one kind are listed once, before the first of the kind is added;
\* without the list, or without the kind's service, none of it is.
ListNames(l) ==
  /\ at[l] = "list"
  /\ todo' \in {[todo EXCEPT ![l] = Missing(l)],
               [todo EXCEPT ![l] = {o \in @ : o.kind # on[l]}]}
  /\ Goto(l, "add")
  /\ UNCHANGED <<rows, on, write, cancelled, renamed, requests>>

\* AddIndexer up to its insert.
AddOne(l, o) ==
  /\ at[l] = "add" /\ o \in todo[l] /\ o.kind = on[l]
  /\ todo' = [todo EXCEPT ![l] = @ \ {o}]
  /\ \/ "able" \in TestIndexer(l) /\ Write(l, 0, NewRow(o)) /\ Goto(l, "insert")
     \/ UNCHANGED <<at, write>>
  /\ UNCHANGED <<rows, on, cancelled, renamed, requests>>

\* The NZB indexers come after the torrent ones, in a tick and in the sweep.
EndKind(a, list, end) ==
  /\ on' = [on EXCEPT ![a] = "nzb"]
  /\ Goto(a, IF on[a] = "torrent" THEN list ELSE end)
  /\ UNCHANGED <<rows, todo, write, cancelled, renamed, requests>>

AllAdded(l) ==
  /\ at[l] = "add" /\ \A o \in todo[l] : o.kind # on[l]
  /\ EndKind(l, "list", "idle")

-----------------------------------------------------------------------------
(* sweepIndexerCapabilities, once.                                         *)

SweepList ==
  /\ at[Sweep] = "list"
  /\ todo' = [todo EXCEPT ![Sweep] =
                {r \in OfKind(on[Sweep]) : rows[r].enabled /\ rows[r].site # TorBox}]
  /\ Goto(Sweep, "test")
  /\ UNCHANGED <<rows, on, write, cancelled, renamed, requests>>

\* An indexer that is able, or does not answer, is left as it is.
SweepTest(r) ==
  /\ at[Sweep] = "test" /\ r \in todo[Sweep]
  /\ todo' = [todo EXCEPT ![Sweep] = @ \ {r}]
  /\ \/ UNCHANGED <<at, write>>
     \/ /\ "unable" \in TestIndexer(Sweep) /\ r \in Rows
        /\ Write(Sweep, r, [rows[r] EXCEPT !.enabled = FALSE, !.reason = TRUE])
        /\ Goto(Sweep, "update")
  /\ UNCHANGED <<rows, on, cancelled, renamed, requests>>

AllTested == at[Sweep] = "test" /\ todo[Sweep] = {} /\ EndKind(Sweep, "list", "done")

-----------------------------------------------------------------------------
\* The tables at boot hold what an earlier one left.
Init ==
  /\ \/ rows = [r \in Row |-> NoRow]
     \/ \E f \in Forms \cup Offers :
          rows = [r \in Row |-> IF r = 1 THEN NewRow(f) ELSE NoRow]
  /\ at = [a \in Agent |-> CASE a \in Loop -> "off" [] a \in Admin -> "idle"
                              [] a = Sweep -> "list"]
  /\ on = [a \in Loop \cup {Sweep} |-> "torrent"]
  /\ todo = [a \in Loop \cup {Sweep} |-> {}]
  /\ write = [a \in Agent |-> [id |-> 0, row |-> NoRow]]
  /\ cancelled = {} /\ renamed = {} /\ requests = 0

Ask(a) ==
  \/ \E f \in Forms : AddIndexer(a, f)
  \/ \E r \in Row : RemoveIndexer(a, r) \/ \E c \in Changes : UpdateIndexer(a, r, c)
  \/ (\E r \in Row : Insert(a, r)) \/ Update(a)

Mirror(l) ==
  \/ Run(l) \/ \E offered \in SUBSET Offers : Tick(l, offered)
  \/ ListNames(l) \/ (\E o \in Offers : AddOne(l, o)) \/ (\E r \in Row : Insert(l, r))
  \/ AllAdded(l)

SweepStep == SweepList \/ (\E r \in Row : SweepTest(r)) \/ Update(Sweep) \/ AllTested

Next ==
  \/ \E a \in Admin : Ask(a)
  \/ \E l \in Loop : Mirror(l)
  \/ SweepStep

Spec == Init /\ [][Next]_vars

-----------------------------------------------------------------------------
(* Properties.                                                             *)

\* Rows, and the places of the admins, the loops and the sweep among the
\* statements of their functions.
TypeOK ==
  /\ \A r \in Rows : rows[r] = [NewRow(rows[r]) EXCEPT !.enabled = rows[r].enabled,
                                                   !.reason = rows[r].reason]
  /\ at \in [Agent -> {"off", "idle", "list", "add", "test", "insert", "update", "done"}]
  /\ on \in [Loop \cup {Sweep} -> {"torrent", "nzb"}]
  /\ \A l \in Loop : todo[l] \subseteq Offers
  /\ todo[Sweep] \subseteq Row /\ renamed \subseteq Row
  /\ \A a \in Agent : write[a].id \in Row \cup {0}
  /\ cancelled \subseteq Loop /\ requests \in 0..MaxRequests

\* An indexer of Prowlarr has no more rows than loops ever mirrored it: a loop
\* adds one only in the window between its list of names and its insert, and
\* however long a cancelled loop, admins or the sweep take, it never does so
\* for a row of its own. A row that an admin gave another name is no longer one.
MirroredOncePerLoop ==
  \A o \in Offers :
    Cardinality({r \in OfKind(o.kind) \ renamed : rows[r].name = o.name}) <= Cardinality(Loop)
=============================================================================
