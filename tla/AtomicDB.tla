------------------------------ MODULE AtomicDB ------------------------------
(***************************************************************************)
(* What a VectorDB shared by several threads promises: every call takes    *)
(* effect in one step, at some moment between its invocation and its       *)
(* return (linearizability).                                               *)
(***************************************************************************)
EXTENDS VectorTables, FiniteSets

CONSTANTS Threads,
          Calls       \* the requests an application may make

VARIABLES tables,     \* the in-memory tables
          closed,
          settings,   \* what set_wal_sync and set_search_ef chose last
          at,         \* at[t]: where thread t is in its call
          call,       \* call[t]: the call thread t is making or made last
          result      \* result[t]: what it returned

vars == <<tables, closed, settings, at, call, result>>

Hits(t) == {row \in {t.rows[i] : i \in DOMAIN t.rows} : row.id \notin t.deleted}

\* The result of a mutator, after the checks every one of them makes.
Verdict(t, isClosed, c) ==
  IF isClosed THEN "io_error"
  ELSE IF c.op = "insert"
          /\ (~UniqueIds(c.rows) \/ \E id \in RowIds(c.rows) : IsLive(t, id))
       THEN "duplicate"
  ELSE IF c.op = "remove" /\ ~IsLive(t, c.id) THEN "not_found"
  ELSE "ok"

\* insert and insert_bulk, remove, close, set_wal_sync, set_search_ef.
Mutate(th) ==
  LET c == call[th]
      verdict == Verdict(tables, closed, c)
  IN  \/ /\ c.op \in {"insert", "remove"}
         /\ result' = [result EXCEPT ![th] = verdict]
         /\ tables' = IF verdict # "ok" THEN tables
                      ELSE IF c.op = "insert" THEN AddBatch(tables, c.rows)
                      ELSE RemoveRow(tables, c.id)
         /\ UNCHANGED <<closed, settings>>
      \/ /\ c.op = "close"
         /\ closed' = TRUE
         /\ result' = [result EXCEPT ![th] = "ok"]
         /\ UNCHANGED <<tables, settings>>
      \/ /\ c.op = "set"
         /\ settings' = [settings EXCEPT ![c.field] = c.value]
         /\ result' = [result EXCEPT ![th] = "ok"]
         /\ UNCHANGED <<tables, closed>>

\* get, search, size, save, checkpoint, wal_sync, search_ef: nothing that a
\* caller sees changes.
Look(th) ==
  LET c == call[th]
      answer == CASE c.op = "get"        -> Lookup(tables)[c.id]
                  [] c.op = "search"     -> Hits(tables)
                  [] c.op = "size"       -> Cardinality({id \in Ids : IsLive(tables, id)})
                  [] c.op = "save"       -> SaveImage(tables)
                  [] c.op = "checkpoint" -> "ok"
                  [] c.op = "read"       -> settings[c.field]
                  [] OTHER               -> "none"
  IN  /\ c.op \in {"get", "search", "size", "save", "checkpoint", "read"}
      /\ result' = [result EXCEPT ![th] = answer]
      /\ UNCHANGED <<tables, closed, settings>>

Invoke(th) ==
  /\ at[th] = "idle"
  /\ at' = [at EXCEPT ![th] = "called"]
  /\ \E c \in Calls : call' = [call EXCEPT ![th] = c]
  /\ UNCHANGED <<tables, closed, settings, result>>

TakeEffect(th) ==
  /\ at[th] = "called"
  /\ at' = [at EXCEPT ![th] = "done"]
  /\ Mutate(th) \/ Look(th)
  /\ UNCHANGED call

Return(th) ==
  /\ at[th] = "done"
  /\ at' = [at EXCEPT ![th] = "idle"]
  /\ UNCHANGED <<tables, closed, settings, call, result>>

Init ==
  /\ TablesConsistent(tables)
  /\ closed = FALSE
  /\ settings = [wal_sync |-> "checkpoint", ef |-> "default"]
  /\ at = [th \in Threads |-> "idle"]

Next == \E th \in Threads : Invoke(th) \/ TakeEffect(th) \/ Return(th)

Spec == Init /\ [][Next]_vars
=============================================================================
